----------------------------- MODULE WorkerProofs -----------------------------
(***************************************************************************)
(* Theorems about Worker, for every set of tasks, plans and coroutines and  *)
(* any number of restarts: the types; LeaseInv, as long as no run outlives  *)
(* its lease; and, as long as none does, that every step is a step, or      *)
(* none, of DagExecution.                                                  *)
(***************************************************************************)
EXTENDS WorkerProperties, TLAPS

-----------------------------------------------------------------------------
(* Types *)

\* What a step that writes one row, or none, needs to know of the row written.
LEMMA RowTyped ==
  ASSUME TypeOK, NEW t \in DOMAIN task, NEW row \in TaskRow,
         task' = [task EXCEPT ![t] = row]
  PROVE  DOMAIN task' = DOMAIN task /\ DOMAIN task' \subseteq TaskIds
         /\ task' \in [DOMAIN task' -> TaskRow]
  BY DEF TypeOK

\* A plan's rows are well typed and leave the rows that are there alone.
LEMMA CreateTyped ==
  ASSUME TypeOK, NEW p, IsPlan(p), CreateTasks(p), goal' \in GoalRow
  PROVE  TypeOK' /\ DOMAIN task \subseteq DOMAIN task'
<1>1. DOMAIN task' = DOMAIN task \cup DOMAIN p.deps
  BY DEF CreateTasks
<1>2. ASSUME NEW t \in DOMAIN task'
      PROVE  task'[t] \in TaskRow
  <2>1. CASE t \in DOMAIN task
    BY <1>2, <2>1 DEF CreateTasks, TypeOK
  <2>2. CASE t \notin DOMAIN task
    <3>1. t \in DOMAIN p.deps /\ task'[t] = NewTask(p.deps[t])
      BY <1>2, <2>2 DEF CreateTasks
    <3>2. p.deps[t] \subseteq TaskIds
      BY <3>1 DEF IsPlan
    <3> QED
      BY <3>1, <3>2 DEF NewTask, NoWorker, TaskRow, TaskStatus
  <2> QED
    BY <2>1, <2>2
<1>3. task' \in [DOMAIN task' -> TaskRow]
  BY <1>2 DEF CreateTasks
<1> QED
  BY <1>1, <1>3 DEF TypeOK, IsPlan

LEMMA InitTyped ==
  ASSUME Init
  PROVE  WorkerTypeOK
<1>1. DOMAIN task = {} /\ task \in [DOMAIN task -> TaskRow]
  BY DEF Init
<1>2. goal \in GoalRow
  BY DEF Init, NewGoal, GoalRow, GoalStatus
<1>3. Idle \in Coroutine
  BY DEF Idle, Coroutine, PC, Slotless
<1>4. run \in [Coros -> Coroutine] /\ \A c \in Coros : run[c].pc = "idle"
  BY <1>3 DEF Init, Idle
<1>5. workerId \in Nat \ {NoWorker} /\ granted \in BOOLEAN
  <2>1. workerId = 1 /\ granted = FALSE
    BY Zenon DEF Init
  <2>2. workerId \in Nat \ {NoWorker}
    BY <2>1 DEF NoWorker
  <2>3. granted \in BOOLEAN
    BY <2>1, Zenon
  <2> QED
    BY <2>2, <2>3
<1>6. /\ planner \in [pc : {"idle", "plan", "setPlan"}, terminal : TaskIds \cup {None}]
      /\ sweep \in [pc : {"idle", "complete", "fail"}, flag : BOOLEAN,
                    answer : TaskIds \cup {None}]
  BY DEF Init, NoPlanner, NoSweep
<1>7. TypeOK
  BY <1>1, <1>2 DEF TypeOK
<1> QED
  BY <1>4, <1>5, <1>6, <1>7 DEF WorkerTypeOK

\* The planner keeps every row and coroutine well typed.
LEMMA PlannerTyped ==
  ASSUME WorkerTypeOK, PlannerStep
  PROVE  WorkerTypeOK'
<1>1. CASE PlannerClaim
  BY <1>1 DEF PlannerClaim, ClaimNewGoal, WorkerTypeOK, TypeOK, GoalRow, GoalStatus
<1>2. CASE PlannerFails
  BY <1>2 DEF PlannerFails, UpdateGoalStatus, WorkerTypeOK, TypeOK, GoalRow, GoalStatus, NoPlanner
<1>3. CASE PlannerCreates
  <2>1. PICK p \in InitialPlans :
          CreateTasks(p) /\ planner' = [pc |-> "setPlan", terminal |-> p.terminal]
    BY <1>3 DEF PlannerCreates
  <2>2. IsPlan(p)
    BY WorkerAssumption
  <2>3. TypeOK' /\ DOMAIN task \subseteq DOMAIN task'
    <3>1. TypeOK /\ goal' \in GoalRow
      BY <1>3 DEF PlannerCreates, WorkerTypeOK, TypeOK
    <3> QED
      BY <2>1, <2>2, <3>1, CreateTyped
  <2> QED
    BY <1>3, <2>1, <2>2, <2>3 DEF PlannerCreates, IsPlan, WorkerTypeOK
<1>4. CASE PlannerSetsPlan
  BY <1>4 DEF PlannerSetsPlan, SetGoalPlan, WorkerTypeOK, TypeOK, GoalRow, GoalStatus, NoPlanner
<1> QED
  BY <1>1, <1>2, <1>3, <1>4 DEF PlannerStep
\* A coroutine that goes on with its own task stays well typed.
LEMMA StepTyped ==
  ASSUME WorkerTypeOK, NEW c \in Coros, run[c].pc # "idle",
         NEW pc \in PC, Goto(c, pc) \/ End(c),
         DOMAIN task \subseteq DOMAIN task'
  PROVE  /\ run' \in [Coros -> Coroutine]
         /\ \A d \in Coros : run'[d].pc # "idle" => run'[d].task \in DOMAIN task'
<1>1. Idle \in Coroutine
  BY DEF Idle, Coroutine, PC, Slotless
<1>2. CASE Goto(c, pc)
  BY <1>2 DEF Goto, WorkerTypeOK, Coroutine
<1>3. CASE End(c)
  BY <1>1, <1>3 DEF End, Idle, WorkerTypeOK
<1> QED
  BY <1>2, <1>3

\* A step that writes at most the row of one task keeps the store well typed.
LEMMA OneRowTyped ==
  ASSUME TypeOK, goal' = goal, NEW t \in DOMAIN task, NEW row \in TaskRow,
         task' = task \/ task' = [task EXCEPT ![t] = row]
  PROVE  TypeOK' /\ DOMAIN task' = DOMAIN task
  BY DEF TypeOK
\* What the steps of a coroutine leave alone.
Aside == <<workerId, planner, sweep, granted>>

\* A step of a coroutine on its own row keeps everything well typed.
LEMMA OwnStepTyped ==
  ASSUME WorkerTypeOK, NEW c \in Coros, run[c].pc # "idle",
         NEW pc \in PC, Goto(c, pc) \/ End(c), UNCHANGED Aside, goal' = goal,
         NEW row \in TaskRow,
         task' = task \/ task' = [task EXCEPT ![run[c].task] = row]
  PROVE  WorkerTypeOK'
<1>1. run[c].task \in DOMAIN task /\ TypeOK
  BY DEF WorkerTypeOK
<1>2. TypeOK' /\ DOMAIN task' = DOMAIN task
  BY <1>1, OneRowTyped
<1> QED
  BY <1>2, StepTyped DEF WorkerTypeOK, Aside

\* A step of a coroutine that writes the goals row keeps everything well typed.
LEMMA GoalStepTyped ==
  ASSUME WorkerTypeOK, NEW c \in Coros, run[c].pc # "idle",
         NEW pc \in PC, Goto(c, pc) \/ End(c), UNCHANGED Aside, task' = task,
         goal' \in GoalRow
  PROVE  WorkerTypeOK'
<1>1. TypeOK'
  BY DEF WorkerTypeOK, TypeOK
<1> QED
  BY <1>1, StepTyped DEF WorkerTypeOK, Aside

\* The rows the operators of GoalStore write are rows.
LEMMA RowsTyped ==
  ASSUME TypeOK, NEW t \in DOMAIN task, NEW s \in TaskStatus, NEW lim \in BOOLEAN,
         NEW w \in Nat
  PROVE  /\ [task[t] EXCEPT !.status = s] \in TaskRow
         /\ [task[t] EXCEPT !.failures = @ + 1] \in TaskRow
         /\ [task[t] EXCEPT !.lease = "expired"] \in TaskRow
         /\ [task[t] EXCEPT !.status = s, !.worker = w, !.lease = "live"] \in TaskRow
         /\ [task[t] EXCEPT !.status = s, !.worker = NoWorker, !.lease = "none"] \in TaskRow
         /\ [task[t] EXCEPT !.status = s, !.worker = NoWorker, !.lease = "none",
                            !.limited = lim] \in TaskRow
<1>1. task[t] \in TaskRow
  BY DEF TypeOK
<1>2. /\ [task[t] EXCEPT !.status = s] \in TaskRow
      /\ [task[t] EXCEPT !.failures = @ + 1] \in TaskRow
      /\ [task[t] EXCEPT !.lease = "expired"] \in TaskRow
  BY <1>1 DEF TaskRow
<1>3. /\ [task[t] EXCEPT !.status = s, !.worker = w, !.lease = "live"] \in TaskRow
      /\ [task[t] EXCEPT !.status = s, !.worker = NoWorker, !.lease = "none"] \in TaskRow
  BY <1>1 DEF TaskRow, NoWorker
<1>4. [task[t] EXCEPT !.status = s, !.worker = NoWorker, !.lease = "none",
                      !.limited = lim] \in TaskRow
  BY <1>1 DEF TaskRow, NoWorker
<1> QED
  BY <1>2, <1>3, <1>4

LEMMA AgentTyped ==
  ASSUME WorkerTypeOK, NEW c \in Coros, AgentStep(c)
  PROVE  WorkerTypeOK'
<1> DEFINE t == run[c].task
<1>1. TypeOK /\ run[c].pc = "agent" /\ t \in DOMAIN task
  BY DEF WorkerTypeOK, AgentStep, AgentReturns, AgentRaises, AgentWaitsForWebhook,
         AgentLacksCredential, AgentRateLimited, At
<1>2. {"DONE", "WAITING_WEBHOOK", "PENDING"} \subseteq TaskStatus
  BY DEF TaskStatus
<1>3. {"getGoal", "parkCredential", "sleep", "settleFailed", "settleRetry"} \subseteq PC
  BY DEF PC, Executing, Slotless
<1>4. CASE AgentReturns(c)
  <2>1. [task[t] EXCEPT !.status = "DONE", !.worker = NoWorker, !.lease = "none",
                        !.limited = FALSE] \in TaskRow
    BY <1>1, <1>2, RowsTyped
  <2>2. task' = task \/ task' = [task EXCEPT ![t] = [task[t] EXCEPT
          !.status = "DONE", !.worker = NoWorker, !.lease = "none", !.limited = FALSE]]
    BY <1>1, <1>4 DEF AgentReturns, SettleFenced, Settle, TypeOK
  <2> QED
    BY <1>1, <1>3, <1>4, <2>1, <2>2, OwnStepTyped DEF AgentReturns, Aside
<1>5. CASE AgentRaises(c)
  <2>1. task' = [task EXCEPT ![t] = [task[t] EXCEPT !.failures = @ + 1]]
    BY <1>1, <1>5 DEF AgentRaises, RecordFailure, TypeOK
  <2>2. [task[t] EXCEPT !.failures = @ + 1] \in TaskRow
    BY <1>1, <1>2, RowsTyped
  <2>3. Goto(c, "settleFailed") \/ Goto(c, "settleRetry")
    BY <1>5 DEF AgentRaises
  <2> QED
    BY <1>1, <1>3, <1>5, <2>1, <2>2, <2>3, OwnStepTyped DEF AgentRaises, Aside
<1>6. CASE AgentWaitsForWebhook(c)
  <2>1. task' = [task EXCEPT ![t] = [task[t] EXCEPT
          !.status = "WAITING_WEBHOOK", !.worker = NoWorker, !.lease = "none"]]
    BY <1>1, <1>6 DEF AgentWaitsForWebhook, SetTaskWaiting, TypeOK
  <2>2. [task[t] EXCEPT !.status = "WAITING_WEBHOOK", !.worker = NoWorker,
                        !.lease = "none"] \in TaskRow
    BY <1>1, <1>2, RowsTyped
  <2> QED
    BY <1>1, <1>3, <1>6, <2>1, <2>2, OwnStepTyped DEF AgentWaitsForWebhook, Aside
<1>7. CASE AgentLacksCredential(c)
  <2>1. task[t] \in TaskRow
    BY <1>1 DEF TypeOK
  <2> QED
    BY <1>1, <1>3, <1>7, <2>1, OwnStepTyped DEF AgentLacksCredential, Aside
<1>8. CASE AgentRateLimited(c)
  <2>1. task' = [task EXCEPT ![t] = [task[t] EXCEPT
          !.status = "PENDING", !.worker = NoWorker, !.lease = "none", !.limited = TRUE]]
    BY <1>1, <1>8 DEF AgentRateLimited, Settle, TypeOK
  <2>2. [task[t] EXCEPT !.status = "PENDING", !.worker = NoWorker, !.lease = "none",
                        !.limited = TRUE] \in TaskRow
    BY <1>1, <1>2, RowsTyped
  <2> QED
    BY <1>1, <1>3, <1>8, <2>1, <2>2, OwnStepTyped DEF AgentRateLimited, Aside
<1> QED
  BY <1>4, <1>5, <1>6, <1>7, <1>8 DEF AgentStep
LEMMA ExecutorTyped ==
  ASSUME WorkerTypeOK, NEW c \in Coros, ExecutorStep(c)
  PROVE  WorkerTypeOK'
<1> DEFINE t == run[c].task
<1>1. TypeOK
  BY DEF WorkerTypeOK
<1>2. {"READY", "RUNNING", "FAILED"} \subseteq TaskStatus
  BY DEF TaskStatus
<1>3. {"idle", "resolve", "requeue", "goalFailed", "replan", "shouldReplan", "flagReplan",
       "verdict", "complete", "blocked"} \subseteq PC
  BY DEF PC, Executing, Slotless
<1>4. run[c] \in Coroutine
  BY DEF WorkerTypeOK
<1>5. CASE Claim(c)
  <2>1. PICK u \in DOMAIN task :
          /\ ClaimReadyTask(u, workerId)
          /\ run' = [run EXCEPT ![c] = [Idle EXCEPT !.pc = "queued", !.task = u]]
    BY <1>5 DEF Claim
  <2>2. task' = [task EXCEPT ![u] = [task[u] EXCEPT
          !.status = "RUNNING", !.worker = workerId, !.lease = "live"]]
    BY <1>1, <2>1 DEF ClaimReadyTask, TypeOK
  <2>3. [task[u] EXCEPT !.status = "RUNNING", !.worker = workerId, !.lease = "live"] \in TaskRow
    BY <1>1, <1>2, RowsTyped DEF WorkerTypeOK
  <2>4. TypeOK' /\ DOMAIN task' = DOMAIN task
    BY <1>1, <1>5, <2>2, <2>3, OneRowTyped DEF Claim
  <2>5. [Idle EXCEPT !.pc = "queued", !.task = u] \in Coroutine
    BY <1>1 DEF Idle, Coroutine, PC, Executing, TypeOK
  <2>6. /\ run' \in [Coros -> Coroutine]
        /\ \A d \in Coros : run'[d].pc # "idle" => run'[d].task \in DOMAIN task
    BY <2>1, <2>5 DEF Idle, WorkerTypeOK
  <2> QED
    BY <1>5, <2>4, <2>6 DEF Claim, WorkerTypeOK
<1>6. ASSUME ~ Claim(c)
      PROVE  run[c].pc # "idle" /\ t \in DOMAIN task /\ task[t] \in TaskRow
  <2>1. run[c].pc # "idle"
    BY <1>6 DEF ExecutorStep, Acquire, Resolve, ParkOnCredential, WakeUp, Requeue,
         SettleRetry, SettleFailed, ShouldReplan, ReplanRejected, ReplanCreates,
         ReplanSetsPlan, ReplanFlags, HandleGoalFailure, AfterGetGoal, AfterPromote,
         AfterVerdict, CompleteGoal, FailBlockedGoal, At
  <2> QED
    BY <1>1, <2>1 DEF WorkerTypeOK, TypeOK
<1>7. CASE ~ Claim(c) /\ (Acquire(c) \/ ShouldReplan(c) \/ ReplanRejected(c) \/ AfterVerdict(c)
                          \/ WakeUp(c))
  <2>1. \E pc \in PC : Goto(c, pc) \/ End(c)
    BY <1>3, <1>7 DEF Acquire, ShouldReplan, ReplanRejected, AfterVerdict, WakeUp
  <2>2. goal' = goal /\ task' = task /\ UNCHANGED Aside
    BY <1>7 DEF Acquire, ShouldReplan, ReplanRejected, AfterVerdict, WakeUp, Aside
  <2> QED
    BY <1>6, <1>7, <2>1, <2>2, OwnStepTyped
<1>8. CASE Resolve(c)
  <2>1. [run[c] EXCEPT !.pc = "agent", !.inputs = task[t].deps \cap Rows("DONE")] \in Coroutine
    BY <1>1, <1>4 DEF Coroutine, PC, Executing, Rows, TypeOK
  <2>2. run' = [run EXCEPT ![c] = [run[c] EXCEPT
                  !.pc = "agent", !.inputs = task[t].deps \cap Rows("DONE")]]
    BY <1>8 DEF Resolve, WorkerTypeOK
  <2>3. t \in DOMAIN task
    BY <1>8 DEF Resolve, At, WorkerTypeOK
  <2>4. \A d \in Coros : run'[d].pc # "idle" => run'[d].task \in DOMAIN task
    BY <1>4, <2>2, <2>3 DEF WorkerTypeOK, Coroutine
  <2>5. run' \in [Coros -> Coroutine]
    BY <2>1, <2>2 DEF WorkerTypeOK
  <2> QED
    BY <1>8, <2>4, <2>5 DEF Resolve, WorkerTypeOK, TypeOK
<1>9. CASE ~ Claim(c) /\ ParkOnCredential(c)
  <2>1. task' = [task EXCEPT ![t] = [task[t] EXCEPT
          !.status = "WAITING_CREDENTIAL", !.worker = NoWorker, !.lease = "none"]]
    BY <1>1, <1>6, <1>9 DEF ParkOnCredential, SetTaskWaiting, TypeOK
  <2>2. "WAITING_CREDENTIAL" \in TaskStatus
    BY DEF TaskStatus
  <2>3. [task[t] EXCEPT !.status = "WAITING_CREDENTIAL", !.worker = NoWorker,
                        !.lease = "none"] \in TaskRow
    BY <1>1, <1>6, <1>9, <2>2, RowsTyped
  <2> QED
    BY <1>3, <1>6, <1>9, <2>1, <2>3, OwnStepTyped DEF ParkOnCredential, Aside
<1>10. CASE ~ Claim(c) /\ (Requeue(c) \/ SettleRetry(c) \/ SettleFailed(c))
  <2>1. PICK s \in {"READY", "FAILED"} : Settle(t, s, FALSE) \/ task' = task
    BY <1>10 DEF Requeue, SettleRetry, SettleFailed, SettleFenced
  <2>2. task' = task \/ task' = [task EXCEPT ![t] = [task[t] EXCEPT
          !.status = s, !.worker = NoWorker, !.lease = "none", !.limited = FALSE]]
    BY <1>1, <1>6, <1>10, <2>1 DEF Settle, TypeOK
  <2>3. [task[t] EXCEPT !.status = s, !.worker = NoWorker, !.lease = "none",
                        !.limited = FALSE] \in TaskRow
    BY <1>1, <1>2, <1>6, <1>10, <2>1, RowsTyped
  <2>4. \E pc \in PC : Goto(c, pc) \/ End(c)
    BY <1>3, <1>10 DEF Requeue, SettleRetry, SettleFailed
  <2>5. goal' = goal /\ UNCHANGED Aside
    BY <1>10 DEF Requeue, SettleRetry, SettleFailed, Aside
  <2> QED
    BY <1>6, <1>10, <2>2, <2>3, <2>4, <2>5, OwnStepTyped
<1>11. CASE ~ Claim(c) /\ ReplanCreates(c)
  <2>1. PICK p \in Replans :
          IF IdsClash(p)
          THEN End(c) /\ task' = task
          ELSE /\ CreateTasks(p)
               /\ run' = [run EXCEPT ![c].pc = "setPlan", ![c].terminal = p.terminal]
    BY <1>11 DEF ReplanCreates
  <2>2. goal' = goal /\ UNCHANGED Aside
    BY <1>11 DEF ReplanCreates, Aside
  <2>3. CASE IdsClash(p)
    BY <1>3, <1>6, <1>11, <2>1, <2>2, <2>3, OwnStepTyped
  <2>4. CASE ~ IdsClash(p)
    <3>1. IsPlan(p)
      BY WorkerAssumption
    <3>2. TypeOK' /\ DOMAIN task \subseteq DOMAIN task'
      BY <1>1, <2>1, <2>2, <2>4, <3>1, CreateTyped DEF TypeOK
    <3>3. [run[c] EXCEPT !.pc = "setPlan", !.terminal = p.terminal] \in Coroutine
      BY <1>4, <3>1 DEF Coroutine, PC, IsPlan
    <3>4. run' = [run EXCEPT ![c] = [run[c] EXCEPT !.pc = "setPlan", !.terminal = p.terminal]]
      BY <2>1, <2>4 DEF WorkerTypeOK
    <3>5. run' \in [Coros -> Coroutine]
      BY <3>3, <3>4 DEF WorkerTypeOK
    <3>6. \A d \in Coros : run'[d].pc # "idle" => run'[d].task \in DOMAIN task'
      BY <1>4, <1>6, <1>11, <3>2, <3>4 DEF WorkerTypeOK, Coroutine
    <3> QED
      BY <2>2, <3>2, <3>5, <3>6 DEF WorkerTypeOK, Aside
  <2> QED
    BY <2>3, <2>4
<1>12. CASE ~ Claim(c) /\ ReplanSetsPlan(c)
  <2>1. goal' \in GoalRow
    BY <1>1, <1>4, <1>12 DEF ReplanSetsPlan, SetGoalPlan, TypeOK, GoalRow, GoalStatus, Coroutine
  <2> QED
    BY <1>3, <1>6, <1>12, <2>1, GoalStepTyped DEF ReplanSetsPlan, Aside
<1>13. CASE ~ Claim(c) /\ (ReplanFlags(c) \/ HandleGoalFailure(c) \/ CompleteGoal(c)
                           \/ FailBlockedGoal(c))
  <2>0. PICK s \in GoalStatus, out \in TaskIds \cup {None}, flag \in BOOLEAN :
          UpdateGoalStatus(s, out, flag)
    BY <1>4, <1>13 DEF ReplanFlags, HandleGoalFailure, CompleteGoal, FailBlockedGoal,
         GoalStatus, Coroutine
  <2>1. goal' \in GoalRow
    BY <1>1, <2>0 DEF UpdateGoalStatus, TypeOK, GoalRow
  <2>2. End(c) /\ task' = task /\ UNCHANGED Aside
    BY <1>13 DEF ReplanFlags, HandleGoalFailure, CompleteGoal, FailBlockedGoal, Aside
  <2> QED
    BY <1>3, <1>6, <1>13, <2>1, <2>2, GoalStepTyped
<1>14. CASE ~ Claim(c) /\ AfterGetGoal(c)
  <2>1. [run[c] EXCEPT !.pc = "promote", !.terminal = goal.terminal] \in Coroutine
    BY <1>1, <1>4 DEF Coroutine, PC, GoalRow, TypeOK
  <2>2. run' = [run EXCEPT ![c] = [run[c] EXCEPT !.pc = "promote", !.terminal = goal.terminal]]
    BY <1>14 DEF AfterGetGoal, WorkerTypeOK
  <2>3. \A d \in Coros : run'[d].pc # "idle" => run'[d].task \in DOMAIN task
    BY <1>4, <1>6, <1>14, <2>2 DEF WorkerTypeOK, Coroutine
  <2>4. run' \in [Coros -> Coroutine]
    BY <2>1, <2>2 DEF WorkerTypeOK
  <2> QED
    BY <1>14, <2>3, <2>4 DEF AfterGetGoal, WorkerTypeOK, TypeOK
<1>15. CASE ~ Claim(c) /\ AfterPromote(c)
  <2>1. \A u \in DOMAIN task : [task[u] EXCEPT !.status = "READY"] \in TaskRow
    BY <1>1, <1>2, RowsTyped DEF WorkerTypeOK
  <2>2. TypeOK' /\ DOMAIN task' = DOMAIN task
    BY <1>1, <1>15, <2>1 DEF AfterPromote, PromoteReadyTasks, TypeOK
  <2>3. Goto(c, "verdict") \/ End(c)
    BY <1>15 DEF AfterPromote
  <2> QED
    BY <1>3, <1>6, <1>15, <2>2, <2>3, StepTyped DEF AfterPromote, WorkerTypeOK
<1> QED
  BY <1>5, <1>7, <1>8, <1>9, <1>10, <1>11, <1>12, <1>13, <1>14, <1>15 DEF ExecutorStep
LEMMA ReclaimTyped ==
  ASSUME WorkerTypeOK, ReclaimStep
  PROVE  WorkerTypeOK'
<1>1. TypeOK
  BY DEF WorkerTypeOK
<1>2. CASE Reclaim
  <2>1. \A t \in DOMAIN task :
          [task[t] EXCEPT !.status = "READY", !.worker = NoWorker, !.lease = "none"] \in TaskRow
    BY <1>1, RowsTyped DEF TaskStatus, WorkerTypeOK
  <2>2. TypeOK' /\ DOMAIN task' = DOMAIN task
    BY <1>1, <1>2, <2>1 DEF Reclaim, ReclaimExpiredLeases, TypeOK
  <2>3. \A c \in Coros : /\ run[c] \in Coroutine
                         /\ run'[c] = run[c] \/ run'[c] = [run[c] EXCEPT !.lost = TRUE]
    BY <1>2 DEF Reclaim, WorkerTypeOK
  <2>4. ASSUME NEW c \in Coros
        PROVE  /\ run'[c] \in Coroutine
               /\ run'[c].pc = run[c].pc
               /\ run'[c].task = run[c].task
    <3>1. run[c] \in Coroutine
      BY <2>3
    <3>2. CASE run'[c] = run[c]
      BY <3>1, <3>2
    <3>3. CASE run'[c] = [run[c] EXCEPT !.lost = TRUE]
      BY <3>1, <3>3 DEF Coroutine
    <3> QED
      BY <2>3, <3>2, <3>3
  <2>5. run' \in [Coros -> Coroutine]
    BY <1>2, <2>4 DEF Reclaim
  <2> QED
    BY <1>2, <2>2, <2>4, <2>5 DEF Reclaim, WorkerTypeOK
<1>3. CASE FindOrphan
  <2>1. goal.replanned \in BOOLEAN /\ goal.terminal \in TaskIds \cup {None}
    BY <1>1 DEF TypeOK, GoalRow
  <2>2. sweep' \in [pc : {"idle", "complete", "fail"}, flag : BOOLEAN,
                    answer : TaskIds \cup {None}]
    BY <1>3, <2>1 DEF FindOrphan
  <2> QED
    BY <1>3, <2>2 DEF FindOrphan, WorkerTypeOK, TypeOK
<1>4. CASE CompleteOrphan \/ FailOrphan
  <2>1. goal' \in GoalRow /\ task' = task /\ sweep' = NoSweep
    BY <1>1, <1>4 DEF CompleteOrphan, FailOrphan, UpdateGoalStatus, WorkerTypeOK, TypeOK,
         GoalRow, GoalStatus
  <2>2. TypeOK'
    BY <1>1, <2>1 DEF TypeOK
  <2> QED
    BY <1>4, <2>1, <2>2 DEF CompleteOrphan, FailOrphan, NoSweep, WorkerTypeOK
<1> QED
  BY <1>2, <1>3, <1>4 DEF ReclaimStep

LEMMA WorldTyped ==
  ASSUME WorkerTypeOK,
         (\E t \in DOMAIN task : CallWebhook(t) \/ LeaseExpires(t)) \/ GrantCredential \/ Restart
  PROVE  WorkerTypeOK'
<1>1. TypeOK
  BY DEF WorkerTypeOK
<1>2. ASSUME NEW t \in DOMAIN task, CallWebhook(t) \/ LeaseExpires(t)
      PROVE  WorkerTypeOK'
  <2>1. PICK row \in TaskRow : task' = [task EXCEPT ![t] = row]
    <3>1. CASE CallWebhook(t)
      <4>1. [task[t] EXCEPT !.status = "READY"] \in TaskRow
        BY <1>1, RowsTyped DEF TaskStatus, WorkerTypeOK
      <4> QED
        BY <1>1, <3>1, <4>1 DEF CallWebhook, ResumeWebhookTask, TypeOK
    <3>2. CASE LeaseExpires(t)
      <4>1. [task[t] EXCEPT !.lease = "expired"] \in TaskRow
        BY <1>1, RowsTyped DEF TaskStatus, WorkerTypeOK
      <4> QED
        BY <1>1, <3>2, <4>1 DEF LeaseExpires, TypeOK
    <3> QED
      BY <1>2, <3>1, <3>2
  <2>2. TypeOK' /\ DOMAIN task' = DOMAIN task
    BY <1>1, <1>2, <2>1, OneRowTyped DEF CallWebhook, LeaseExpires
  <2> QED
    BY <1>2, <2>2 DEF CallWebhook, LeaseExpires, WorkerTypeOK
<1>3. CASE GrantCredential
  <2>1. \A t \in DOMAIN task : [task[t] EXCEPT !.status = "READY"] \in TaskRow
    BY <1>1, RowsTyped DEF TaskStatus, WorkerTypeOK
  <2>2. TypeOK' /\ DOMAIN task' = DOMAIN task
    BY <1>1, <1>3, <2>1 DEF GrantCredential, ResumeCredentialTasks, TypeOK
  <2>3. granted' \in BOOLEAN
    BY <1>3, Zenon DEF GrantCredential
  <2> QED
    BY <1>3, <2>2, <2>3 DEF GrantCredential, WorkerTypeOK
<1>4. CASE Restart
  <2>1. Idle \in Coroutine /\ Idle.pc = "idle"
    BY DEF Idle, Coroutine, PC, Slotless
  <2>2. /\ run' \in [Coros -> Coroutine]
        /\ \A c \in Coros : run'[c].pc = "idle"
    BY <1>4, <2>1 DEF Restart
  <2>3. workerId' \in Nat \ {NoWorker}
    BY <1>4 DEF Restart, NoWorker, WorkerTypeOK
  <2>4. TypeOK'
    BY <1>1, <1>4 DEF Restart, TypeOK
  <2> QED
    BY <1>4, <2>2, <2>3, <2>4 DEF Restart, NoPlanner, NoSweep, WorkerTypeOK
<1> QED
  BY <1>2, <1>3, <1>4

\* A step that changes nothing disturbs no type.
LEMMA StutterTyped ==
  ASSUME WorkerTypeOK, UNCHANGED vars
  PROVE  WorkerTypeOK'
  BY DEF vars, WorkerTypeOK, TypeOK

LEMMA NextTyped ==
  ASSUME WorkerTypeOK, [Next]_vars
  PROVE  WorkerTypeOK'
  BY PlannerTyped, AgentTyped, ExecutorTyped, ReclaimTyped, WorldTyped, StutterTyped DEF Next

\* The goals row, the task rows and the coroutines always have their types, and a
\* coroutine that is not idle works on a task that exists.
THEOREM Typed == Spec => []WorkerTypeOK
<1>1. Init => WorkerTypeOK
  BY InitTyped
<1>2. WorkerTypeOK /\ [Next]_vars => WorkerTypeOK'
  BY NextTyped
<1> QED
  BY <1>1, <1>2, PTL DEF Spec

-----------------------------------------------------------------------------
(* What a step does to the rows *)

\* The row keeps its dependencies, its failures and its end, and stops waiting for
\* its dependencies only once they are done.
RowKept(t) ==
  /\ t \in DOMAIN task'
  /\ task'[t].deps = task[t].deps
  /\ task'[t].failures = task[t].failures
  /\ task[t].status = "DONE" => task'[t].status = "DONE"
  /\ task[t].status = "FAILED" <=> task'[t].status = "FAILED"
  /\ task'[t].status # "PENDING" \/ task'[t].limited =>
       task[t].status # "PENDING" \/ task[t].limited \/ DepsDone(t)

Fresh(t) == task'[t] = NewTask(task'[t].deps)

\* The coroutine is where it was, or moved to where it needs nothing of a row, or
\* from one step to the next after its task was done; the row it needs is as it was.
Kept(c) ==
  \/ run'[c].pc \notin Holding \cup Finishing
  \/ /\ run'[c].task = run[c].task
     /\ run'[c].pc = run[c].pc
     /\ run'[c].inputs = run[c].inputs
     /\ task'[run[c].task] = task[run[c].task]
  \/ /\ run'[c].task = run[c].task
     /\ run[c].pc \in Finishing /\ run'[c].pc \in Finishing
     /\ task'[run[c].task] = task[run[c].task]

\* The answers to come are outputs of tasks that are done.
Answered ==
  /\ \/ goal'.answer = goal.answer /\ (goal'.status = "COMPLETED" => goal.status = "COMPLETED")
     \/ goal'.answer = None /\ goal'.status # "COMPLETED"
     \/ goal'.answer \in Rows("DONE")
  /\ \/ sweep' = sweep
     \/ sweep'.pc # "complete"
     \/ sweep'.answer \in Rows("DONE")

LEMMA HoldingPC ==
  /\ Executing \subseteq Holding
  /\ Holding \cap Finishing = {}
  /\ Finishing \subseteq PC
  /\ "settleFailed" \in Executing /\ "agent" \in Executing
  /\ {"idle", "shouldReplan", "goalFailed", "replan", "setPlan", "flagReplan"}
       \cap (Holding \cup Finishing) = {}
  BY DEF Holding, Finishing, Executing, PC

LEMMA Advance ==
  ASSUME LeaseInv, WorkerTypeOK', workerId' = workerId,
         \A t \in DOMAIN task : RowKept(t),
         \A t \in DOMAIN task' \ DOMAIN task : Fresh(t),
         \A c \in Coros : At(c, "settleFailed") =>
           run'[c].pc = "settleFailed" /\ run'[c].task = run[c].task
  PROVE  /\ Rows("DONE") \subseteq Rows("DONE")'
         /\ DependencyOrder'
         /\ \A t \in DOMAIN task' : Budget(t)'
<1>1. Rows("DONE") \subseteq Rows("DONE")'
  BY DEF RowKept, Rows
<1>2. ASSUME NEW t \in DOMAIN task', task'[t].status # "PENDING" \/ task'[t].limited
      PROVE  DepsDone(t)'
  <2>1. CASE t \in DOMAIN task
    <3>1. DepsDone(t)
      BY <1>2, <2>1 DEF LeaseInv, DependencyOrder, RowKept
    <3> QED
      BY <1>1, <2>1, <3>1 DEF DepsDone, RowKept
  <2>2. CASE t \notin DOMAIN task
    <3>1. task'[t].deps = {}
      BY <1>2, <2>2 DEF Fresh, NewTask
    <3> QED
      BY <3>1 DEF DepsDone
  <2> QED
    BY <2>1, <2>2
<1>3. ASSUME NEW t \in DOMAIN task'
      PROVE  Budget(t)'
  <2>1. workerId \in Nat \ {0} /\ MaxAttempts \in Nat \ {0}
    BY WorkerAssumption DEF LeaseInv, WorkerTypeOK, NoWorker
  <2>2. CASE t \in DOMAIN task
    <3>1. Budget(t) /\ task'[t].failures = task[t].failures
      BY <2>2 DEF LeaseInv, RowKept
    <3>2. t \in Rows("FAILED") <=> t \in Rows("FAILED")'
      BY <2>2, <1>3 DEF Rows, RowKept
    <3>3. Spent(t) => Spent(t)'
      BY <3>2 DEF Spent, At
    <3> QED
      BY <3>1, <3>2, <3>3 DEF Budget
  <2>3. CASE t \notin DOMAIN task
    <3>1. task'[t].failures = 0 /\ task'[t].status # "FAILED"
      BY <1>3, <2>3 DEF Fresh, NewTask
    <3> QED
      BY <2>1, <3>1 DEF Budget, Rows
  <2> QED
    BY <2>2, <2>3
<1> QED
  BY <1>1, <1>2, <1>3 DEF DependencyOrder

LEMMA Bystanders ==
  ASSUME LeaseInv, workerId' = workerId, \A c \in Coros : Kept(c)
  PROVE  (\A c \in Coros : RowFits(c)') /\ Apart'
<1>1. ASSUME NEW c \in Coros
      PROVE  RowFits(c)'
  <2>1. RowFits(c) /\ Kept(c)
    BY DEF LeaseInv
  <2> QED
    BY <2>1, HoldingPC DEF RowFits, Kept, Holding
<1>2. \A c \in Coros : run'[c].pc \in Holding =>
        run[c].pc \in Holding /\ run'[c].task = run[c].task
  BY HoldingPC DEF Kept
<1> QED
  BY <1>1, <1>2 DEF Apart, LeaseInv

LEMMA AnswerKept ==
  ASSUME LeaseInv, WorkerTypeOK', Answered, Rows("DONE") \subseteq Rows("DONE")'
  PROVE  /\ AnswerIsDone'
         /\ (sweep.pc = "complete" => sweep.answer \in Rows("DONE"))'
<1>1. None \notin Rows("DONE")
  BY NoneAssumption DEF LeaseInv, WorkerTypeOK, TypeOK, Rows
<1> QED
  BY <1>1 DEF Answered, AnswerIsDone, LeaseInv

\* A step that takes nothing from any coroutine.
LEMMA QuietStep ==
  ASSUME LeaseInv, WorkerTypeOK', workerId' = workerId,
         \A t \in DOMAIN task : RowKept(t),
         \A t \in DOMAIN task' \ DOMAIN task : Fresh(t),
         \A c \in Coros : Kept(c) /\ (At(c, "settleFailed") =>
           run'[c].pc = "settleFailed" /\ run'[c].task = run[c].task),
         Answered
  PROVE  LeaseInv'
  BY Advance, Bystanders, AnswerKept DEF LeaseInv

\* A coroutine that holds a row may do with it what it likes.
LEMMA HolderStep ==
  ASSUME LeaseInv, WorkerTypeOK', UNCHANGED <<goal, Aside>>,
         NEW c \in Coros, run[c].pc \in Holding, NEW t, t = run[c].task,
         NEW rec, run' = [run EXCEPT ![c] = rec], rec.pc # "idle" => rec.task = t,
         NEW row, task' = [task EXCEPT ![t] = row], row.deps = task[t].deps,
         RowFits(c)', Budget(t)'
  PROVE  LeaseInv'
<1>1. /\ t \in DOMAIN task /\ TypeOK
      /\ workerId' = workerId /\ sweep' = sweep
      /\ run \in [Coros -> Coroutine]
  BY DEF LeaseInv, WorkerTypeOK, Aside, Holding, Executing
<1>2. /\ task[t].status = "RUNNING" \/ (task[t].status = "PENDING" /\ task[t].limited)
  BY DEF LeaseInv, RowFits, Holding
<1>3. DepsDone(t)
  BY <1>1, <1>2 DEF LeaseInv, DependencyOrder
<1>4. /\ DOMAIN task' = DOMAIN task
      /\ task'[t] = row
      /\ \A u \in DOMAIN task : u # t => task'[u] = task[u]
  BY <1>1 DEF TypeOK
<1>5. run'[c] = rec /\ \A d \in Coros \ {c} : run'[d] = run[d]
  BY <1>1
<1>6. Rows("DONE") \subseteq Rows("DONE")'
  BY <1>2, <1>4 DEF Rows
<1>7. ASSUME NEW d \in Coros \ {c}, run[d].pc \in Holding \cup Finishing
      PROVE  run[d].task # t /\ run[d].task \in DOMAIN task
  <2>1. RowFits(d) /\ run[d].pc # "idle"
    BY <1>7, HoldingPC DEF LeaseInv
  <2> QED
    BY <1>2, <1>7, <2>1 DEF LeaseInv, RowFits, Apart, WorkerTypeOK
<1>8. ASSUME NEW d \in Coros
      PROVE  RowFits(d)'
  <2>1. CASE d = c
    BY <2>1
  <2>2. CASE d # c
    <3>1. RowFits(d) /\ run'[d] = run[d]
      BY <1>5, <2>2 DEF LeaseInv
    <3>2. CASE run[d].pc \in Holding \cup Finishing
      <4>1. task'[run[d].task] = task[run[d].task]
        BY <1>4, <1>7, <2>2, <3>2
      <4> QED
        BY <1>1, <3>1, <4>1 DEF RowFits
    <3>3. CASE run[d].pc \notin Holding \cup Finishing
      BY <3>1, <3>3, HoldingPC DEF RowFits, Holding
    <3> QED
      BY <3>2, <3>3
  <2> QED
    BY <2>1, <2>2
<1>9. Apart'
  BY <1>5, HoldingPC DEF Apart, LeaseInv
<1>10. DependencyOrder'
  <2>1. ASSUME NEW u \in DOMAIN task, task'[u].status # "PENDING" \/ task'[u].limited
        PROVE  DepsDone(u)'
    <3>1. DepsDone(u) /\ task'[u].deps = task[u].deps
      BY <1>3, <1>4, <2>1 DEF LeaseInv, DependencyOrder
    <3> QED
      BY <1>6, <3>1 DEF DepsDone
  <2> QED
    BY <1>4, <2>1 DEF DependencyOrder
<1>11. ASSUME NEW u \in DOMAIN task', u # t
       PROVE  Budget(u)'
  <2>1. Budget(u) /\ task'[u] = task[u]
    BY <1>4, <1>11 DEF LeaseInv
  <2>2. u \in Rows("FAILED") <=> u \in Rows("FAILED")'
    BY <1>4, <1>11, <2>1 DEF Rows
  <2>3. Spent(u) => Spent(u)'
    BY <1>5, <1>11, <2>2 DEF Spent, At
  <2> QED
    BY <1>1, <2>1, <2>2, <2>3 DEF Budget
<1>12. AnswerIsDone' /\ (sweep.pc = "complete" => sweep.answer \in Rows("DONE"))'
  <2>1. Answered
    BY <1>1 DEF Answered
  <2> QED
    BY <1>6, <2>1, AnswerKept
<1> QED
  BY <1>8, <1>9, <1>10, <1>11, <1>12 DEF LeaseInv
\* The usual step of a coroutine that holds a row: the row changes and the
\* coroutine moves on or ends, with the same inputs.
LEMMA HolderMove ==
  ASSUME LeaseInv, WorkerTypeOK', UNCHANGED <<goal, Aside>>,
         NEW c \in Coros, run[c].pc \in Holding, run[c].pc # "settleFailed",
         NEW t, t = run[c].task,
         NEW pc, pc # "agent", Goto(c, pc) \/ (pc = "idle" /\ End(c)),
         NEW row, task' = [task EXCEPT ![t] = row],
         row.deps = task[t].deps, row.status # "FAILED",
         pc \in Executing =>
           row.status = "RUNNING" /\ row.worker = workerId /\ row.lease = "live",
         pc \in {"sleep", "requeue"} => row.status = "PENDING" /\ row.limited,
         pc \in Finishing => row.status = "DONE",
         \/ row.failures = task[t].failures /\ pc # "settleFailed"
         \/ /\ row.failures = task[t].failures + 1
            /\ row.failures >= MaxAttempts <=> pc = "settleFailed"
  PROVE  LeaseInv'
<1>1. /\ t \in DOMAIN task /\ TypeOK /\ task[t] \in TaskRow
      /\ workerId' = workerId /\ workerId \in Nat \ {0}
      /\ run \in [Coros -> Coroutine]
  BY DEF LeaseInv, WorkerTypeOK, TypeOK, Aside, Holding, Executing, NoWorker
<1>2. DOMAIN task' = DOMAIN task /\ task'[t] = row
  BY <1>1 DEF TypeOK
<1>3. PICK rec \in Coroutine : run' = [run EXCEPT ![c] = rec] /\ rec.pc = pc
                              /\ (pc # "idle" => rec.task = t)
  <2>1. run' \in [Coros -> Coroutine]
    BY DEF WorkerTypeOK
  <2>2. CASE Goto(c, pc)
    BY <1>1, <2>1, <2>2 DEF Goto, Coroutine
  <2>3. CASE pc = "idle" /\ End(c)
    BY <1>1, <2>1, <2>3 DEF End, Idle
  <2> QED
    BY <2>2, <2>3
<1>4. run'[c] = rec
  BY <1>1, <1>3
<1>5. RowFits(c)'
  <2>1. CASE pc = "idle"
    BY <1>3, <1>4, <2>1, HoldingPC DEF RowFits, Holding
  <2>2. CASE pc # "idle"
    <3>1. pc = "settleFailed" => row.failures >= MaxAttempts
      BY WorkerAssumption, <1>1 DEF TaskRow
    <3> QED
      BY <1>1, <1>2, <1>3, <1>4, <2>2, <3>1, HoldingPC DEF RowFits
  <2> QED
    BY <2>1, <2>2
<1>6. Budget(t)'
  <2>1. ~ Spent(t)
    <3>1. task[t].status # "FAILED"
      BY DEF LeaseInv, RowFits, Holding
    <3>2. ASSUME NEW d \in Coros, run[d].task = t, run[d].pc = "settleFailed"
          PROVE  FALSE
      BY <3>2, HoldingPC DEF LeaseInv, Apart
    <3> QED
      BY <3>1, <3>2 DEF Spent, Rows, At
  <2>2. /\ task[t].failures \in Nat /\ MaxAttempts \in Nat
        /\ task[t].failures < MaxAttempts + (workerId - 1)
    BY <1>1, <2>1, WorkerAssumption DEF LeaseInv, Budget, TaskRow
  <2>3. pc = "settleFailed" => Spent(t)'
    BY <1>3, <1>4 DEF Spent, At
  <2>4. t \notin Rows("FAILED")'
    BY <1>2 DEF Rows
  <2>5. row.failures <= MaxAttempts + (workerId - 1)
    BY <1>1, <2>2
  <2>6. pc # "settleFailed" => row.failures < MaxAttempts + (workerId - 1)
    BY <1>1, <2>2
  <2> QED
    BY <1>1, <1>2, <2>3, <2>4, <2>5, <2>6 DEF Budget
<1> QED
  BY <1>3, <1>5, <1>6, HolderStep

\* What a coroutine that holds a row knows of it.
LEMMA HeldRow ==
  ASSUME LeaseInv, NEW c \in Coros, run[c].pc \in Holding
  PROVE  /\ run[c].task \in DOMAIN task /\ task[run[c].task] \in TaskRow
         /\ DOMAIN task = DOMAIN task /\ task \in [DOMAIN task -> TaskRow]
         /\ run[c].pc \in Executing => /\ task[run[c].task].status = "RUNNING"
                                       /\ task[run[c].task].worker = workerId
                                       /\ task[run[c].task].lease = "live"
         /\ run[c].pc \notin Executing => /\ task[run[c].task].status = "PENDING"
                                          /\ task[run[c].task].limited
         /\ run[c] \in Coroutine
         /\ task' = task => task' = [task EXCEPT ![run[c].task] = task[run[c].task]]
  BY DEF LeaseInv, WorkerTypeOK, TypeOK, RowFits, Holding, Executing

LEMMA AgentLeased ==
  ASSUME LeaseInv, WorkerTypeOK', NEW c \in Coros, AgentStep(c)
  PROVE  LeaseInv'
<1> DEFINE t == run[c].task
           row == task[t]
<1>1. /\ run[c].pc = "agent" /\ run[c].pc \in Executing /\ run[c].pc \in Holding
      /\ UNCHANGED <<goal, Aside>>
  BY HoldingPC DEF AgentStep, AgentReturns, AgentRaises, AgentWaitsForWebhook,
     AgentLacksCredential, AgentRateLimited, At, Aside
<1>2. /\ row \in TaskRow /\ row.status = "RUNNING"
      /\ row.worker = workerId /\ row.lease = "live"
  BY <1>1, HeldRow
<1>3. {"sleep", "getGoal", "idle"} \cap Executing = {} /\ "parkCredential" \in Executing
      /\ {"sleep", "idle", "settleFailed", "settleRetry", "parkCredential"} \cap Finishing = {}
      /\ "settleFailed" \in Executing /\ "settleRetry" \in Executing
  BY DEF Executing, Finishing
<1>4. CASE AgentReturns(c)
  <2> DEFINE new == [row EXCEPT !.status = "DONE", !.worker = NoWorker, !.lease = "none",
                               !.limited = FALSE]
             pc == "getGoal"
  <2>1. task' = [task EXCEPT ![t] = new] /\ Goto(c, pc)
    BY <1>1, <1>2, <1>4, HeldRow DEF AgentReturns, SettleFenced, Settle
  <2>2. new.deps = row.deps /\ new.status = "DONE" /\ new.failures = row.failures
    BY <1>2 DEF TaskRow
  <2>3. /\ pc # "agent" /\ pc # "settleFailed"
        /\ pc \notin Executing /\ pc \notin {"sleep", "requeue"}
    BY <1>3
  <2>4. new.status # "FAILED"
    BY <2>2
  <2> HIDE DEF new, pc
  <2> QED
    BY <1>1, <2>1, <2>2, <2>3, <2>4, HolderMove
<1>5. CASE AgentRaises(c)
  <2> DEFINE new == [row EXCEPT !.failures = @ + 1]
             pc == IF new.failures >= MaxAttempts THEN "settleFailed" ELSE "settleRetry"
  <2>1. task' = [task EXCEPT ![t] = new]
    BY <1>1, <1>5, HeldRow DEF AgentRaises, RecordFailure
  <2>2. /\ new.deps = row.deps /\ new.status = row.status /\ new.failures = row.failures + 1
        /\ new.worker = row.worker /\ new.lease = row.lease
    BY <1>2 DEF TaskRow
  <2>3. Goto(c, pc)
    BY <1>5, <2>2 DEF AgentRaises
  <2>4. /\ pc # "agent" /\ pc \notin {"sleep", "requeue"} /\ pc \notin Finishing
        /\ new.failures >= MaxAttempts <=> pc = "settleFailed"
    BY <1>3
  <2>5. new.status # "FAILED" /\ new.status = "RUNNING" /\ new.worker = workerId
        /\ new.lease = "live"
    BY <1>2, <2>2
  <2> HIDE DEF new, pc
  <2> QED
    BY <1>1, <2>1, <2>2, <2>3, <2>4, <2>5, HolderMove
<1>6. CASE AgentWaitsForWebhook(c)
  <2> DEFINE new == [row EXCEPT !.status = "WAITING_WEBHOOK", !.worker = NoWorker,
                               !.lease = "none"]
  <2>1. task' = [task EXCEPT ![t] = new] /\ End(c)
    BY <1>1, <1>2, <1>6, HeldRow DEF AgentWaitsForWebhook, SetTaskWaiting
  <2>2. new.deps = row.deps /\ new.status = "WAITING_WEBHOOK" /\ new.failures = row.failures
    BY <1>2 DEF TaskRow
  <2> HIDE DEF new
  <2> QED
    BY <1>1, <1>2, <1>3, <2>1, <2>2, HolderMove
<1>7. CASE AgentLacksCredential(c)
  BY <1>1, <1>2, <1>3, <1>7, HeldRow, HolderMove DEF AgentLacksCredential
<1>8. CASE AgentRateLimited(c)
  <2> DEFINE new == [row EXCEPT !.status = "PENDING", !.worker = NoWorker, !.lease = "none",
                               !.limited = TRUE]
  <2>1. task' = [task EXCEPT ![t] = new] /\ Goto(c, "sleep")
    BY <1>1, <1>2, <1>8, HeldRow DEF AgentRateLimited, Settle
  <2>2. new.deps = row.deps /\ new.status = "PENDING" /\ new.limited
        /\ new.failures = row.failures
    BY <1>2 DEF TaskRow
  <2> HIDE DEF new
  <2> QED
    BY <1>1, <1>2, <1>3, <2>1, <2>2, HolderMove
<1> QED
  BY <1>4, <1>5, <1>6, <1>7, <1>8 DEF AgentStep
\* A free row is nobody's, and whoever claims it is the only one on it.
LEMMA ClaimLeased ==
  ASSUME LeaseInv, WorkerTypeOK', NEW c \in Coros, Claim(c)
  PROVE  LeaseInv'
<1>1. PICK t \in DOMAIN task :
        /\ ClaimReadyTask(t, workerId)
        /\ run' = [run EXCEPT ![c] = [Idle EXCEPT !.pc = "queued", !.task = t]]
  BY DEF Claim
<1>2. /\ task[t].status = "READY" /\ DepsDone(t) /\ task[t] \in TaskRow
      /\ DOMAIN task' = DOMAIN task
      /\ task'[t] = [task[t] EXCEPT !.status = "RUNNING", !.worker = workerId, !.lease = "live"]
      /\ \A u \in DOMAIN task : u # t => task'[u] = task[u]
      /\ goal' = goal /\ sweep' = sweep /\ workerId' = workerId
      /\ run \in [Coros -> Coroutine] /\ run[c].pc = "idle"
  BY <1>1 DEF LeaseInv, WorkerTypeOK, TypeOK, ClaimReadyTask, Rows, Claim, At
<1>3. /\ task'[t].status = "RUNNING" /\ task'[t].worker = workerId
      /\ task'[t].lease = "live" /\ task'[t].deps = task[t].deps
      /\ task'[t].failures = task[t].failures
  BY <1>2 DEF TaskRow
<1>4. ASSUME NEW d \in Coros, run[d].pc \in Holding \cup Finishing
      PROVE  run[d].task # t /\ task'[run[d].task] = task[run[d].task]
  <2>1. RowFits(d) /\ run[d].task \in DOMAIN task
    BY <1>4, HoldingPC DEF LeaseInv, WorkerTypeOK
  <2> QED
    BY <1>2, <1>4, <2>1 DEF RowFits, Holding
<1>5. /\ run'[c].pc = "queued" /\ run'[c].task = t
      /\ \A d \in Coros \ {c} : run'[d] = run[d]
  BY <1>1, <1>2 DEF Idle
<1>6. \A u \in DOMAIN task : RowKept(u)
  BY <1>2, <1>3 DEF RowKept
<1>7. \A d \in Coros : At(d, "settleFailed") =>
        run'[d].pc = "settleFailed" /\ run'[d].task = run[d].task
  BY <1>2, <1>5 DEF At
<1>8. /\ Rows("DONE") \subseteq Rows("DONE")' /\ DependencyOrder'
      /\ \A u \in DOMAIN task' : Budget(u)'
  BY <1>2, <1>6, <1>7, Advance
<1>9. AnswerIsDone' /\ (sweep.pc = "complete" => sweep.answer \in Rows("DONE"))'
  <2>1. Answered
    BY <1>2 DEF Answered
  <2> QED
    BY <1>8, <2>1, AnswerKept
<1>10. ASSUME NEW d \in Coros
       PROVE  RowFits(d)'
  <2>1. CASE d = c
    BY <1>2, <1>3, <1>5, <2>1 DEF RowFits, Finishing
  <2>2. CASE d # c
    <3>1. RowFits(d) /\ run'[d] = run[d]
      BY <1>5, <2>2 DEF LeaseInv
    <3> QED
      BY <1>2, <1>4, <3>1, HoldingPC DEF RowFits, Holding
  <2> QED
    BY <2>1, <2>2
<1>11. Apart'
  BY <1>4, <1>5 DEF Apart, LeaseInv
<1> QED
  BY <1>8, <1>9, <1>10, <1>11 DEF LeaseInv

\* Nothing happens to a row or a claim: only goal, sweep and later steps move.
LEMMA RowsAlone ==
  ASSUME LeaseInv, WorkerTypeOK', workerId' = workerId, task' = task, Answered,
         \A c \in Coros : Kept(c) /\ (At(c, "settleFailed") =>
           run'[c].pc = "settleFailed" /\ run'[c].task = run[c].task)
  PROVE  LeaseInv'
<1>1. \A t \in DOMAIN task : RowKept(t)
  BY DEF RowKept
<1> QED
  BY <1>1, QuietStep

\* The steps of a coroutine after its claim is settled.
LEMMA LaterLeased ==
  ASSUME LeaseInv, WorkerTypeOK', NEW c \in Coros,
         \/ ShouldReplan(c) \/ ReplanRejected(c) \/ ReplanSetsPlan(c) \/ ReplanFlags(c)
         \/ HandleGoalFailure(c) \/ AfterGetGoal(c) \/ AfterVerdict(c)
         \/ CompleteGoal(c) \/ FailBlockedGoal(c)
  PROVE  LeaseInv'
<1>1. /\ workerId' = workerId /\ task' = task /\ sweep' = sweep
      /\ run \in [Coros -> Coroutine]
      /\ run[c].pc # "settleFailed"
  BY DEF LeaseInv, WorkerTypeOK, ShouldReplan, ReplanRejected, ReplanSetsPlan, ReplanFlags,
     HandleGoalFailure, AfterGetGoal, AfterVerdict, CompleteGoal, FailBlockedGoal, At
<1>2. \A d \in Coros \ {c} : run'[d] = run[d]
  BY <1>1 DEF ShouldReplan, ReplanRejected, ReplanSetsPlan, ReplanFlags,
     HandleGoalFailure, AfterGetGoal, AfterVerdict, CompleteGoal, FailBlockedGoal, Goto, End
<1>3. Kept(c)
  <2>1. CASE AfterGetGoal(c) \/ AfterVerdict(c)
    BY <1>1, <2>1 DEF AfterGetGoal, AfterVerdict, Goto, At, Kept, Finishing, Coroutine
  <2>2. CASE ShouldReplan(c) \/ ReplanRejected(c) \/ ReplanSetsPlan(c)
    <3>1. run'[c].pc \in {"goalFailed", "replan", "flagReplan"}
      BY <1>1, <2>2 DEF ShouldReplan, ReplanRejected, ReplanSetsPlan, Goto, Coroutine
    <3> QED
      BY <3>1, HoldingPC DEF Kept
  <2>3. CASE ReplanFlags(c) \/ HandleGoalFailure(c) \/ CompleteGoal(c) \/ FailBlockedGoal(c)
    <3>1. End(c)
      BY <2>3 DEF ReplanFlags, HandleGoalFailure, CompleteGoal, FailBlockedGoal
    <3>2. run'[c].pc = "idle"
      BY <1>1, <3>1 DEF End, Idle
    <3> QED
      BY <3>2, HoldingPC DEF Kept
  <2> QED
    BY <2>1, <2>2, <2>3
<1>4. \A d \in Coros : Kept(d) /\ (At(d, "settleFailed") =>
        run'[d].pc = "settleFailed" /\ run'[d].task = run[d].task)
  BY <1>1, <1>2, <1>3 DEF Kept, At
<1>5. Answered
  <2>1. goal \in GoalRow
    BY DEF LeaseInv, WorkerTypeOK, TypeOK
  <2>2. CASE CompleteGoal(c) \/ FailBlockedGoal(c)
    <3>1. run[c].task \in Rows("DONE")
      BY <2>2 DEF CompleteGoal, FailBlockedGoal, At, Finishing, LeaseInv, WorkerTypeOK,
         RowFits, Rows
    <3> QED
      BY <1>1, <2>1, <2>2, <3>1 DEF CompleteGoal, FailBlockedGoal, UpdateGoalStatus,
         Answered, GoalRow
  <2>3. CASE ReplanFlags(c) \/ HandleGoalFailure(c) \/ ReplanSetsPlan(c)
    BY <1>1, <2>1, <2>3 DEF ReplanFlags, HandleGoalFailure, ReplanSetsPlan, SetGoalPlan,
       UpdateGoalStatus, Answered, GoalRow
  <2>4. CASE ShouldReplan(c) \/ ReplanRejected(c) \/ AfterGetGoal(c) \/ AfterVerdict(c)
    BY <1>1, <2>4 DEF ShouldReplan, ReplanRejected, AfterGetGoal, AfterVerdict, Answered
  <2> QED
    BY <2>2, <2>3, <2>4
<1> QED
  BY <1>1, <1>4, <1>5, RowsAlone
\* A coroutine that holds its claim and does not give it up.
LEMMA ClaimantLeased ==
  ASSUME LeaseInv, WorkerTypeOK', NEW c \in Coros,
         Acquire(c) \/ Resolve(c) \/ ParkOnCredential(c) \/ SettleRetry(c) \/ SettleFailed(c)
  PROVE  LeaseInv'
<1> DEFINE t == run[c].task
           row == task[t]
<1>1. /\ run[c].pc \in Executing /\ run[c].pc \in Holding
      /\ UNCHANGED <<goal, Aside>>
      /\ run \in [Coros -> Coroutine]
  BY HoldingPC DEF Acquire, Resolve, ParkOnCredential, SettleRetry, SettleFailed, At,
     Executing, Aside, LeaseInv, WorkerTypeOK
<1>2. /\ t \in DOMAIN task /\ row \in TaskRow /\ row.status = "RUNNING"
      /\ row.worker = workerId /\ row.lease = "live"
      /\ task \in [DOMAIN task -> TaskRow] /\ run[c] \in Coroutine
  BY <1>1, HeldRow
<1>3. /\ "idle" \notin Executing /\ "resolve" \in Executing /\ "agent" \in Executing
      /\ "idle" \notin Finishing /\ "resolve" \notin Finishing
  BY DEF Executing, Finishing
<1>4. CASE Acquire(c)
  <2>1. run[c].pc # "settleFailed" /\ Goto(c, "resolve") /\ task' = task
    BY <1>4 DEF Acquire, At
  <2> QED
    BY <1>1, <1>2, <1>3, <2>1, HeldRow, HolderMove
<1>5. CASE Resolve(c)
  <2> DEFINE rec == [run[c] EXCEPT !.pc = "agent", !.inputs = row.deps]
  <2>1. row.deps \cap Rows("DONE") = row.deps
    BY <1>2 DEF LeaseInv, DependencyOrder, DepsDone
  <2>2. run' = [run EXCEPT ![c] = rec] /\ task' = task /\ run[c].pc = "resolve"
    BY <1>1, <1>5, <2>1 DEF Resolve, At
  <2>3. run'[c] = rec /\ rec.pc = "agent" /\ rec.task = t /\ rec.inputs = row.deps
    BY <1>1, <1>2, <2>2 DEF Coroutine
  <2>4. RowFits(c)'
    BY <1>1, <1>2, <2>2, <2>3 DEF RowFits, Finishing, Aside
  <2>5. ASSUME NEW u \in DOMAIN task
        PROVE  Budget(u)'
    <3>1. \A d \in Coros : At(d, "settleFailed") => run'[d] = run[d]
      BY <2>2 DEF At
    <3>2. Budget(u) /\ workerId' = workerId
      BY <1>1 DEF LeaseInv, Aside
    <3> QED
      BY <2>2, <3>1, <3>2 DEF Budget, Spent, At, Rows
  <2> HIDE DEF rec
  <2> QED
    BY <1>1, <1>2, <2>2, <2>3, <2>4, <2>5, HolderStep
<1>6. CASE ParkOnCredential(c)
  <2> DEFINE new == [row EXCEPT !.status = "WAITING_CREDENTIAL", !.worker = NoWorker,
                               !.lease = "none"]
  <2>1. task' = [task EXCEPT ![t] = new] /\ End(c) /\ run[c].pc # "settleFailed"
    BY <1>1, <1>2, <1>6 DEF ParkOnCredential, SetTaskWaiting, At
  <2>2. new.deps = row.deps /\ new.status # "FAILED" /\ new.failures = row.failures
    BY <1>2 DEF TaskRow
  <2> HIDE DEF new
  <2> QED
    BY <1>1, <1>2, <1>3, <2>1, <2>2, HolderMove
<1>7. CASE SettleRetry(c)
  <2> DEFINE new == [row EXCEPT !.status = "READY", !.worker = NoWorker, !.lease = "none",
                               !.limited = FALSE]
  <2>1. task' = [task EXCEPT ![t] = new] /\ End(c) /\ run[c].pc # "settleFailed"
    BY <1>1, <1>2, <1>7 DEF SettleRetry, SettleFenced, Settle, At
  <2>2. new.deps = row.deps /\ new.status # "FAILED" /\ new.failures = row.failures
    BY <1>2 DEF TaskRow
  <2> HIDE DEF new
  <2> QED
    BY <1>1, <1>2, <1>3, <2>1, <2>2, HolderMove
<1>8. CASE SettleFailed(c)
  <2> DEFINE new == [row EXCEPT !.status = "FAILED", !.worker = NoWorker, !.lease = "none",
                               !.limited = FALSE]
             rec == [run[c] EXCEPT !.pc = "shouldReplan"]
  <2>1. task' = [task EXCEPT ![t] = new] /\ run' = [run EXCEPT ![c] = rec]
        /\ run[c].pc = "settleFailed"
    BY <1>1, <1>2, <1>8 DEF SettleFailed, SettleFenced, Settle, At, Goto
  <2>2. new.deps = row.deps /\ new.status = "FAILED" /\ new.failures = row.failures
    BY <1>2 DEF TaskRow
  <2>3. rec.pc = "shouldReplan" /\ rec.task = t
    BY <1>2 DEF Coroutine
  <2> HIDE DEF new, rec
  <2>4. run'[c] = rec /\ task'[t] = new
    BY <1>1, <1>2, <2>1
  <2>5. RowFits(c)'
    BY <2>3, <2>4, HoldingPC DEF RowFits, Holding
  <2>6. ASSUME NEW u, u = t
        PROVE  Budget(u)'
    <3>1. row.failures >= MaxAttempts
      BY <2>1 DEF LeaseInv, RowFits
    <3>2. row.failures <= MaxAttempts + (workerId - 1) /\ workerId' = workerId
      BY <1>1, <1>2 DEF LeaseInv, Budget, Aside
    <3>3. u \in Rows("FAILED")'
      BY <1>2, <2>1, <2>2, <2>4, <2>6 DEF Rows
    <3> QED
      BY <2>2, <2>4, <2>6, <3>1, <3>2, <3>3 DEF Budget, Spent
  <2> QED
    BY <1>1, <1>2, <2>1, <2>2, <2>3, <2>5, <2>6, HolderStep
<1> QED
  BY <1>4, <1>5, <1>6, <1>7, <1>8

\* A coroutine whose task waits for the rate limit to pass.
LEMMA SleeperLeased ==
  ASSUME LeaseInv, WorkerTypeOK', NEW c \in Coros, WakeUp(c) \/ Requeue(c)
  PROVE  LeaseInv'
<1> DEFINE t == run[c].task
           row == task[t]
<1>1. /\ run[c].pc \in {"sleep", "requeue"} /\ run[c].pc \in Holding
      /\ UNCHANGED <<goal, Aside>>
  BY DEF WakeUp, Requeue, At, Holding, Aside
<1>2. /\ t \in DOMAIN task /\ row \in TaskRow /\ row.status = "PENDING" /\ row.limited
      /\ task \in [DOMAIN task -> TaskRow]
  BY <1>1, HeldRow DEF Executing
<1>3. {"idle", "requeue"} \cap (Executing \cup Finishing) = {}
  BY DEF Executing, Finishing
<1>4. CASE WakeUp(c)
  <2>1. Goto(c, "requeue") /\ task' = task
    BY <1>2, <1>4 DEF WakeUp, Rows
  <2> QED
    BY <1>1, <1>2, <1>3, <2>1, HeldRow, HolderMove
<1>5. CASE Requeue(c)
  <2> DEFINE new == [row EXCEPT !.status = "READY", !.worker = NoWorker, !.lease = "none",
                               !.limited = FALSE]
  <2>1. task' = [task EXCEPT ![t] = new] /\ End(c)
    BY <1>2, <1>5 DEF Requeue, Settle
  <2>2. new.deps = row.deps /\ new.status # "FAILED" /\ new.failures = row.failures
    BY <1>2 DEF TaskRow
  <2> HIDE DEF new
  <2> QED
    BY <1>1, <1>2, <1>3, <2>1, <2>2, HolderMove
<1> QED
  BY <1>4, <1>5
\* New rows are nobody's: a plan takes nothing from any coroutine.
LEMMA PlanLeased ==
  ASSUME LeaseInv, WorkerTypeOK', UNCHANGED <<goal, workerId, sweep>>,
         NEW p, IsPlan(p), CreateTasks(p),
         \A d \in Coros : run'[d].pc \notin Holding \cup Finishing \/ run'[d] = run[d],
         \A d \in Coros : At(d, "settleFailed") => run'[d] = run[d]
  PROVE  LeaseInv'
<1>1. /\ \A t \in DOMAIN task : t \in DOMAIN task' /\ task'[t] = task[t]
      /\ \A t \in DOMAIN task' \ DOMAIN task : task'[t] = NewTask(p.deps[t])
  BY DEF CreateTasks
<1>2. \A t \in DOMAIN task : RowKept(t)
  BY <1>1 DEF RowKept
<1>3. \A t \in DOMAIN task' \ DOMAIN task : Fresh(t)
  BY <1>1 DEF Fresh, NewTask
<1>4. \A d \in Coros : run[d].pc \in Holding \cup Finishing => run[d].task \in DOMAIN task
  BY HoldingPC DEF LeaseInv, WorkerTypeOK
<1>5. \A d \in Coros : Kept(d) /\ (At(d, "settleFailed") =>
        run'[d].pc = "settleFailed" /\ run'[d].task = run[d].task)
  BY <1>1, <1>4 DEF Kept, At
<1>6. Answered
  BY DEF Answered
<1> QED
  BY <1>2, <1>3, <1>5, <1>6, QuietStep

LEMMA ReplanCreatesLeased ==
  ASSUME LeaseInv, WorkerTypeOK', NEW c \in Coros, ReplanCreates(c)
  PROVE  LeaseInv'
<1>1. PICK p \in Replans :
        IF IdsClash(p)
        THEN End(c) /\ task' = task
        ELSE /\ CreateTasks(p)
             /\ run' = [run EXCEPT ![c].pc = "setPlan", ![c].terminal = p.terminal]
  BY DEF ReplanCreates
<1>2. /\ UNCHANGED <<goal, workerId, sweep>> /\ IsPlan(p)
      /\ run \in [Coros -> Coroutine] /\ run[c].pc = "replan"
  BY WorkerAssumption DEF ReplanCreates, At, LeaseInv, WorkerTypeOK
<1>3. run'[c].pc \in {"idle", "setPlan"} /\ \A d \in Coros \ {c} : run'[d] = run[d]
  <2>1. CASE IdsClash(p)
    BY <1>1, <1>2, <2>1 DEF End, Idle
  <2>2. CASE ~ IdsClash(p)
    BY <1>1, <1>2, <2>2 DEF Coroutine
  <2> QED
    BY <2>1, <2>2
<1>4. \A d \in Coros : run'[d].pc \notin Holding \cup Finishing \/ run'[d] = run[d]
  BY <1>3, HoldingPC
<1>5. \A d \in Coros : At(d, "settleFailed") => run'[d] = run[d]
  BY <1>2, <1>3 DEF At
<1>6. CASE IdsClash(p)
  <2>1. Answered /\ task' = task /\ workerId' = workerId
    BY <1>1, <1>2, <1>6 DEF Answered
  <2>2. \A d \in Coros : Kept(d) /\ (At(d, "settleFailed") =>
          run'[d].pc = "settleFailed" /\ run'[d].task = run[d].task)
    BY <1>4, <1>5, <2>1 DEF Kept, At
  <2> QED
    BY <2>1, <2>2, RowsAlone
<1>7. CASE ~ IdsClash(p)
  BY <1>1, <1>2, <1>4, <1>5, <1>7, PlanLeased
<1> QED
  BY <1>6, <1>7

\* A bulk statement changes only rows no coroutine needs.
LEMMA BulkLeased ==
  ASSUME LeaseInv, WorkerTypeOK', workerId' = workerId, Answered,
         DOMAIN task' = DOMAIN task, \A t \in DOMAIN task : RowKept(t),
         \A d \in Coros :
           \/ run'[d].pc \notin Holding \cup Finishing /\ ~ At(d, "settleFailed")
           \/ /\ run'[d].pc = run[d].pc
              /\ run'[d].task = run[d].task
              /\ run'[d].inputs = run[d].inputs,
         \A t \in DOMAIN task : task'[t] # task[t] =>
           /\ task[t].status # "DONE"
           /\ task[t].status = "RUNNING" => task[t].lease # "live"
           /\ task[t].status = "PENDING" => ~ task[t].limited
  PROVE  LeaseInv'
<1>1. ASSUME NEW d \in Coros, run[d].pc \in Holding \cup Finishing
      PROVE  task'[run[d].task] = task[run[d].task]
  <2>1. run[d].task \in DOMAIN task /\ RowFits(d)
    BY <1>1, HoldingPC DEF LeaseInv, WorkerTypeOK
  <2> QED
    BY <1>1, <2>1 DEF RowFits, Holding
<1>2. \A d \in Coros : Kept(d) /\ (At(d, "settleFailed") =>
        run'[d].pc = "settleFailed" /\ run'[d].task = run[d].task)
  BY <1>1 DEF Kept, At
<1> QED
  BY <1>2, QuietStep

LEMMA PromoteLeased ==
  ASSUME LeaseInv, WorkerTypeOK', NEW c \in Coros, AfterPromote(c)
  PROVE  LeaseInv'
<1>1. /\ workerId' = workerId /\ DOMAIN task' = DOMAIN task /\ TypeOK
      /\ run \in [Coros -> Coroutine] /\ run[c].pc = "promote"
      /\ goal' = goal /\ sweep' = sweep
      /\ Goto(c, "verdict") \/ End(c)
  BY DEF AfterPromote, PromoteReadyTasks, At, LeaseInv, WorkerTypeOK
<1>2. ASSUME NEW t \in DOMAIN task
      PROVE  \/ task'[t] = task[t]
             \/ /\ task'[t] = [task[t] EXCEPT !.status = "READY"]
                /\ task[t].status = "PENDING" /\ ~ task[t].limited /\ DepsDone(t)
  BY DEF AfterPromote, PromoteReadyTasks, Promotable, Rows
<1>3. ASSUME NEW t \in DOMAIN task
      PROVE  RowKept(t)
  <2>1. task[t] \in TaskRow
    BY <1>1 DEF TypeOK
  <2> QED
    BY <1>1, <1>2, <2>1 DEF RowKept, TaskRow
<1>4. \A d \in Coros \ {c} : run'[d] = run[d]
  BY <1>1 DEF Goto, End
<1>5. CASE End(c)
  <2>1. run'[c].pc = "idle"
    BY <1>1, <1>5 DEF End, Idle
  <2>2. Answered
    BY <1>1 DEF Answered
  <2> QED
    BY <1>1, <1>2, <1>3, <1>4, <2>1, <2>2, HoldingPC, BulkLeased DEF At
<1>6. CASE Goto(c, "verdict")
  <2>1. task[run[c].task].status = "DONE" /\ run[c].task \in DOMAIN task
    BY <1>1 DEF LeaseInv, RowFits, Finishing, WorkerTypeOK
  <2>2. task'[run[c].task] = task[run[c].task]
    BY <1>2, <2>1
  <2>3. /\ run'[c].pc = "verdict" /\ run'[c].task = run[c].task
    BY <1>1, <1>6 DEF Goto, Coroutine
  <2>4. Kept(c)
    BY <1>1, <2>2, <2>3 DEF Kept, Finishing
  <2>5. ASSUME NEW d \in Coros, d # c
        PROVE  Kept(d)
    <3>1. CASE run[d].pc \in Holding \cup Finishing
      <4>1. run[d].task \in DOMAIN task /\ RowFits(d)
        BY <3>1, HoldingPC DEF LeaseInv, WorkerTypeOK
      <4>2. task'[run[d].task] = task[run[d].task]
        BY <1>2, <3>1, <4>1 DEF RowFits, Holding
      <4> QED
        BY <1>4, <2>5, <4>2 DEF Kept
    <3>2. CASE run[d].pc \notin Holding \cup Finishing
      BY <1>4, <2>5, <3>2 DEF Kept
    <3> QED
      BY <3>1, <3>2
  <2>6. \A d \in Coros : At(d, "settleFailed") =>
          run'[d].pc = "settleFailed" /\ run'[d].task = run[d].task
    BY <1>1, <1>4 DEF At
  <2>7. Answered
    BY <1>1 DEF Answered
  <2> QED
    BY <1>1, <1>3, <2>4, <2>5, <2>6, <2>7, QuietStep
<1> QED
  BY <1>1, <1>5, <1>6

LEMMA ExecutorLeased ==
  ASSUME LeaseInv, WorkerTypeOK', NEW c \in Coros, ExecutorStep(c)
  PROVE  LeaseInv'
  BY ClaimLeased, ClaimantLeased, SleeperLeased, LaterLeased, ReplanCreatesLeased,
     PromoteLeased DEF ExecutorStep
LEMMA InitLeased ==
  ASSUME Init
  PROVE  LeaseInv
<1>1. WorkerTypeOK
  BY InitTyped
<1>2. DOMAIN task = {}
  BY DEF Init
<1>3. \A c \in Coros : run[c].pc = "idle"
  BY DEF Init, Idle
<1>4. goal.status = "NEW" /\ goal.answer = None /\ sweep.pc = "idle"
  BY DEF Init, NewGoal, NoSweep
<1>5. \A c \in Coros : RowFits(c)
  BY <1>3, HoldingPC DEF RowFits, Holding
<1>6. Apart
  BY <1>3, HoldingPC DEF Apart
<1> QED
  BY <1>1, <1>2, <1>4, <1>5, <1>6 DEF LeaseInv, DependencyOrder, AnswerIsDone

LEMMA PlannerLeased ==
  ASSUME LeaseInv, WorkerTypeOK', PlannerStep
  PROVE  LeaseInv'
<1>1. /\ UNCHANGED <<workerId, run, sweep>> /\ goal \in GoalRow
  BY DEF PlannerStep, PlannerClaim, PlannerFails, PlannerCreates, PlannerSetsPlan,
     LeaseInv, WorkerTypeOK, TypeOK
<1>2. CASE PlannerCreates
  <2>1. PICK p \in InitialPlans : CreateTasks(p)
    BY <1>2 DEF PlannerCreates
  <2>2. IsPlan(p) /\ goal' = goal
    BY <1>2, WorkerAssumption DEF PlannerCreates
  <2> QED
    BY <1>1, <2>1, <2>2, PlanLeased
<1>3. CASE PlannerClaim \/ PlannerFails \/ PlannerSetsPlan
  <2>1. task' = task
    BY <1>3 DEF PlannerClaim, PlannerFails, PlannerSetsPlan
  <2>2. Answered
    BY <1>1, <1>3 DEF PlannerClaim, PlannerFails, PlannerSetsPlan, ClaimNewGoal, SetGoalPlan,
       UpdateGoalStatus, Answered, GoalRow
  <2>3. \A d \in Coros : Kept(d) /\ (At(d, "settleFailed") =>
          run'[d].pc = "settleFailed" /\ run'[d].task = run[d].task)
    BY <1>1, <2>1 DEF Kept, At
  <2> QED
    BY <1>1, <2>1, <2>2, <2>3, RowsAlone
<1> QED
  BY <1>2, <1>3 DEF PlannerStep

LEMMA ReclaimLeased ==
  ASSUME LeaseInv, WorkerTypeOK', ReclaimStep
  PROVE  LeaseInv'
<1>1. workerId' = workerId /\ TypeOK /\ run \in [Coros -> Coroutine]
  BY DEF ReclaimStep, Reclaim, FindOrphan, CompleteOrphan, FailOrphan, LeaseInv, WorkerTypeOK
<1>2. CASE Reclaim
  <2>1. DOMAIN task' = DOMAIN task /\ Answered
    BY <1>2 DEF Reclaim, ReclaimExpiredLeases, Answered
  <2>2. ASSUME NEW t \in DOMAIN task
        PROVE  \/ task'[t] = task[t]
               \/ /\ task'[t] = [task[t] EXCEPT !.status = "READY", !.worker = NoWorker,
                                                !.lease = "none"]
                  /\ task[t].status = "RUNNING" /\ task[t].lease = "expired"
    BY <1>2 DEF Reclaim, ReclaimExpiredLeases, Expired, Rows
  <2>3. ASSUME NEW t \in DOMAIN task
        PROVE  RowKept(t)
    <3>1. task[t] \in TaskRow
      BY <1>1 DEF TypeOK
    <3> QED
      BY <2>1, <2>2, <3>1 DEF RowKept, TaskRow
  <2>4. ASSUME NEW d \in Coros
        PROVE  /\ run'[d].pc = run[d].pc
               /\ run'[d].task = run[d].task
               /\ run'[d].inputs = run[d].inputs
    <3>1. run'[d] = run[d] \/ run'[d] = [run[d] EXCEPT !.lost = TRUE]
      BY <1>2 DEF Reclaim
    <3> QED
      BY <1>1, <3>1 DEF Coroutine
  <2> QED
    BY <1>1, <2>1, <2>2, <2>3, <2>4, BulkLeased
<1>3. CASE FindOrphan \/ CompleteOrphan \/ FailOrphan
  <2>1. task' = task /\ run' = run
    BY <1>3 DEF FindOrphan, CompleteOrphan, FailOrphan
  <2>2. Answered
    <3>1. goal \in GoalRow
      BY <1>1 DEF TypeOK
    <3>2. CASE FindOrphan
      BY <3>2 DEF FindOrphan, Answered
    <3>3. CASE CompleteOrphan
      BY <3>1, <3>3 DEF CompleteOrphan, UpdateGoalStatus, NoSweep, Answered, LeaseInv, GoalRow
    <3>4. CASE FailOrphan
      BY <3>1, <3>4 DEF FailOrphan, UpdateGoalStatus, NoSweep, Answered, GoalRow
    <3> QED
      BY <1>3, <3>2, <3>3, <3>4
  <2>3. \A d \in Coros : Kept(d) /\ (At(d, "settleFailed") =>
          run'[d].pc = "settleFailed" /\ run'[d].task = run[d].task)
    BY <2>1 DEF Kept, At
  <2> QED
    BY <1>1, <2>1, <2>2, <2>3, RowsAlone
<1> QED
  BY <1>2, <1>3 DEF ReclaimStep

LEMMA WorldLeased ==
  ASSUME LeaseOverrun = FALSE, LeaseInv, WorkerTypeOK',
         (\E t \in DOMAIN task : CallWebhook(t) \/ LeaseExpires(t)) \/ GrantCredential
  PROVE  LeaseInv'
<1>1. /\ workerId' = workerId /\ run' = run /\ TypeOK /\ Answered
      /\ DOMAIN task' = DOMAIN task
  BY DEF CallWebhook, ResumeWebhookTask, LeaseExpires, GrantCredential, ResumeCredentialTasks,
     Answered, LeaseInv, WorkerTypeOK, TypeOK
<1>2. \A d \in Coros : run'[d] = run[d]
  BY <1>1
<1>3. CASE GrantCredential
  <2>1. ASSUME NEW t \in DOMAIN task
        PROVE  \/ task'[t] = task[t]
               \/ /\ task'[t] = [task[t] EXCEPT !.status = "READY"]
                  /\ task[t].status = "WAITING_CREDENTIAL"
    BY <1>3 DEF GrantCredential, ResumeCredentialTasks, Rows
  <2>2. ASSUME NEW t \in DOMAIN task
        PROVE  RowKept(t)
    <3>1. task[t] \in TaskRow
      BY <1>1 DEF TypeOK
    <3> QED
      BY <1>1, <2>1, <3>1 DEF RowKept, TaskRow
  <2> QED
    BY <1>1, <1>2, <2>1, <2>2, BulkLeased
<1>4. ASSUME NEW t \in DOMAIN task, CallWebhook(t) \/ LeaseExpires(t)
      PROVE  LeaseInv'
  <2>1. task[t] \in TaskRow /\ \A u \in DOMAIN task : u # t => task'[u] = task[u]
    BY <1>1, <1>4 DEF CallWebhook, ResumeWebhookTask, LeaseExpires, TypeOK
  <2>2. CASE CallWebhook(t)
    <3>1. /\ task'[t] = [task[t] EXCEPT !.status = "READY"]
          /\ task[t].status = "WAITING_WEBHOOK"
      BY <1>1, <2>2 DEF CallWebhook, ResumeWebhookTask, Rows, TypeOK
    <3>2. \A u \in DOMAIN task : RowKept(u)
      BY <1>1, <2>1, <3>1 DEF RowKept, TaskRow
    <3> QED
      BY <1>1, <1>2, <2>1, <3>1, <3>2, BulkLeased
  <2>3. CASE LeaseExpires(t)
    <3>1. /\ task'[t] = [task[t] EXCEPT !.lease = "expired"]
          /\ task[t].status = "RUNNING"
          /\ \A c \in Coros : ~ Executes(c, t)
      BY <1>1, <2>3 DEF LeaseExpires, Rows, TypeOK
    <3>2. \A u \in DOMAIN task : RowKept(u)
      BY <1>1, <2>1, <3>1 DEF RowKept, TaskRow
    <3>3. ASSUME NEW d \in Coros
          PROVE  Kept(d)
      <4>1. CASE run[d].pc \in Holding \cup Finishing
        <5>1. run[d].task \in DOMAIN task /\ RowFits(d)
          BY <4>1, HoldingPC DEF LeaseInv, WorkerTypeOK
        <5>2. run[d].task # t
          BY <3>1, <4>1, <5>1 DEF RowFits, Holding, Executes
        <5> QED
          BY <1>2, <2>1, <5>1, <5>2 DEF Kept
      <4>2. CASE run[d].pc \notin Holding \cup Finishing
        BY <1>2, <4>2 DEF Kept
      <4> QED
        BY <4>1, <4>2
    <3>4. \A d \in Coros : At(d, "settleFailed") =>
            run'[d].pc = "settleFailed" /\ run'[d].task = run[d].task
      BY <1>2 DEF At
    <3> QED
      BY <1>1, <3>2, <3>3, <3>4, QuietStep
  <2> QED
    BY <1>4, <2>2, <2>3
<1> QED
  BY <1>3, <1>4

\* A restart forgets every coroutine, and gives every task one more try.
LEMMA RestartLeased ==
  ASSUME LeaseInv, WorkerTypeOK', Restart
  PROVE  LeaseInv'
<1>1. /\ task' = task /\ goal' = goal /\ workerId' = workerId + 1 /\ sweep'.pc = "idle"
      /\ \A c \in Coros : run'[c].pc = "idle"
  BY DEF Restart, NoSweep, Idle
<1>2. (\A c \in Coros : RowFits(c)') /\ Apart'
  BY <1>1, HoldingPC DEF RowFits, Apart, Holding
<1>3. DependencyOrder' /\ AnswerIsDone'
  BY <1>1 DEF LeaseInv, DependencyOrder, DepsDone, AnswerIsDone, Rows
<1>4. ASSUME NEW t \in DOMAIN task'
      PROVE  Budget(t)'
  <2>1. /\ workerId \in Nat /\ MaxAttempts \in Nat /\ task[t].failures \in Nat
        /\ Budget(t)
    BY <1>1, <1>4, WorkerAssumption DEF LeaseInv, WorkerTypeOK, TypeOK, TaskRow
  <2>2. /\ task'[t].failures = task[t].failures
        /\ t \in Rows("FAILED") <=> t \in Rows("FAILED")'
    BY <1>1 DEF Rows
  <2>3. task[t].failures <= MaxAttempts + (workerId - 1)
    BY <2>1 DEF Budget
  <2>4. /\ task[t].failures < MaxAttempts + (workerId + 1 - 1)
        /\ task[t].failures <= MaxAttempts + (workerId + 1 - 1)
    BY <2>1, <2>3
  <2> QED
    BY <1>1, <2>1, <2>2, <2>4 DEF Budget
<1> QED
  BY <1>1, <1>2, <1>3, <1>4 DEF LeaseInv

LEMMA StutterLeased ==
  ASSUME LeaseInv, WorkerTypeOK', UNCHANGED vars
  PROVE  LeaseInv'
<1>1. /\ task' = task /\ workerId' = workerId /\ run' = run /\ Answered
  BY DEF vars, Answered
<1>2. \A d \in Coros : Kept(d) /\ (At(d, "settleFailed") =>
        run'[d].pc = "settleFailed" /\ run'[d].task = run[d].task)
  BY <1>1 DEF Kept, At
<1> QED
  BY <1>1, <1>2, RowsAlone

LEMMA NextLeased ==
  ASSUME LeaseOverrun = FALSE, LeaseInv, [Next]_vars
  PROVE  LeaseInv'
<1>1. WorkerTypeOK'
  BY NextTyped DEF LeaseInv
<1> QED
  BY <1>1, PlannerLeased, AgentLeased, ExecutorLeased, ReclaimLeased, WorldLeased,
     RestartLeased, StutterLeased DEF Next

-----------------------------------------------------------------------------
(* Theorems *)

\* The inductive invariant holds in every state, with any number of tasks, plans,
\* coroutines and restarts, when no run outlives its lease.
THEOREM Leased ==
  ASSUME LeaseOverrun = FALSE
  PROVE  Spec => []LeaseInv
<1>1. Init => LeaseInv
  BY InitLeased
<1>2. LeaseInv /\ [Next]_vars => LeaseInv'
  BY NextLeased
<1> QED
  BY <1>1, <1>2, PTL DEF Spec

\* While a coroutine works on a claimed task, the row is RUNNING under its worker's
\* live lease, and no other coroutine works on that task.
THEOREM LeaseTheorem ==
  ASSUME LeaseOverrun = FALSE
  PROVE  Spec => []LeaseDiscipline
<1>1. LeaseInv => LeaseDiscipline
  BY HoldingPC DEF LeaseInv, LeaseDiscipline, RowFits, Rows, Apart, Executes, WorkerTypeOK
<1> QED
  BY <1>1, Leased, PTL

\* No task is under way, done or given up ahead of a task it depends on.
THEOREM OrderTheorem ==
  ASSUME LeaseOverrun = FALSE
  PROVE  Spec => []DependencyOrder
<1>1. LeaseInv => DependencyOrder
  BY DEF LeaseInv
<1> QED
  BY <1>1, Leased, PTL

\* The agent is given the output of every task its own task depends on.
THEOREM InputsTheorem ==
  ASSUME LeaseOverrun = FALSE
  PROVE  Spec => []InputsComplete
<1>1. LeaseInv => InputsComplete
  BY DEF LeaseInv, InputsComplete, RowFits, At
<1> QED
  BY <1>1, Leased, PTL

\* A FAILED task has spent its retry budget, and no task fails more often than the
\* budget plus one failure per restart.
THEOREM RetryTheorem ==
  ASSUME LeaseOverrun = FALSE
  PROVE  Spec => []RetryBudget
<1>1. LeaseInv => RetryBudget
  BY DEF LeaseInv, RetryBudget, Budget
<1> QED
  BY <1>1, Leased, PTL

\* A COMPLETED goal has an answer, and every answer is the output of a DONE task.
THEOREM AnswerTheorem ==
  ASSUME LeaseOverrun = FALSE
  PROVE  Spec => []AnswerIsDone
<1>1. LeaseInv => AnswerIsDone
  BY DEF LeaseInv
<1> QED
  BY <1>1, Leased, PTL

-----------------------------------------------------------------------------
(* The graph *)

graphDeps == [t \in DOMAIN task |-> task[t].deps]
graphState == [t \in DOMAIN task |-> Progressed(t)]

\* What progress is made of.
LEMMA ProgressOf ==
  ASSUME TypeOK, NEW t \in DOMAIN task
  PROVE  /\ task[t].status \in {"PENDING", "READY"} <=> Progressed(t) = "todo"
         /\ task[t].status \in {"RUNNING", "WAITING_WEBHOOK", "WAITING_CREDENTIAL"}
              <=> Progressed(t) = "active"
         /\ task[t].status = "DONE" <=> Progressed(t) = "done"
         /\ task[t].status = "FAILED" <=> Progressed(t) = "dead"
<1>1. task[t].status \in TaskStatus
  BY DEF TypeOK, TaskRow
<1> QED
  BY <1>1 DEF Progressed, TaskStatus

\* No task moves; new ones are to do.
LEMMA Extends ==
  ASSUME \A t \in DOMAIN task : /\ t \in DOMAIN task'
                                /\ task'[t].deps = task[t].deps
                                /\ Progressed(t)' = Progressed(t),
         \A t \in DOMAIN task' \ DOMAIN task : Progressed(t)' = "todo"
  PROVE  Dag!DagNext
<1>1. /\ DOMAIN graphDeps = DOMAIN task /\ DOMAIN graphDeps' = DOMAIN task'
      /\ DOMAIN graphState' = DOMAIN task'
      /\ \A t \in DOMAIN task : graphDeps[t] = task[t].deps /\ graphState[t] = Progressed(t)
      /\ \A t \in DOMAIN task' : graphDeps'[t] = task'[t].deps /\ graphState'[t] = Progressed(t)'
  BY DEF graphDeps, graphState
<1>2. Dag!Extend
  BY <1>1 DEF Dag!Extend, graphDeps, graphState
<1> QED
  BY <1>2 DEF Dag!DagNext

\* Tasks under way go back to be done.
LEMMA HandsBack ==
  ASSUME DOMAIN task' = DOMAIN task, \A t \in DOMAIN task : task'[t].deps = task[t].deps,
         NEW N \in SUBSET DOMAIN task,
         \A t \in N : Progressed(t) = "active" /\ Progressed(t)' = "todo",
         \A t \in DOMAIN task \ N : Progressed(t)' = Progressed(t)
  PROVE  Dag!DagNext
<1>1. graphDeps' = graphDeps /\ DOMAIN graphState = DOMAIN task
  BY DEF graphDeps, graphState
<1>2. \A t \in N : graphState[t] = "active"
  BY DEF graphState
<1>3. graphState' = [t \in DOMAIN graphState |-> IF t \in N THEN "todo" ELSE graphState[t]]
  BY DEF graphState
<1>4. Dag!HandBack(N)
  BY <1>1, <1>2, <1>3 DEF Dag!HandBack, graphDeps, graphState
<1> QED
  BY <1>1, <1>4 DEF Dag!DagNext, graphState

\* The only row that moves is t's, and its dependencies stay.
OnlyRow(t) ==
  /\ DOMAIN task' = DOMAIN task
  /\ \A u \in DOMAIN task : u # t => task'[u] = task[u]
  /\ task'[t].deps = task[t].deps

LEMMA OneMoves ==
  ASSUME TypeOK, TypeOK', NEW t \in DOMAIN task, OnlyRow(t),
         \/ Progressed(t)' = Progressed(t)
         \/ Progressed(t) = "todo" /\ DepsDone(t) /\ Progressed(t)' = "active"
         \/ Progressed(t) = "active"
  PROVE  Dag!DagNext
<1>1. graphDeps' = graphDeps
  BY DEF OnlyRow, graphDeps
<1>2. graphState' = [graphState EXCEPT ![t] = Progressed(t)']
  <2>1. \A u \in DOMAIN task : u # t => Progressed(u)' = Progressed(u)
    BY DEF OnlyRow, Progressed
  <2> QED
    BY <2>1 DEF OnlyRow, graphState
<1>3. DOMAIN graphState = DOMAIN task /\ graphState[t] = Progressed(t)
  BY DEF graphState
<1>4. CASE Progressed(t)' = Progressed(t)
  <2>1. \A u \in DOMAIN task : Progressed(u)' = Progressed(u)
    BY <1>4 DEF OnlyRow, Progressed
  <2> QED
    BY <2>1, Extends DEF OnlyRow
<1>5. CASE Progressed(t) = "todo" /\ DepsDone(t) /\ Progressed(t)' = "active"
  <2>1. \A u \in task[t].deps : u \in DOMAIN graphState /\ graphState[u] = "done"
    BY <1>5, ProgressOf DEF DepsDone, Rows, graphState
  <2>2. Dag!Start(t)
    BY <1>1, <1>2, <1>3, <1>5, <2>1 DEF Dag!Start, graphDeps, graphState
  <2> QED
    BY <1>3, <2>2 DEF Dag!DagNext, graphState
<1>6. CASE Progressed(t) = "active" /\ Progressed(t)' = "done"
  BY <1>1, <1>2, <1>3, <1>6 DEF Dag!Finish, Dag!DagNext, graphDeps, graphState
<1>7. CASE Progressed(t) = "active" /\ Progressed(t)' = "dead"
  BY <1>1, <1>2, <1>3, <1>7 DEF Dag!GiveUp, Dag!DagNext, graphDeps, graphState
<1>8. CASE Progressed(t) = "active" /\ Progressed(t)' = "todo"
  <2>1. \A u \in DOMAIN task \ {t} : Progressed(u)' = Progressed(u)
    BY DEF OnlyRow, Progressed
  <2>2. DOMAIN task' = DOMAIN task /\ \A u \in DOMAIN task : task'[u].deps = task[u].deps
    BY DEF OnlyRow
  <2> QED
    BY <1>8, <2>1, <2>2, HandsBack
<1>9. Progressed(t)' \in {"todo", "active", "done", "dead"}
  <2>1. task'[t].status \in TaskStatus
    BY DEF OnlyRow, TypeOK, TaskRow
  <2> QED
    BY <2>1 DEF Progressed, TaskStatus
<1> QED
  BY <1>4, <1>5, <1>6, <1>7, <1>8, <1>9

\* A step that leaves the rows alone leaves the graph alone.
LEMMA NoneMoves ==
  ASSUME task' = task
  PROVE  Dag!DagNext
<1>1. \A t \in DOMAIN task : Progressed(t)' = Progressed(t)
  BY DEF Progressed
<1> QED
  BY <1>1, Extends

\* A plan's rows join the graph as nodes to do.
LEMMA PlanJoins ==
  ASSUME NEW p, CreateTasks(p)
  PROVE  Dag!DagNext
<1>1. \A t \in DOMAIN task : t \in DOMAIN task' /\ task'[t] = task[t]
  BY DEF CreateTasks
<1>2. \A t \in DOMAIN task : Progressed(t)' = Progressed(t)
  BY <1>1 DEF Progressed
<1>3. \A t \in DOMAIN task' \ DOMAIN task : Progressed(t)' = "todo"
  BY DEF CreateTasks, NewTask, Progressed
<1> QED
  BY <1>1, <1>2, <1>3, Extends

\* A coroutine between its claim and its settle works on a node under way.
LEMMA ClaimantActive ==
  ASSUME LeaseInv, NEW c \in Coros, run[c].pc \in Executing
  PROVE  /\ run[c].task \in DOMAIN task /\ Progressed(run[c].task) = "active"
         /\ task[run[c].task] \in TaskRow
<1>1. run[c].pc \in Holding /\ TypeOK
  BY HoldingPC DEF LeaseInv, WorkerTypeOK
<1> QED
  BY <1>1, HeldRow, ProgressOf

LEMMA AgentRuns ==
  ASSUME LeaseInv, WorkerTypeOK', NEW c \in Coros, AgentStep(c)
  PROVE  Dag!DagNext
<1> DEFINE t == run[c].task
<1>1. run[c].pc \in Executing
  BY DEF AgentStep, AgentReturns, AgentRaises, AgentWaitsForWebhook,
     AgentLacksCredential, AgentRateLimited, At, Executing
<1>2. /\ t \in DOMAIN task /\ Progressed(t) = "active" /\ task[t] \in TaskRow
      /\ TypeOK /\ TypeOK'
  BY <1>1, ClaimantActive DEF LeaseInv, WorkerTypeOK
<1>3. task' = task \/ OnlyRow(t)
  BY <1>2 DEF AgentStep, AgentReturns, AgentRaises, AgentWaitsForWebhook,
     AgentLacksCredential, AgentRateLimited, SettleFenced, Settle, SetTaskWaiting,
     RecordFailure, OnlyRow, TypeOK, TaskRow
<1> QED
  BY <1>2, <1>3, NoneMoves, OneMoves

LEMMA ExecutorRuns ==
  ASSUME LeaseInv, WorkerTypeOK', NEW c \in Coros, ExecutorStep(c)
  PROVE  Dag!DagNext
<1> DEFINE t == run[c].task
<1>1. TypeOK /\ TypeOK'
  BY DEF LeaseInv, WorkerTypeOK
<1>2. CASE Claim(c)
  <2>1. PICK u \in DOMAIN task : ClaimReadyTask(u, workerId)
    BY <1>2 DEF Claim
  <2>2. /\ task[u] \in TaskRow /\ task[u].status = "READY" /\ DepsDone(u)
        /\ OnlyRow(u) /\ task'[u].status = "RUNNING"
    <3>1. task[u] \in TaskRow /\ task[u].status = "READY" /\ DepsDone(u)
      BY <1>1, <2>1 DEF ClaimReadyTask, TypeOK, Rows
    <3>2. /\ DOMAIN task' = DOMAIN task
          /\ \A v \in DOMAIN task : v # u => task'[v] = task[v]
          /\ task'[u] = [task[u] EXCEPT !.status = "RUNNING", !.worker = workerId,
                                       !.lease = "live"]
      BY <1>1, <2>1 DEF ClaimReadyTask, TypeOK
    <3> QED
      BY <3>1, <3>2 DEF OnlyRow, TaskRow
  <2>3. Progressed(u) = "todo" /\ Progressed(u)' = "active"
    BY <1>1, <2>2, ProgressOf DEF Progressed
  <2> QED
    BY <1>1, <2>2, <2>3, OneMoves
<1>3. CASE ParkOnCredential(c) \/ SettleRetry(c) \/ SettleFailed(c)
  <2>1. run[c].pc \in Executing
    BY <1>3 DEF ParkOnCredential, SettleRetry, SettleFailed, At, Executing
  <2>2. t \in DOMAIN task /\ Progressed(t) = "active" /\ task[t] \in TaskRow
    BY <2>1, ClaimantActive
  <2>3. task' = task \/ OnlyRow(t)
    BY <1>1, <1>3, <2>2 DEF ParkOnCredential, SettleRetry, SettleFailed, SettleFenced, Settle,
       SetTaskWaiting, OnlyRow, TypeOK, TaskRow
  <2> QED
    BY <1>1, <2>2, <2>3, NoneMoves, OneMoves
<1>4. CASE Requeue(c)
  <2>1. run[c].pc \in Holding /\ run[c].pc \notin Executing
    BY <1>4 DEF Requeue, At, Holding, Executing
  <2>2. t \in DOMAIN task /\ task[t] \in TaskRow /\ task[t].status = "PENDING"
    BY <2>1, HeldRow
  <2>3. OnlyRow(t) /\ task'[t].status = "READY"
    BY <1>1, <1>4, <2>2 DEF Requeue, Settle, OnlyRow, TypeOK, TaskRow
  <2>4. PICK u \in DOMAIN task : u = t
    BY <2>2
  <2>5. Progressed(u) = "todo" /\ Progressed(u)' = "todo" /\ OnlyRow(u)
    BY <2>2, <2>3, <2>4 DEF Progressed
  <2> QED
    BY <1>1, <2>5, OneMoves
<1>5. CASE AfterPromote(c)
  <2>1. /\ DOMAIN task' = DOMAIN task
        /\ \A u \in DOMAIN task :
             \/ task'[u] = task[u]
             \/ /\ task'[u] = [task[u] EXCEPT !.status = "READY"]
                /\ task[u].status = "PENDING" /\ task[u] \in TaskRow
    BY <1>1, <1>5 DEF AfterPromote, PromoteReadyTasks, Promotable, Rows, TypeOK
  <2>2. ASSUME NEW u \in DOMAIN task
        PROVE  task'[u].deps = task[u].deps /\ Progressed(u)' = Progressed(u)
    BY <2>1 DEF Progressed, TaskRow
  <2> QED
    BY <2>1, <2>2, Extends
<1>6. CASE ReplanCreates(c)
  BY <1>6, NoneMoves, PlanJoins DEF ReplanCreates
<1>7. CASE \/ Acquire(c) \/ Resolve(c) \/ WakeUp(c) \/ ShouldReplan(c) \/ ReplanRejected(c)
           \/ ReplanSetsPlan(c) \/ ReplanFlags(c) \/ HandleGoalFailure(c)
           \/ AfterGetGoal(c) \/ AfterVerdict(c) \/ CompleteGoal(c) \/ FailBlockedGoal(c)
  <2>1. task' = task
    BY <1>7 DEF Acquire, Resolve, WakeUp, ShouldReplan, ReplanRejected, ReplanSetsPlan,
       ReplanFlags, HandleGoalFailure, AfterGetGoal, AfterVerdict, CompleteGoal, FailBlockedGoal
  <2> QED
    BY <2>1, NoneMoves
<1> QED
  BY <1>2, <1>3, <1>4, <1>5, <1>6, <1>7 DEF ExecutorStep

LEMMA OthersRun ==
  ASSUME LeaseInv, WorkerTypeOK',
         \/ PlannerStep \/ ReclaimStep \/ GrantCredential \/ Restart
         \/ \E t \in DOMAIN task : CallWebhook(t) \/ LeaseExpires(t)
  PROVE  Dag!DagNext
<1>1. TypeOK /\ TypeOK'
  BY DEF LeaseInv, WorkerTypeOK
<1>2. CASE PlannerCreates
  BY <1>2, PlanJoins DEF PlannerCreates
<1>3. CASE Reclaim
  <2> DEFINE N == {t \in DOMAIN task : Expired(t)}
  <2>1. /\ DOMAIN task' = DOMAIN task
        /\ \A t \in DOMAIN task : t \notin N => task'[t] = task[t]
        /\ \A t \in N : /\ task[t].status = "RUNNING" /\ task[t] \in TaskRow
                        /\ task'[t] = [task[t] EXCEPT !.status = "READY",
                                         !.worker = NoWorker, !.lease = "none"]
    BY <1>1, <1>3 DEF Reclaim, ReclaimExpiredLeases, Expired, Rows, TypeOK
  <2>2. ASSUME NEW t \in N
        PROVE  /\ task'[t].deps = task[t].deps
               /\ Progressed(t) = "active" /\ Progressed(t)' = "todo"
    <3>1. /\ task[t].status = "RUNNING" /\ task'[t].status = "READY"
          /\ task'[t].deps = task[t].deps
      BY <2>1 DEF TaskRow
    <3> QED
      BY <3>1 DEF Progressed
  <2>3. \A t \in DOMAIN task \ N : task'[t].deps = task[t].deps /\ Progressed(t)' = Progressed(t)
    BY <2>1 DEF Progressed
  <2>4. \A t \in DOMAIN task : task'[t].deps = task[t].deps
    BY <2>2, <2>3
  <2> HIDE DEF N
  <2>5. N \in SUBSET DOMAIN task
    BY DEF N
  <2> QED
    BY <2>1, <2>2, <2>3, <2>4, <2>5, HandsBack
<1>4. CASE GrantCredential
  <2> DEFINE N == Rows("WAITING_CREDENTIAL")
  <2>1. /\ DOMAIN task' = DOMAIN task
        /\ \A t \in DOMAIN task : t \notin N => task'[t] = task[t]
        /\ \A t \in N : /\ task[t].status = "WAITING_CREDENTIAL" /\ task[t] \in TaskRow
                        /\ task'[t] = [task[t] EXCEPT !.status = "READY"]
    BY <1>1, <1>4 DEF GrantCredential, ResumeCredentialTasks, Rows, TypeOK
  <2>2. ASSUME NEW t \in N
        PROVE  /\ task'[t].deps = task[t].deps
               /\ Progressed(t) = "active" /\ Progressed(t)' = "todo"
    <3>1. /\ task[t].status = "WAITING_CREDENTIAL" /\ task'[t].status = "READY"
          /\ task'[t].deps = task[t].deps
      BY <2>1 DEF TaskRow
    <3> QED
      BY <3>1 DEF Progressed
  <2>3. \A t \in DOMAIN task \ N : task'[t].deps = task[t].deps /\ Progressed(t)' = Progressed(t)
    BY <2>1 DEF Progressed
  <2>4. \A t \in DOMAIN task : task'[t].deps = task[t].deps
    BY <2>2, <2>3
  <2>5. N \in SUBSET DOMAIN task
    BY DEF Rows
  <2> HIDE DEF N
  <2> QED
    BY <2>1, <2>2, <2>3, <2>4, <2>5, HandsBack
<1>5. ASSUME NEW t \in DOMAIN task, CallWebhook(t) \/ LeaseExpires(t)
      PROVE  Dag!DagNext
  <2>1. OnlyRow(t) /\ task[t] \in TaskRow
    BY <1>1, <1>5 DEF CallWebhook, ResumeWebhookTask, LeaseExpires, OnlyRow, TypeOK, TaskRow
  <2>2. Progressed(t) = "active"
    BY <1>5 DEF CallWebhook, ResumeWebhookTask, LeaseExpires, Rows, Progressed
  <2> QED
    BY <1>1, <2>1, <2>2, OneMoves
<1>6. CASE PlannerClaim \/ PlannerFails \/ PlannerSetsPlan \/ FindOrphan \/ CompleteOrphan
           \/ FailOrphan \/ Restart
  <2>1. task' = task
    BY <1>6 DEF PlannerClaim, PlannerFails, PlannerSetsPlan, FindOrphan, CompleteOrphan,
       FailOrphan, Restart
  <2> QED
    BY <2>1, NoneMoves
<1> QED
  BY <1>2, <1>3, <1>4, <1>5, <1>6 DEF PlannerStep, ReclaimStep

\* The executor, with its leases, coroutines and restarts, implements the abstract
\* execution of the task graph.
THEOREM GraphTheorem ==
  ASSUME LeaseOverrun = FALSE
  PROVE  Spec => RunsTheGraph
<1>1. Init => Dag!DagInit
  BY DEF Init, Dag!DagInit
<1>2. LeaseInv /\ [Next]_vars => [Dag!DagNext]_(Dag!dagVars)
  <2> SUFFICES ASSUME LeaseInv, [Next]_vars
               PROVE  Dag!DagNext
    OBVIOUS
  <2>1. WorkerTypeOK'
    BY NextTyped DEF LeaseInv
  <2>2. CASE UNCHANGED vars
    BY <2>2, NoneMoves DEF vars
  <2> QED
    BY <2>1, <2>2, AgentRuns, ExecutorRuns, OthersRun DEF Next
<1> QED
  BY <1>1, <1>2, Leased, PTL DEF Spec, RunsTheGraph, Dag!DagSpec
=============================================================================
