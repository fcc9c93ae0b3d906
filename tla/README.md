# TLA+ models of Mergit

Mergit takes a goal in plain language, lets a model plan it as a graph of
tasks, and runs the tasks with agents that call tools. Everything lives in one
Python process over one SQLite file: three asyncio loops (planner, executor,
reclaim), the coroutines they spawn, an HTTP API, and a background worker that
copies proofs of finished tasks to a chain. What is hard in it is not
parallelism on data - a coroutine runs alone until its next `await` - but that
every `await` on a model, a tool or the chain is seconds long, that decisions
taken before it are acted on after it, and that the process may die in it.

This project models the parts where that order matters, checks them with TLC on
small instances and proves the main safety properties with TLAPS.

## Inventory

Paths are under `src/backend/`.

| Component | State | Operations | Interacts with | What is hard | What makes it correct |
|---|---|---|---|---|---|
| Goal and task tables (`db.py`, `state.py`) | `goals`, `tasks` rows | claim, settle, promote, reclaim, park, resume, create, set plan, find orphans | everybody | one statement is atomic, two are not | ownership of a claimed row; dependency order |
| Worker (`worker.py`) | `_worker_id`, a semaphore, coroutines in memory | plan, claim, execute, settle, retry, requeue, verdict, sweep | tables, agents, replanner, economy, self-heal | leases, restarts, stale verdicts | no task runs ahead of its inputs or twice at once; every goal gets an honest verdict |
| Replanner (`replanner.py`) | a flag in `goals.error` | decide, insert a second plan, repoint the goal | tables, orchestrator | check, long await, act | at most one replan; a recovery is not a failure |
| Planner (`orchestrator.py`) | none | ask a model, repair and validate the plan, insert it | tables | three commits per plan; model output | only executable graphs are stored |
| Proof outbox (`economy.py`, `chain_worker.py`, `db.py`) | `proofs`, `proof_outbox`, `reputation` | record, enqueue, claim, submit, confirm, fail, reclaim, requeue | worker, chain | crash between any two commits, at-least-once submission, a chain that is wiped | a proof is settled once on the chain, confirmed only if it is there, retried within a budget |
| Chain (`chain/`, `contracts/src/`) | contract storage | mint, record, verify | outbox | duplicate submissions | a task is recorded once |
| Agent loop (`agent_runner.py`, `executor.py`) | the transcript, what was learned of addresses, a per-run cap on writes | next turn, call tools, recover a malformed call, submit, forced submit, park | tables, tools, LLM | five ways to end, rejected and recovered calls, iteration limits | it ends, only with a result the guards accepted; the transcript is one a provider takes |
| Tool ledger and approvals (`agent_runner.py`, `tools/approval.py`, `api/approvals.py`) | `tool_calls`, `approvals` | replay or execute, gate, decide, expire | agent loop, API | crash between effect and record; decisions that come early, late or never | nothing irreversible without a yes; nothing completed twice; a decision frees its task |
| Self-heal (`self_heal.py`, `api/github_webhook.py`) | `heal_attempts` | file, deduplicate, count, spawn a fix, settle | worker, GitHub | look-up, await, insert; four commits per attempt | a bug is filed twice only by overlapping failures, every failure is counted, an outcome is the fix's own |
| Events and stream (`events.py`, `api/stream.py`) | queues per subscriber | subscribe, emit, drop, ping | everybody | bounded queues; a goal that ends between two reads | nobody waits for an end that was already announced |
| Sessions and sign-in (`auth/`, `api/auth.py`) | `users`, `sessions` | callback, look up or insert, load, revoke | API | two tabs at once, addresses that change hands | a session leads to the account that signed in |
| Credentials and connections (`credentials/`, `api/connections.py`) | `connections`, `installations`, a refresh lease | connect, disconnect, check, refresh, owner of a webhook | tools, worker | two calls refreshing one single-use token; a lease that runs out | who is handed a token is handed one that works |
| Repository tools (`tools/github_pr.py`, part of `github_ops.py`, the text checks) | GitHub's | branch, commit, fork, open, merge | agent loop, GitHub | any request may fail before or after its effect; a second run | one pull request, whole, or a refusal that left nothing behind |
| LLM calls (`llm.py`, `model_health.py`, `model_config.py`) | cool-downs, the configured models | try candidates in order, mark, edit | agent loop, planner | calls side by side, partial updates | nothing is given up early, no outage is forgotten, the cause is reported |
| Reputation (`economy.py`) | `reputation` | recompute with a delta cap | outbox | integer rounding | a score moves within the cap |

Left out, with the reasons in `PROJECT.json`: the other tools, redaction and
encryption, start-up migrations, the read-only API, evaluation scripts, the
frontend, deployment files.

## Plan

1. `GoalStore`, `DagExecution`, `Worker`, `WorkerProperties`: the execution of
   a goal, with restarts; its proofs. **Done.**
2. `ProofOutbox`: from a finished task to a proof on a chain, with crashes,
   late transactions and a chain that is wiped. **Done**, with the proofs below.
3. `ToolLedger`: a tool call, its record and its approval. **Done.**
4. `AgentLoop` with `Submission`: the drivers of a task. **Done.**
5. `PlanRepair`: from a model's answer to what agents are handed. **Done.**
6. `LlmCalls` with `ModelConfig`, `SelfHeal`, `Connections`, `PullRequests`,
   `SignIn` with `Viewers`. **Done.**
7. Proofs of every safety and action property the runs check. **Done**, see
   "Proofs".
8. Composition: worker with tool ledger and connections, for the parking
   protocol end to end; worker with outbox, for a proof recorded by a run whose
   result was refused. The tools of Slack, Linear and Notion, whose token is
   looked up again after the check that allowed the call.

## Modules

| Module | Models | State and actions |
|---|---|---|
| `GoalStore` | `db.py`, goals and tasks of one goal | `goal`, `task`: the rows. One operator per function of `db.py`; each is one statement and one commit, hence one atomic step |
| `Worker` | `worker.py`, `replanner.py`, the commits of `run_plan` | `workerId`, `planner`, `sweep`: the process and its singleton coroutines; `run`: the executor coroutines, each a program counter, the task it was given and what it has read. A step is what lies between two awaits that touch the store. `Restart` clears everything in memory |
| `DagExecution` | what the executor promises | `deps`, `state` of a graph that may grow |
| `WorkerProperties` | properties, fairness, refinement mapping, the inductive invariant | |
| `MCWorker` | plans and symmetry for TLC | |
| `WorkerProofs` | proofs: types; leases, order, inputs, budget, answers; refinement | |
| `ProofOutbox` | `economy.record_proof` and `backfill`, the `proofs` and `proof_outbox` statements of `db.py`, `chain_worker.py`, `ChainClient.record_proof`, `send` of both providers, `ProofOfWork.sol` | `recorder`: one coroutine per task; `submitter`: the loop, with its batch and the entry in hand; `chain`, `flight`: the contract and the transactions not yet mined, which outlive a process unless the chain is local. `Restart` may change the chain |
| `MCProofOutbox` | two tasks, a local and a public chain | |
| `BackgroundProofs` | proofs, proof outbox: types, honest ledger, budget, dead letters, lasting confirmations; self-heal: types, duplicates, counting, outcomes | |
| `ToolLedger` | `_execute_tool_idempotent` and the rest of a call in `agent_runner.py`, `tools/approval.py`, `POST /api/approvals/{id}`, the `tool_calls` and `approvals` statements | `ledger`, `asked`: the tables; `run`: the coroutine of each claim of one task; `handler`: the request that carries a decision. `unheard`, `overran`, `performed`, `forgotten` are history. A step ends at an await, so a run that outlived its lease works beside its successor |
| `ToolLedgerProperties`, `MCToolLedger` | properties; one irreversible action spelled in two ways, one other | |
| `ToolLedgerProofs` | proofs: types, approvals, replays, what is completed once | |
| `Submission` | `_submission_problem` and its guards | no state: a submitted object is what the guards say of it |
| `AgentLoop` (+ `MCAgentLoop`) | `agent_runner.run`, `executor.run_loop` | the local variables of the coroutine: turn, the response at hand, the last exchange in `messages`, errors, writes, known addresses. An action is one response or one tool call; the worker's retry makes them new |
| `AgentLoopProofs` | proofs: types, honest results, the cap, the transcript | |
| `ModelConfig`, `LlmCalls` (+ `MCLlmCalls`) | `model_config.py` with its PUT handler; `llm.acompletion` with `model_health.py` | `cache` and `file`; `cooling`, which all calls share; `call`: the coroutines, one try per step; `Tick` is time |
| `PlanRepair` (+ `MCPlanRepair`) | `orchestrator.plan`: repairs, `_validate_plan`, renaming, salvage; `interpolation.py` | the attempt, the plan at hand, the complaint fed back; a plan is agents, dependencies and references, and a reference says which task, which field, whether its path goes on and how it is written, since four patterns read it and do not agree. The submitting of a plan, the result of each task (which paths lead somewhere in it, and whether it was checked) and the filling in follow in the same behaviour |
| `LlmProofs` | proofs about `LlmCalls` (types, candidates, errors, cool-downs, the configuration) and `PlanRepair` (types, complaints, what is handed over and shipped) | |
| `SelfHeal` (+ `MCSelfHeal`) | `self_heal.trigger` and `settle_outcome`, the `heal_attempts` statements, `issues.opened` at the webhook | `goals`, `attempts`, `issues`; `triggers` and `settles`: coroutines under way. A step is what lies between two commits or awaits, and `faults` counts those that ended a coroutine instead |
| `Connections` (+ `MCConnections`) | `credentials/` (store, broker, `github_app.py`), the callback and disconnect of `api/connections.py`, the check in front of a GitHub tool | `rows` with the refresh lease, `install`, `parked`; `connecting` and `calls`: handlers and tools under way; `github`: which token pairs were issued and redeemed |
| `ConnectionsProofs` | proofs: types, leases, refresh tokens, tokens handed out | |
| `PullRequests` (+ `MCPullRequests`) | `tools/github_pr.py`; merge, close, review and fork of `tools/github_ops.py` | `repos` and `prs`: GitHub; `calls`, `merger`: the tools under way. A request to GitHub is a step, may fail before or after its effect, and people act between the awaits |
| `PullRequestsProofs` | proofs: types, one pull request, whole ones, clean refusals, reported merges | |
| `SignIn`, `Viewers` (+ `MCViewers`) | `api/auth.py`, `auth/`; `events.py`, `api/stream.py` | `users`, `sessions`, `callback` per tab; `goal`, `unsent` (stored, not emitted yet), `stream` with its bounded queue |
| `ViewersProofs` | proofs: types, owners, ends | |

Each module's `TypeOK` says which values its variables take. They are theorems;
the configurations below leave them out, to have room for what could fail.

Abstractions worth knowing. A task's inputs and outputs are the identity of the
tasks they come from. Of an error text only what is read back is kept: the
`[replanned]` flag and the rate-limit prefix. A lease is `none`, `live` or
`expired`, and time passes when `LeaseExpires` says so. An agent is the choice
between returning, raising, being rate limited, waiting for a webhook and
lacking a credential. The submitted plans are constants (`InitialPlans`,
`Replans`), any plan `_validate_plan` accepts (`IsPlan`). Not in the model: the
KeyError branch of `_execute_task` (`resolve_inputs` never raises), exceptions
raised by SQLite, other goals (no statement mixes two goals).

In `ProofOutbox` a row's timestamps are one bit, `ripe`: due if pending, old
enough to be stuck if submitting. A transaction is named by the block it is in;
`block` 0 and `tx` 0 are NULL. The result hash, gas, passports (`SubmitFails`), the
local block counter of the `proofs` table and reputation are left out. A second
`Finish` of a task is a run that outlived its lease; the case where that run
records before the other settles, and so leaves a proof of an output the task does
not have, needs both modules and is on the plan. SQLite may fail in a mark
(`MarkRaises`); the boot statements, the enqueue and the claim succeed.

Two constants are timing assumptions, not parts of the code. `LeaseOverrun`
says whether a run, counted from its claim and so with the time it waits for
the semaphore, may be longer than `lease_seconds`. `CommitWindow` says whether
the executor's poll may fall between two commits of one plan; they are
milliseconds apart and the poll is periodic, so the liveness runs leave it out
and the safety run keeps it in.

## Runs

All configurations disable the deadlock check: a goal with its verdict, a call
that has been answered and a stream that has ended leave nothing to do.

| Run | Question | Result |
|---|---|---|
| `lease` | two coroutines, two shapes of plan, a replan, a restart, no lease overrun: who holds a lease, in which order tasks run, what a retry costs, what a completed goal answers; does the table implement `DagExecution` | holds, 775,948 states |
| `live` | the same in one process, with fairness: does every goal get a verdict for good | holds, 69,510 states |
| `straggler` | lease overrun: is the old run of a task refused, as a test says | violated |
| `outbox` | two tasks, two chains, a restart, with fairness: is a confirmed proof on its chain, is a batch in hand left alone, are dead letters and confirmations final, is every queued proof settled | holds, 680,904 states |
| `tools` | three runs of a task, one lost lease, one crash, with fairness: was everything irreversible approved, was anything completed twice, is a replayed result one that happened, does a decision free the task | holds, 639,925 states |
| `agent` | a model that answers anything, both drivers, with fairness: is an accepted result honest, do writes keep to their cap, is the transcript paired, does every run end | holds, 75,172 states |
| `plans` | every answer of a small model and every result of its tasks, with fields that are missing, nested paths and templates only some functions see: do templates hand over what the plan meant, is there code in what is shipped, is a plan asked for twice with the complaint | holds, 271,136 states |
| `llm` | two calls, cool-downs, one edit of the configuration: is a candidate left untried, is the error the primary's, is the configured model the saved one, does anything but time end a cool-down | holds, 1.4 million states |
| `heal` | three goals, one bug, one fault anywhere, with fairness: when is a bug filed twice, is a recurrence counted, is an outcome the fix's own, what may leave an attempt open | holds, 457,530 states |
| `access` | one owner who connects and disconnects, two calls, a lease that runs out, a crash: whose is the lease, can an active connection be refreshed, is the token handed out one that works | holds, 3.0 million states |
| `pull_request` | two calls and a merge beside people and a failed request or a crash: is there one pull request, is it whole, did a refusal change anything, is a merge that happened reported | holds, 1.8 million states |
| `viewers` | two accounts whose addresses are swapped, two tabs, a queue of one, with fairness: does a viewer see its own goal, does it wait for an end already announced, does a stream end | holds, 760,352 states |

The violated run is a disagreement between the code and its tests, quoted in
`PROJECT.json` under "findings" and as small as it allows.

### Bounds

`Worker`. Two coroutines are enough for every race between two runs of a task or
between siblings; the plans are a chain, a branch whose terminal does not wait
for it, and a recovery of one task. `MaxAttempts` is 2, so that a retry and an
exhaustion both happen. `MaxFailures` caps `failure_count`; in `lease` it is
above what `RetryBudget` allows, so that the cap hides nothing. `MaxRestarts` is
1 in `lease`: one crash at any step. `CoroSymmetry` is used there only.

`ProofOutbox`. `MaxBoots` 2 is one crash at any step and one change of chain. Two
entries make a batch that is cut in its middle; `BatchSize` 2 is not exceeded, so
the limit itself cuts no batch. `MaxProofAttempts` 2 lets an entry fail, be retried
and die.

`ToolLedger`. Three runs: one that parks, one that is woken, and one beside it
after a lost lease or a crash. One call per run (`MaxTurns` 1) is enough for a
replay, which is between runs. `AgentLoop`. Two turns, two calls in a response,
two runs and a cap of one write: the cap binds, a response is cut in its middle
and the last turn is not the first.

`LlmCalls`. Two calls; a primary with three fallbacks, one without a key;
cool-downs of 1 and 3 ticks, so that a longer one can be overwritten by a
shorter; one edit. `PlanRepair`. Every plan of at most two tasks with at most one
dependency and one reference each, and the five attempts of the code. Among the
references are required and optional fields, a path below a field, and each way of
writing one that some function overlooks; of every result all paths the plan follows
may lead somewhere, or some, or none.

`SelfHeal`. Three goals reach the depth limit `MaxHealDepth` 1 and go past it; one
bug, one webhook delivery, one repeated end of a goal, one fault; a goal ends by its
terminal task, by a failed task, or without self-heal hearing of it. `EarlyFix` FALSE
is a timing assumption: a fix goal does not end before the row of its attempt
names it (one commit against a claim by the planner and at least one answer of the
model, even if the planning fails).

`Connections`. One owner; two calls that refresh; three token pairs, so that a
refresh is followed by another; a connection replaced once. `PullRequests`. Two
symmetric calls, five requests that between them meet every check, one mishap: a
failed request or a crash. Three pull requests, since with two the case where
people end one between a refused creation and the search for it does not happen. `Viewers`. A queue of one fills at the
second event; two events, two verdicts, one crash, two sessions.

### Fairness

asyncio runs what can run: weak fairness of the planner, the reclaim loop and
each coroutine; the semaphore is FIFO, hence strong fairness of `Acquire`. An
agent that is called again and again in the end returns or raises rather than
being rate limited or parked for ever (strong fairness of the two). The world
calls webhooks and supplies the credential, again when a task still waits.
Leases expire.

In `ProofOutbox` the coroutines run and a client that waits is answered or gives
up (`send` has a timeout), backoffs pass, and a mark that is tried again and
again succeeds in the end (strong fairness: without it SQLite fails for ever).

`ToolLedger`: each run and the handler of a decision, once begun, go on; nobody
has to decide, and no run has to be claimed. `AgentLoop`: a response and a tool
call end, which the timeouts of `llm.py` and `service_client.py` see to.
`SelfHeal`: coroutines go on and a fix goal ends, which is `GoalSettles`.
`Viewers`: the worker emits what it has stored and the generator runs (the ping
is a timeout of the queue). The other modules claim no liveness. Restarts,
crashes, failures, replans and what people do are never forced.

## What the code does that a reader may not expect

Met while modelling. Where a property had to be weakened to be true, its comment
says so; the rest is in "hazards". Paths are under `src/backend/` unless they
name a test or a document.

Execution of a goal. The sweep after a restart looks for RUNNING goals, so one
that was being planned stays PLANNING (`db.py:624`; `EXPLANATION.md` says the
work goes on). A rate-limit timer lives in memory: after a restart nobody
requeues its task (`worker.py:216`). A replan leaves the tasks behind the failed
one PENDING, and a recovered goal is failed when the last of its tasks settles
(`worker.py:274`). Two siblings that fail together both pass `should_replan`,
because the flag is written after the model's answer (`replanner.py:24`); the
second insert clashes and its coroutine ends without a verdict. A credential
granted between the look-up and the parking wakes nobody (`agent_runner.py:912`).
A plan with a cycle is accepted and never runs (`orchestrator.py:625`). COMPLETED
may be written over a FAILED verdict when two coroutines finish side by side
(`worker.py:274`), and a process that dies between settling a task FAILED and
failing its goal leaves a goal `find_orphaned_goals` does not see.

Proofs. A crash between `insert_proof` and `enqueue_proof` leaves a proof nothing
queues (`economy.py:147`). A dead letter's transaction may be mined later; a
backfill cut in its middle is not resumed; two tasks that finish together may be
given one block number.

Tool calls. The ledger's key is the arguments as spelled, the approval's the
canonical ones and blind to the tool, so two tools with equal arguments share a
yes. Two requests for one action clash on the unique index and the second raises.
An expired request is read as a refusal by whoever asks, but nothing wakes the
task that waits for it (`tools/approval.py:188`), and it is out of the list; a
late decision still frees it. A goal without an owner parks on `approval:orphan`
for ever. A decision taken before the task has parked, or by a process that dies
before it resumes the task, is not heard. An error a tool returns as a dictionary
is a SUCCESS row and is replayed. `delete_tool_call` of a straggler may remove the
row of its successor.

Agents. A `submit_result` recovered from Groq's error text is returned unchecked,
and recovered tool calls bypass the cap, the count and `known_urls`.
`_wrap_bare_payload` hides top-level fields from the guards that read them. In
loop mode a sentinel is a result like any other, so the operator never parks
(`executor.py:283`). The cap on writes starts from zero in every run.

Models and plans. A rejected PUT leaves the roles before the bad one changed in
memory. The third soft limit of the primary raises at once; when the primary is
cooling, the error reported may be a fallback's. A plan that raises "no choices"
has that text fed back as criticism. Duplicate task ids are not looked for; a
reference to the task itself or to no task becomes the empty string
(`orchestrator.py:604`); the dependencies filled in from references may close a
cycle; `_inherit_target_path` may take another coder's path.

References. The validator knows the first segment of a path and the schema of the
agent, not the result: for an optional field that is missing, or a path below a field
that leads nowhere, the whole output is handed over (`interpolation.py:74`). The
required fields are there once `_submission_problem` let the result pass; a
`submit_result` dug out of a failed call is taken unchecked (`agent_runner.py:712`),
so one of its fields may be missing, and one that is `null` reads as an empty string.
The four patterns disagree. A template whose braces do not close behind a path, as
`{{t1.output.code }}`, is made a dependency and otherwise left as text
(`orchestrator.py:346`). One that is a key of the inputs counts as carrying the code
(`orchestrator.py:508`) and is neither a dependency nor filled in. One nested more than
twelve levels deep is validated and renamed and stays text (`interpolation.py:39`).
`code.[0]` passes for the code although it may hand over one element of it. A
reference in a replan to a task of the old plan is held against nothing: neither its
field nor its being done.

Self-heal. Two failures at once file a bug twice, since nothing makes the
fingerprint unique (`self_heal.py:150`). A crash between two commits loses a
report, unlinks the fix goal or leaves an attempt without an outcome; two settles
may be applied out of order. When the service watches its own repository, the
issue it files makes a goal of depth 0, which is outside the limit the depth is
for (`self_heal.py:140`). Not every end of a goal reaches `self_heal`. When the planning of
a fix goal fails (`worker.py:75`), or the sweep ends it as an orphan (`worker.py:356`),
nobody calls `settle_outcome`, and the attempt stays without an outcome although
nothing went wrong in the service; `AttemptsSettle` excepts exactly these. Neither they
nor a verdict over blocked work (`worker.py:281`) call `trigger`, so a bug that shows
itself there is not filed, and `RecurrencesAreCounted` counts the failures that do
reach it.

Connections. The row read before the lease was won is not read again after it,
so a second caller redeems a spent refresh token and marks a good connection
`needs_reauth` (`credentials/broker.py:191`). The lease is 30 s, a request to
GitHub may take 20 s per phase. A missing refresh token is an error inside the
tool and not a wait. A disconnect leaves `user_installations`. Tasks parked on the
tokens of Slack, Linear and Notion are not resumed. `service_client.token` looks
the token up again after `credential_check` and falls back to the deployment's.

Pull requests. The guards compare the head with the base only: base `dev` and
head `main` commits on the default branch (`tools/github_pr.py:443`). A request
that fails makes the guard that made it silent. A pull request that people end
between a refused creation and `_find_open_pr` sends the second try to the fork,
as does a `_find_open_pr` that fails, and a later call then opens another on the
upstream (`tools/github_pr.py:636`). An `existing` result may lack files. Unread
reviews are no objection. A push between the checks and `pr.merge`, which names no
sha, may land unchecked (`tools/github_ops.py:1019`). A pull request merged during
the poll is an error although the tool's text says it is a success
(`tools/github_ops.py:1102`); a merge whose request failed may have happened. A
synchronous client blocks every loop of the process for as long as a request
takes.

Viewers. The blocked path emits `goal_done` with FAILED although `api/stream.py`
takes it for a completion. A client that disconnects before the generator starts
leaves its queue behind. A viewer is told the first verdict, also when another
follows. A session is looked at when a stream opens and never after. Of two first
sign-ins at once one is answered with an error. `purge_expired_sessions` and
`revoke_user_sessions` have no caller.

## Proofs

For each module one invariant is proved inductive - `Init => Inv`, one lemma per
action that the action keeps it - and the properties follow from it, the action
properties with one more lemma about what a step may do. Unless said otherwise a
theorem rests on the assumptions on the constants alone, so it holds for any
number of tasks, calls, users, tools and attempts, and with the bounds of the
configurations removed.

**Execution of a goal** (`WorkerProofs`). `Spec => []WorkerTypeOK` is what every
later step needs to read a row or a coroutine. `Spec => []LeaseInv` is proved
under `LeaseOverrun = FALSE`. None of the properties is inductive alone.
`LeaseDiscipline` needs that no two coroutines, requeue timers included, hold one
row (`Apart`), which in turn needs that a sleeping coroutine's row is PENDING with
the rate-limit mark, which `promote_ready_tasks` and `claim_ready_task` skip.
`DependencyOrder` needs that DONE stays, which needs every unfenced write to come
from the holder of the lease (`RowFits`). `RetryBudget` needs to know of a
coroutine between its last failure and the FAILED settle (`Spent`). `AnswerIsDone`
needs that a coroutine on its way to a verdict comes from a DONE task and that the
sweep read one. The assumption is used in one step, `LeaseExpires`; without it the
statement is false, as `straggler` shows. Under the same assumption `Worker`
implements `DagExecution`: each action is `Extend`, `Start`, `HandBack`, `Finish`,
`GiveUp` or a stutter, read through `Progressed`.

**Proof outbox** (`BackgroundProofs`): `OutboxInv`, and from it `OutboxTypeOK`,
`BatchIsHeld`, `LedgerHonest`, `AttemptsSpent`, `DeadStaysDead` and
`ConfirmedForGood`. `LedgerHonest` is not inductive: a mark writes what an earlier
await of the same entry found, so the invariant says that the block and the
transaction in hand are of the chain the loop talks to (`EntryFits`), that only
the entry in hand is waited for (`AwaitedFits`), and that a row which is not
confirmed names no block, so that an empty receipt cannot leave a stale one behind
(`RowsFit`). `AttemptsSpent` and the two action properties rest on `BatchIsHeld`:
a mark finds its row `submitting`.

**Self-heal** (`BackgroundProofs`): `HealInv`, and from it `HealTypeOK`,
`DuplicatesOverlap` and `OutcomeIsEarned`. A coroutine has its row to itself from
the insert until it links or abandons it (`TriggersApart`), and meanwhile the row has
no fix goal, so no verdict can be on its way to it (`SettleFits`). That is why
`abandoned` never meets an outcome. What a coroutine knew at its look-up is all
there is at its insert but for rows that came after (`TriggerFits`).
`RecurrencesAreCounted` is proved on top of it with sums of cardinalities: a step
takes a failure from the coroutines (`Unwritten`) and puts it into a row
(`PairsGrow`) or into `lost`, and no two coroutines stand for one failure.

**Tool calls** (`ToolLedgerProofs`): `GateInv`, and from it `ApprovedFirst` and
`ReplayIsTrue`, with overrun leases and crashes. A run past the gate acts on what
it read there, so the invariant says what a run may rely on at each step (`Fits`):
from the gate to the record there is a recorded yes to the action, in front of a
refusal a recorded no or a request that ran out. It keeps, because a request is
never withdrawn and its decision never revised (`RequestsStand`). `CompletedOnce`
is about runs that do not overlap, so it has an invariant of its own: while no
lease was overrun one run is under way, its row is RUNNING and its own, and what a
call did more than once was forgotten in between (`SoloInv`). Assumed of the
constants beyond what the module says: `None` is neither decision.

**Agents** (`AgentLoopProofs`): `LoopInv`, and from it `AcceptedIsHonest`,
`WriteCap` and `TranscriptPaired`. The addresses an agent may cite only ever come
from its inputs and from tools (`Honest`); a write that took effect was counted or
came by the recovered route (`Capped`); and how far the transcript may be behind
the response at hand is one rule per driver (`Behind`).

**Models and plans** (`LlmProofs`). `LlmInv`, and from it `NothingLeftUntried`,
`ErrorExplains`, `ServedIsSaved` and `OnlyTimeHeals`. A call in the middle of its
candidates is described by what is left of the list: every keyed fallback was tried,
was cooling at the start or is still in it, and the first failure remembered is the
primary's unless that was cooling (`Going`). A plan is
described, from the answer on, by what repair, validation and renaming did to it:
`PlanInv` says that the rows are the plan under global ids, every reference in a value
is a dependency (`Filled`), and every complaint is in the prompt or about to be
(`Heard`). A task ran after what it depends on and a checked result has its required
fields (`Settled`), hence what was handed out stays right as more results come in
(`MeantStays`); of a result nothing else is assumed. From it follow
`ComplaintsAreHeard`, `HandedWhatWasMeant` and `ShippedIsWritten`, for plans of any
size and results of any shape. Assumed: `MaxEdits` is a number, a role
without a superseded default has none, the marks for "no file" and "not loaded"
are apart, there is an id, and no short id looks like a global one. `Keep` stands
where a comprehension filters a list, because no prover here can expand
`SelectSeq`; that a list of models has a least cold one is a pigeonhole argument
(`LeastExists`), because induction is out of reach.

**Connections** (`ConnectionsProofs`): `ConnectionsInv`, and from it
`LeaseIsItsHolders`, `ActiveIsRefreshable` and `HandsOutLiveTokens`. The two tokens
of a pair travel through rows, callbacks and calls, so the invariant says that
there is a function from pairs to users which all of them agree with
(`Good(of)`); a step that issues a pair extends it. A token that is handed out is
unspent because the row a call read is no older than the row there is, or that one's
pair is younger (`SnapGood`), although the broker does not read it again. Assumed:
`None` is not a row.

**Pull requests** (`PullRequestsProofs`): `PrInv`, and from it `OnePr`,
`MergeIsReported`, `RefusalIsClean` and `FreshPrIsWhole`. `Written` says what a call
between two commits finds on its branch; it keeps because no other call of the
process moves in between (`Alone`) and people do not push. `CallTwice` says that a
call which is told "there is one already" will find it or find that people ended
it, and `ForkedForAReason` that a pull request comes from the fork for lack of the
right to push, for an error of GitHub or for one that was ended. The proof
attempt corrected two properties: `OnePr` did not allow for the last of these,
which three pull requests and no error are needed to see, and `FreshPrIsWhole` did
not allow for a branch that is itself a base and has something merged over it,
which no request of the configuration asks for. Assumed: what is asked for is a
`Request`.

**Viewers** (`ViewersProofs`): `ViewersInv`, and from it `WatchesItsOwn` and
`NoSilentEnd`, for any accounts, tabs, sessions, streams and queue length. A viewer
and an owner are compared by user id, so `WatchesItsOwn` needs that an id leads to
one account wherever it is kept: in a callback between its look-up and its insert
(`CallbackFits`), in a session, in the goal, and in a request between the gate and
the comparison (`Fits`). That rows only grow and never change their account
(`RowsStay`) carries it over a sign-in. `NoSilentEnd` is inductive with the types.

Only model-checked: the liveness properties (`GoalSettles`, `QueuedSettles`,
`DecidedTaskResumes`, `RunEnds`, `AttemptsSettle`, `StreamEnds`). TLAPS has no way
to liveness under fairness here.

## Not modelled

The tools of Slack, Linear and Notion, issues, comments, labels, searches and
the web: one request each, whose outcomes are the agent loop's choices. The
web3 client and the contracts other than `ProofOfWork.sol`: external I/O.
Reputation: its score is a floating-point formula, which TLC does not have.
Redaction and encryption: text and cryptography, without state. Migrations and
demo data run once before the loops. The CSRF token, the Origin check and the
list of administrators: a comparison each. The read-only API, evaluation
scripts, the frontend and the deployment files keep no state the server relies
on. One process per database is what the deployment sets up and what `Worker`
assumes.
