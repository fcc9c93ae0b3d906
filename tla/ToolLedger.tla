------------------------------ MODULE ToolLedger ------------------------------
(***************************************************************************)
(* The tool calls of one task: the tool_calls table that makes a call       *)
(* happen once (_execute_tool_idempotent of backend/agent_runner.py) and    *)
(* the approvals table that makes an irreversible one wait for a person     *)
(* (backend/tools/approval.py, backend/api/approvals.py).                   *)
(*                                                                         *)
(* A task is executed by one run after another: it parks, is woken and is   *)
(* claimed again, it fails and is tried again, its process dies.  Every     *)
(* await is a step of its own, so a run that outlived its lease works       *)
(* beside the run that took its task over, and the HTTP handler that        *)
(* records a decision works beside both.                                    *)
(*                                                                         *)
(* Two different keys name a call: the ledger hashes the arguments as the   *)
(* model spelled them, the approval hashes them in canonical form.  A call  *)
(* is one spelling here, an action what several spellings of it mean.  (An  *)
(* approval is also blind to the name of the tool; two tools called with    *)
(* the same arguments are one action.)                                      *)
(***************************************************************************)
EXTENDS Naturals, Sequences, FiniteSets

CONSTANTS Calls,         \* tool, task and arguments as spelled: one idempotency key each
          Actions,       \* task and arguments in canonical form: one fingerprint each
          ActionOf,      \* what a call means
          Irreversible,  \* the actions of tools/approval.py's IRREVERSIBLE
          MaxRuns,       \* bound: claims of the task
          MaxTurns,      \* bound: tool calls of one run
          MaxCrashes,    \* bound: process deaths
          LeaseOverrun,  \* a run may outlive its lease
          Orphan,        \* "approval:orphan", the key of a goal nobody owns
          Outside,       \* any key a tool asks for: a credential, a webhook
          None           \* SQL NULL, and the absence of a run's call

ASSUME CallAssumption ==
  /\ ActionOf \in [Calls -> Actions]
  /\ Irreversible \subseteq Actions
  /\ None \notin Calls \cup {"approve", "deny"}
  /\ {None, Orphan, Outside} \cap Nat = {}
ASSUME BoundAssumption == MaxRuns \in Nat /\ MaxTurns \in Nat /\ MaxCrashes \in Nat
ASSUME SwitchAssumption == LeaseOverrun \in BOOLEAN

VARIABLES owned,      \* goals.user_id is not NULL
          task,       \* the tasks row: status, and what it waits for
          ledger,     \* tool_calls: what is recorded of each call
          asked,      \* approvals, in order of created_at
          run,        \* the coroutine of each run
          handler,    \* the request POST /api/approvals/{id} that is being served
          performed,  \* how often each call took effect in the world
          forgotten,  \* of these, how many left no SUCCESS row behind
          overran,    \* some lease ran out under a live run
          unheard,    \* some decision found no parked task, or died with the process
          crashes

\* tasks.attempt_count tells the runs apart.
Runs == 1..MaxRuns

store == <<owned, task, ledger, asked>>
ghosts == <<performed, forgotten, overran, unheard, crashes>>
vars == <<store, run, handler, ghosts>>

\* SUCCESS is split by what result_json holds.
RowState == {"none", "PENDING", "ok", "refused", "FAILED"}

\* waiting_credential: an approval's own key is its place in asked.
WaitKey == Nat \cup {None, Orphan, Outside}

Pc == {"waiting", "model", "create", "gate", "file", "refuse", "unlog", "act",
       "settle", "settleFailed", "park", "over"}

Request == [action   : Actions,
            decision : {"approve", "deny", None},
            expired  : BOOLEAN]

Idle == [pc |-> "idle", request |-> 0]

TypeOK ==
  /\ owned \in BOOLEAN
  /\ task \in [status : {"READY", "RUNNING", "WAITING", "DONE"}, key : WaitKey]
  /\ ledger \in [Calls -> RowState]
  /\ asked \in Seq(Request)
  /\ run \in [Runs -> [pc : Pc, call : Calls \cup {None}, key : WaitKey, turns : Nat]]
  /\ handler \in [pc : {"idle", "resume"}, request : Nat]
  /\ performed \in [Calls -> Nat] /\ forgotten \in [Calls -> Nat]
  /\ {overran, unheard} \subseteq BOOLEAN /\ crashes \in Nat

Init ==
  /\ owned \in BOOLEAN
  /\ task = [status |-> "READY", key |-> None]
  /\ ledger = [c \in Calls |-> "none"]
  /\ asked = <<>>
  /\ run = [r \in Runs |-> [pc |-> "waiting", call |-> None, key |-> None, turns |-> 0]]
  /\ handler = Idle
  /\ performed = [c \in Calls |-> 0] /\ forgotten = [c \in Calls |-> 0]
  /\ overran = FALSE /\ unheard = FALSE /\ crashes = 0

-----------------------------------------------------------------------------
At(r, pc) == run[r].pc = pc
Goto(r, pc) == run' = [run EXCEPT ![r].pc = pc]
GotoPark(r, key) == run' = [run EXCEPT ![r].pc = "unlog", ![r].key = key]

\* settle_tool_call: an UPDATE, which does not bring back a deleted row.
SettleCall(c, outcome) ==
  ledger' = [ledger EXCEPT ![c] = IF @ = "none" THEN "none" ELSE outcome]

Alive(r) == ~ At(r, "waiting") /\ ~ At(r, "over")

\* _find: the newest request for this action; unanswered past expires_at it
\* reads as a denial.
RequestsFor(a) == {i \in DOMAIN asked : asked[i].action = a}

Undecided(a) == {i \in RequestsFor(a) : asked[i].decision = None}

Newest(a) == CHOOSE i \in RequestsFor(a) : \A j \in RequestsFor(a) : j <= i

\* Variant with a bug: silence is consent.
DecisionOfSilence(i) ==
  IF asked[i].decision = None /\ asked[i].expired THEN "approve" ELSE asked[i].decision

DecisionOf(i) ==
  IF asked[i].decision = None /\ asked[i].expired THEN "deny" ELSE asked[i].decision

-----------------------------------------------------------------------------
(* The run *)

\* claim_ready_task
Claim(r) ==
  /\ At(r, "waiting")
  /\ \A q \in 1..(r - 1) : ~ At(q, "waiting")
  /\ task.status = "READY"
  /\ task' = [status |-> "RUNNING", key |-> None]
  /\ Goto(r, "model")
  /\ UNCHANGED <<owned, ledger, asked, handler, ghosts>>

\* get_tool_call_by_idempotency: a SUCCESS row answers in the tool's place.
CallTool(r, c) ==
  /\ At(r, "model")
  /\ run[r].turns < MaxTurns
  /\ run' = [run EXCEPT ![r].turns = @ + 1,
                        ![r].call = IF ledger[c] \in {"ok", "refused"} THEN None ELSE c,
                        ![r].pc = IF ledger[c] \in {"ok", "refused"} THEN "model" ELSE "create"]
  /\ UNCHANGED <<store, handler, ghosts>>

\* create_tool_call: INSERT OR IGNORE
CreateToolCall(r) ==
  LET c == run[r].call IN
  /\ At(r, "create")
  /\ ledger' = [ledger EXCEPT ![c] = IF @ = "none" THEN "PENDING" ELSE @]
  /\ Goto(r, "gate")
  /\ UNCHANGED <<owned, task, asked, handler, ghosts>>

\* approval.check up to its INSERT
Check(r) ==
  LET a == ActionOf[run[r].call] IN
  /\ At(r, "gate")
  /\ \/ a \notin Irreversible /\ Goto(r, "act")
     \/ a \in Irreversible /\ ~ owned /\ GotoPark(r, Orphan)
     \/ a \in Irreversible /\ owned /\ RequestsFor(a) = {} /\ Goto(r, "file")
     \/ /\ a \in Irreversible /\ owned /\ RequestsFor(a) # {}
        /\ CASE DecisionOf(Newest(a)) = "approve" -> Goto(r, "act")
             [] DecisionOf(Newest(a)) = "deny"    -> Goto(r, "refuse")
             [] OTHER                             -> GotoPark(r, Newest(a))
  /\ UNCHANGED <<store, handler, ghosts>>

\* ... its INSERT, one await after the look-up, which idx_approvals_pending
\* allows only when no request for the action is undecided.
FileRequest(r) ==
  /\ At(r, "file")
  /\ Undecided(ActionOf[run[r].call]) = {}
  /\ asked' = Append(asked, [action |-> ActionOf[run[r].call], decision |-> None, expired |-> FALSE])
  /\ GotoPark(r, Len(asked) + 1)
  /\ UNCHANGED <<owned, task, ledger, handler, ghosts>>

\* The clash raises out of the run and leaves the call PENDING.
FileClashes(r) ==
  /\ At(r, "file")
  /\ Undecided(ActionOf[run[r].call]) # {}
  /\ run' = [run EXCEPT ![r].pc = "over", ![r].call = None]
  /\ task' = IF task.status = "RUNNING" THEN [task EXCEPT !.status = "READY"] ELSE task
  /\ UNCHANGED <<owned, ledger, asked, handler, ghosts>>

\* A refusal is recorded like a result and will be replayed like one.
Refuse(r) ==
  LET c == run[r].call IN
  /\ At(r, "refuse")
  /\ SettleCall(c, "refused")
  /\ run' = [run EXCEPT ![r].pc = "model", ![r].call = None]
  /\ UNCHANGED <<owned, task, asked, handler, ghosts>>

\* Variant with a bug: the sentinel is stored as the result of the call.
StoreSentinel(r) ==
  /\ At(r, "unlog")
  /\ SettleCall(run[r].call, "ok")
  /\ Goto(r, "park")
  /\ UNCHANGED <<owned, task, asked, handler, ghosts>>

\* delete_tool_call: a call that parked has not happened.
DeleteToolCall(r) ==
  /\ At(r, "unlog")
  /\ ledger' = [ledger EXCEPT ![run[r].call] = "none"]
  /\ Goto(r, "park")
  /\ UNCHANGED <<owned, task, asked, handler, ghosts>>

\* set_task_waiting_credential, set_task_waiting_webhook: by id, whoever runs it
Park(r) ==
  /\ At(r, "park")
  /\ task' = [status |-> "WAITING", key |-> run[r].key]
  /\ run' = [run EXCEPT ![r].pc = "over", ![r].call = None]
  /\ UNCHANGED <<owned, ledger, asked, handler, ghosts>>

\* entry.fn, the tool itself (external): it takes effect and answers, ...
ToolActs(r) ==
  /\ At(r, "act")
  /\ performed' = [performed EXCEPT ![run[r].call] = @ + 1]
  /\ Goto(r, "settle")
  /\ UNCHANGED <<store, handler, forgotten, overran, unheard, crashes>>

\* ... or raises, before its effect or after it, ...
ToolRaises(r) ==
  LET c == run[r].call IN
  /\ At(r, "act")
  /\ \E n \in {0, 1} : /\ performed' = [performed EXCEPT ![c] = @ + n]
                       /\ forgotten' = [forgotten EXCEPT ![c] = @ + n]
  /\ Goto(r, "settleFailed")
  /\ UNCHANGED <<store, handler, overran, unheard, crashes>>

\* ... or declines to run until something is connected or called back.
ToolParks(r) ==
  /\ At(r, "act")
  /\ GotoPark(r, Outside)
  /\ UNCHANGED <<store, handler, ghosts>>

\* Variant with a bug: what was done is recorded as if nothing had happened.
SettleAsFailed(r) ==
  /\ At(r, "settle")
  /\ SettleCall(run[r].call, "FAILED")
  /\ run' = [run EXCEPT ![r].pc = "model", ![r].call = None]
  /\ UNCHANGED <<owned, task, asked, handler, ghosts>>

Settle(r) ==
  /\ At(r, "settle")
  /\ SettleCall(run[r].call, "ok")
  /\ run' = [run EXCEPT ![r].pc = "model", ![r].call = None]
  /\ UNCHANGED <<owned, task, asked, handler, ghosts>>

SettleRaised(r) ==
  /\ At(r, "settleFailed")
  /\ SettleCall(run[r].call, "FAILED")
  /\ run' = [run EXCEPT ![r].pc = "model", ![r].call = None]
  /\ UNCHANGED <<owned, task, asked, handler, ghosts>>

\* submit_result, or an error of the model that costs the task one try: both are
\* fenced writes, lost when the lease is.
EndRun(r) ==
  /\ At(r, "model")
  /\ Goto(r, "over")
  /\ IF task.status = "RUNNING"
     THEN \E s \in {"DONE", "READY"} : task' = [task EXCEPT !.status = s]
     ELSE task' = task
  /\ UNCHANGED <<owned, ledger, asked, handler, ghosts>>

-----------------------------------------------------------------------------
(* POST /api/approvals/{id} *)

\* approval.decide: the first decision stands, expired or not.  The owner is the
\* only user who gets this far.
Decide(i, d) ==
  /\ handler = Idle
  /\ unheard' = (unheard \/ task # [status |-> "WAITING", key |-> i])
  /\ asked' = [asked EXCEPT ![i].decision = IF @ = None THEN d ELSE @]
  /\ handler' = [pc |-> "resume", request |-> i]
  /\ UNCHANGED <<owned, task, ledger, run, performed, forgotten, overran, crashes>>

\* Variant with a bug: only an approval wakes the task.
ResumeApproved ==
  /\ handler.pc = "resume"
  /\ task' = IF /\ task = [status |-> "WAITING", key |-> handler.request]
                /\ asked[handler.request].decision = "approve"
             THEN [status |-> "READY", key |-> None] ELSE task
  /\ handler' = Idle
  /\ UNCHANGED <<owned, ledger, asked, run, ghosts>>

\* resume_credential_tasks, after either decision
Resume ==
  /\ handler.pc = "resume"
  /\ task' = IF task = [status |-> "WAITING", key |-> handler.request]
             THEN [status |-> "READY", key |-> None] ELSE task
  /\ handler' = Idle
  /\ UNCHANGED <<owned, ledger, asked, run, ghosts>>

-----------------------------------------------------------------------------
(* The world *)

\* APPROVAL_TTL passes; an older request expires no later than a younger one.
Expire(i) ==
  /\ ~ asked[i].expired
  /\ \A j \in 1..(i - 1) : asked[j].expired
  /\ asked' = [asked EXCEPT ![i].expired = TRUE]
  /\ UNCHANGED <<owned, task, ledger, run, handler, ghosts>>

\* A credential is connected, a webhook called.
Grant ==
  /\ task = [status |-> "WAITING", key |-> Outside]
  /\ task' = [status |-> "READY", key |-> None]
  /\ UNCHANGED <<owned, ledger, asked, run, handler, ghosts>>

\* reclaim_expired_leases takes the task from a run that is still going.  Bound:
\* once.
LoseLease ==
  /\ LeaseOverrun /\ ~ overran
  /\ task.status = "RUNNING"
  /\ task' = [status |-> "READY", key |-> None]
  /\ overran' = TRUE
  /\ UNCHANGED <<owned, ledger, asked, run, handler, performed, forgotten, unheard, crashes>>

\* The process dies with all its coroutines; its leases run out.
Crash ==
  /\ crashes < MaxCrashes
  /\ \E r \in Runs : Alive(r)
  /\ crashes' = crashes + 1
  /\ forgotten' = [c \in Calls |-> forgotten[c]
                     + Cardinality({r \in Runs : At(r, "settle") /\ run[r].call = c})]
  /\ run' = [r \in Runs |-> IF Alive(r) THEN [run[r] EXCEPT !.pc = "over", !.call = None] ELSE run[r]]
  /\ handler' = Idle /\ unheard' = (unheard \/ handler # Idle)
  /\ task' = IF task.status = "RUNNING" THEN [task EXCEPT !.status = "READY"] ELSE task
  /\ UNCHANGED <<owned, ledger, asked, performed, overran>>

-----------------------------------------------------------------------------
RunStep(r) ==
  \/ CreateToolCall(r) \/ Check(r) \/ FileRequest(r) \/ FileClashes(r) \/ Refuse(r)
  \/ DeleteToolCall(r) \/ Park(r) \/ Settle(r) \/ SettleRaised(r)

ToolStep(r) == ToolActs(r) \/ ToolRaises(r) \/ ToolParks(r)

Next ==
  \/ \E r \in Runs : \/ Claim(r) \/ (\E c \in Calls : CallTool(r, c))
                     \/ RunStep(r) \/ ToolStep(r) \/ EndRun(r)
  \/ \E i \in DOMAIN asked : Expire(i) \/ \E d \in {"approve", "deny"} : Decide(i, d)
  \/ Resume \/ Grant \/ LoseLease \/ Crash

Spec == Init /\ [][Next]_vars

\* The event loop runs a coroutine that can run, a request that came in is
\* served.  Nothing is asked of the user, the model, the tools and the world.
Fairness == WF_vars(Resume) /\ \A r \in Runs : WF_vars(RunStep(r))

FairSpec == Spec /\ Fairness
=============================================================================
