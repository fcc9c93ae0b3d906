------------------------------ MODULE AgentLoop ------------------------------
(***************************************************************************)
(* One task in the hands of a model: run of backend/agent_runner.py for the *)
(* specialists and run_loop of backend/executor.py for the operator.  Both   *)
(* ask the model for its next turn, execute the tool calls in it one after   *)
(* the other and end when a submission is accepted; they differ in what they *)
(* do when something is wrong.  The model may answer anything at any turn.   *)
(*                                                                         *)
(* What a tool call does to the ledger and the approvals is ToolLedger's     *)
(* matter; here it is an outcome.  The worker runs the task again after a    *)
(* failure or a wait, with the local variables of the coroutine as new.      *)
(***************************************************************************)
EXTENDS Submission

CONSTANTS WriteTools,  \* WRITE_TOOL_CALL_CAP
          Cap,         \* its limit for each
          Read,        \* any tool that leaves no mark
          MaxTurns,    \* max_iterations; loop_max_turns
          MaxCalls,    \* bound: tool calls in one response
          MaxRuns,     \* bound: runs of the task
          None

ASSUME CapAssumption == Cap \in [WriteTools -> Nat \ {0}] /\ Read \notin WriteTools
ASSUME TurnAssumption == MaxTurns \in Nat \ {0, 1} /\ MaxCalls \in Nat \ {0} /\ MaxRuns \in Nat \ {0}

VARIABLES driver,    \* "operator" runs executor.run_loop
          schema,    \* the agent's output schema
          pc,
          run,       \* tasks.attempt_count
          turn,      \* iteration, and in the forced final the attempt
          batch,     \* the response at hand: its calls, how many have an answer, whether
                     \* it was broken off, whether messages already has its exchange
          exchange,  \* the last exchange in messages: calls announced, calls answered
          errors,    \* consecutive_errors
          writes,    \* _write_calls
          known,     \* known_urls
          given,     \* urls in the task and its inputs
          real,      \* these and the ones its tools returned
          applied,   \* writes that took effect and said so, by run and tool
          loose,     \* recovered calls of this run
          result     \* what the task ends with, and by which route

vars == <<driver, schema, pc, run, turn, batch, exchange, errors, writes, known,
          given, real, applied, loose, result>>
task == <<driver, schema, run, given>>

Tools == WriteTools \cup {Read}
Runs == 1..MaxRuns
NoBatch == [size |-> 0, answered |-> 0, cut |-> FALSE, closed |-> FALSE]

TypeOK ==
  /\ driver \in {"specialist", "operator"} /\ schema \in Schemas
  /\ pc \in {"turn", "calls", "final", "done", "failed", "parked"}
  /\ run \in Runs /\ turn \in 0..(MaxTurns - 1)
  /\ batch \in [size : 0..MaxCalls, answered : 0..MaxCalls, cut : BOOLEAN, closed : BOOLEAN]
  /\ exchange \in [announced : 0..MaxCalls, answered : 0..MaxCalls]
  /\ errors \in Nat
  /\ writes \in [WriteTools -> Nat]
  /\ {known, given, real} \subseteq SUBSET Urls
  /\ applied \in [Runs -> [WriteTools -> Nat]]
  /\ loose \in Nat
  /\ result \in [route : {"checked", "recovered"}, object : Submissions] \cup {None}

Init ==
  /\ driver \in {"specialist", "operator"}
  /\ schema \in IF driver = "operator" THEN {"fields"} ELSE Schemas
  /\ pc = "turn" /\ run = 1 /\ turn = 0
  /\ batch = NoBatch /\ exchange = [announced |-> 0, answered |-> 0]
  /\ errors = 0 /\ writes = [t \in WriteTools |-> 0]
  /\ given \in SUBSET Urls /\ known = given /\ real = given
  /\ applied = [r \in Runs |-> [t \in WriteTools |-> 0]]
  /\ loose = 0 /\ result = None

-----------------------------------------------------------------------------
world == <<known, real, applied, loose, writes>>

Specialist == driver = "specialist"
Operator == driver = "operator"

\* Variant with a bug: turns are not counted.
NextTurnUncounted == pc' = "turn" /\ turn' = turn

\* The next iteration, or what follows the last.
NextTurn ==
  IF turn + 1 < MaxTurns THEN pc' = "turn" /\ turn' = turn + 1
  ELSE IF Specialist THEN pc' = "final" /\ turn' = 0
  ELSE pc' = "failed" /\ turn' = turn

End(how) == pc' = how /\ turn' = turn

Return(s, route) == End("done") /\ result' = [route |-> route, object |-> s]

\* The model's turn fails: any exception of the call, a recovered call of a tool the
\* agent may not use, the operator's deadline.  A rate limit is raised to the worker too.
TurnFails ==
  /\ pc = "turn" /\ End("failed")
  /\ UNCHANGED <<task, batch, exchange, errors, world, result>>

\* No call in the response, or one the provider could not parse: the model is told so.
NoCall ==
  /\ pc = "turn" /\ NextTurn
  /\ UNCHANGED <<task, batch, exchange, errors, world, result>>

\* A specialist's JSON in plain text is a submission by another name.
TextSubmission(s) ==
  /\ pc = "turn" /\ Specialist
  /\ IF Acceptable(s, schema, known) THEN Return(s, "checked")
     ELSE NextTurn /\ UNCHANGED result
  /\ UNCHANGED <<task, batch, exchange, errors, world>>

\* _recover_failed_tool_call: a submission dug out of the provider's error text.
RecoveredSubmission(s) ==
  /\ pc = "turn" /\ Specialist
  /\ Return(s, "recovered")
  /\ UNCHANGED <<task, batch, exchange, errors, world>>

\* What executing a tool does: it may act, and says so, fails, or asks to wait.
\* An earlier success is replayed: it answers without acting.
Reply == {"ok", "error", "parks"}

Acted(t, acts, reply, urls) ==
  /\ acts => reply # "parks"
  /\ reply = "parks" => urls = {}
  /\ real' = real \cup urls
  /\ applied' = IF acts /\ reply = "ok" /\ t \in WriteTools
                THEN [applied EXCEPT ![run][t] = @ + 1] ELSE applied

\* The rest of the recovered route: no cap, no count, no urls learned.
RecoveredCall(t, acts, reply, urls) ==
  /\ pc = "turn" /\ Specialist
  /\ Acted(t, acts, reply, urls)
  /\ loose' = loose + 1
  /\ IF reply = "parks"
     THEN End("parked") /\ UNCHANGED exchange
     ELSE NextTurn /\ exchange' = [announced |-> 1, answered |-> 1]
  /\ UNCHANGED <<task, batch, errors, writes, known, result>>

\* A response with n calls.  The operator's transcript announces them at once.
Calls(n) ==
  /\ pc = "turn"
  /\ pc' = "calls"
  /\ batch' = [size |-> n, answered |-> 0, cut |-> FALSE, closed |-> Operator]
  /\ exchange' = IF Operator THEN [announced |-> n, answered |-> 0] ELSE exchange
  /\ UNCHANGED <<task, turn, errors, world, result>>

-----------------------------------------------------------------------------
AtCall == pc = "calls" /\ ~ batch.cut /\ batch.answered < batch.size

\* The call gets an answer: kept in tool_results until the end of the turn, or, by the
\* operator, appended at once.
Answer ==
  /\ batch' = [batch EXCEPT !.answered = @ + 1]
  /\ exchange' = IF Operator THEN [exchange EXCEPT !.answered = @ + 1] ELSE exchange

\* Variant with a bug: the turn's exchange is appended after the correction.
RejectThenAppend ==
  /\ batch' = [batch EXCEPT !.cut = TRUE]
  /\ exchange' = [announced |-> 1, answered |-> 1]

\* A specialist drops the rest of the response, and the answers before this one, and
\* appends an exchange of its own (_submit_rejected).
Reject ==
  /\ batch' = [batch EXCEPT !.cut = TRUE, !.closed = TRUE]
  /\ exchange' = [announced |-> 1, answered |-> 1]

\* Arguments that are not JSON.
Unreadable ==
  /\ AtCall
  /\ IF Specialist THEN Reject ELSE Answer
  /\ UNCHANGED <<task, pc, turn, errors, world, result>>

\* submit_result, or the operator's finish.
Submit(s) ==
  /\ AtCall
  /\ IF Acceptable(s, schema, known)
     THEN Return(s, "checked") /\ UNCHANGED <<batch, exchange>>
     ELSE /\ IF Specialist THEN Reject ELSE Answer
          /\ UNCHANGED <<pc, turn, result>>
  /\ UNCHANGED <<task, errors, world>>

\* A tool that is not in allowed_tools, or not in the registry; the operator's
\* update_plan is answered without leaving a trace either.
NotExecuted ==
  /\ AtCall /\ Answer
  /\ errors' = IF Specialist THEN errors + 1 ELSE errors
  /\ UNCHANGED <<task, pc, turn, world, result>>

\* Variant with a bug: one call too many.
OverCapByOne(t) == t \in WriteTools /\ writes[t] > Cap[t]

\* _over_write_cap
OverCap(t) == t \in WriteTools /\ writes[t] >= Cap[t]

\* "Checked BEFORE dispatch": the call is refused, which is not an error of the agent.
Refused(t) ==
  /\ AtCall /\ OverCap(t) /\ Answer
  /\ UNCHANGED <<task, pc, turn, errors, world, result>>

\* _execute_tool_idempotent.  A reply without an error counts, whatever it says.
Execute(t, acts, reply, urls) ==
  /\ AtCall /\ ~ OverCap(t)
  /\ Acted(t, acts, reply, urls)
  /\ writes' = IF t \in WriteTools /\ reply # "error" THEN [writes EXCEPT ![t] = @ + 1]
               ELSE writes
  /\ IF Specialist /\ reply = "parks"
     THEN End("parked") /\ UNCHANGED <<batch, exchange, errors, known>>
     ELSE /\ Answer
          /\ known' = known \cup urls
          /\ errors' = IF Operator THEN errors ELSE IF reply = "ok" THEN 0 ELSE errors + 1
          /\ UNCHANGED <<pc, turn>>
  /\ UNCHANGED <<task, loose, result>>

\* All calls handled.  Three errors in a row earn the model a warning.
EndTurn ==
  /\ pc = "calls" /\ (batch.cut \/ batch.answered = batch.size)
  /\ exchange' = IF batch.closed THEN exchange
                 ELSE [announced |-> batch.size, answered |-> batch.answered]
  /\ batch' = NoBatch
  /\ errors' = IF errors >= 3 THEN 0 ELSE errors
  /\ NextTurn
  /\ UNCHANGED <<task, world, result>>

-----------------------------------------------------------------------------
\* Variant with a bug: out of turns, anything goes.
FinalUnchecked(s) ==
  /\ pc = "final" /\ Return(s, "checked")
  /\ UNCHANGED <<task, batch, exchange, errors, world>>

\* The forced final: two attempts at a submission that answers to the same rules.
FinalSubmission(s) ==
  /\ pc = "final"
  /\ IF Acceptable(s, schema, known) THEN Return(s, "checked")
     ELSE /\ IF turn = 0 THEN pc' = "final" /\ turn' = 1 ELSE End("failed")
          /\ UNCHANGED result
  /\ UNCHANGED <<task, batch, exchange, errors, world>>

\* Unreadable arguments use up an attempt as well.
FinalUnreadable ==
  /\ pc = "final"
  /\ IF turn = 0 THEN pc' = "final" /\ turn' = 1 ELSE End("failed")
  /\ UNCHANGED <<task, batch, exchange, errors, world, result>>

\* Nothing submitted, or an exception.
FinalFails ==
  /\ pc = "final" /\ End("failed")
  /\ UNCHANGED <<task, batch, exchange, errors, world, result>>

\* The worker takes up the task once more; what it is given has not changed, the
\* counters and the urls of the run before are gone.
Again ==
  /\ pc \in {"failed", "parked"} /\ run < MaxRuns
  /\ run' = run + 1
  /\ pc' = "turn" /\ turn' = 0
  /\ batch' = NoBatch /\ exchange' = [announced |-> 0, answered |-> 0]
  /\ errors' = 0 /\ writes' = [t \in WriteTools |-> 0]
  /\ known' = given /\ real' = given
  /\ loose' = 0
  /\ UNCHANGED <<driver, schema, given, applied, result>>

-----------------------------------------------------------------------------
Decide ==
  \/ TurnFails \/ NoCall
  \/ \E s \in Submissions : TextSubmission(s) \/ RecoveredSubmission(s)
  \/ \E n \in 1..MaxCalls : Calls(n)

HandleCall ==
  \/ Unreadable \/ NotExecuted
  \/ \E s \in Submissions : Submit(s)
  \/ \E t \in Tools : Refused(t)
  \/ \E t \in Tools, acts \in BOOLEAN, reply \in Reply, urls \in SUBSET Urls :
       Execute(t, acts, reply, urls)

Recovered ==
  \E t \in Tools, acts \in BOOLEAN, reply \in Reply, urls \in SUBSET Urls :
    RecoveredCall(t, acts, reply, urls)

Final ==
  \/ FinalUnreadable \/ FinalFails
  \/ \E s \in Submissions : FinalSubmission(s)

Step == Decide \/ Recovered \/ HandleCall \/ EndTurn \/ Final

Next == Step \/ Again

Spec == Init /\ [][Next]_vars

\* The coroutine is scheduled again and again while the process lives; every await in
\* it returns or raises (llm.py and service_client.py set timeouts).
FairSpec == Spec /\ WF_vars(Step)

-----------------------------------------------------------------------------
Accepted == result # None /\ result.route = "checked"

\* "Every route now funnels through here" (_submission_problem): however a run ends
\* with a checked result, every address in it was given to the task or returned by one
\* of its tools, a claimed artifact has an address, no tool failure is handed on, and
\* the agent neither admits failure nor misleads, unless its payload had to be wrapped.
AcceptedIsHonest ==
  Accepted =>
    LET s == result.object
    IN  /\ s.urls \subseteq real
        /\ ~ ClaimedWithoutArtifact(s) /\ ~ CarriesToolFailure(s)
        /\ IsWrapped(s, schema) \/ (s.keys = "full" /\ ~ s.admits /\ ~ Misleads(s))

\* "How many times one task may call a tool that leaves a durable, public mark": in one
\* run, over all its turns and whatever else is in the responses, the writes that took
\* effect stay within the cap, save the calls recovered from an error text.
WriteCap == \A t \in WriteTools : applied[run][t] <= Cap[t] + loose

\* The provider refuses a transcript in which a call has no answer or an answer no
\* call: when the model is asked for its next turn, the last exchange is complete.
TranscriptPaired ==
  pc \in {"turn", "final"} => exchange.announced = exchange.answered

\* "An agent with nothing left to do will fill the space": every run ends, whatever the
\* model answers.
RunEnds == \A r \in Runs : (run = r) ~> (run > r \/ pc \in {"done", "failed", "parked"})
=============================================================================
