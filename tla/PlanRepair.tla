------------------------------ MODULE PlanRepair ------------------------------
(***************************************************************************)
(* From a model's answer to what its agents are handed: plan and run_plan of *)
(* backend/orchestrator.py, which ask for a plan, repair it, refuse it with a *)
(* complaint or store it under global ids, and resolve_inputs of              *)
(* backend/interpolation.py, which fills the references in when a task runs.  *)
(*                                                                         *)
(* The inputs of a task are its references to other tasks' outputs.  Four     *)
(* patterns read them, and they do not agree: a reference says where it is    *)
(* written, and each function takes the ones its pattern finds.  The two      *)
(* commits that store a plan, and everything between them, are Worker's.      *)
(***************************************************************************)
EXTENDS Naturals, FiniteSets

CONSTANTS Ids,          \* the planner's short task ids
          Stray,        \* an id no task has
          Goal,         \* the prefix that makes ids global
          Answers,      \* the plans the model may answer with
          MaxAttempts,
          None

Agents == {"researcher", "writer", "coder", "integrator"}
\* output_schema of agent_registry.py: its properties, and those it requires.
Properties == [researcher |-> {"summary", "key_points", "sources", "code_context"},
               writer     |-> {"text", "title"},
               coder      |-> {"code", "path", "output", "success"},
               integrator |-> {"action", "result", "url"},
               operator   |-> {"summary", "url"}]
Required == [a \in DOMAIN Properties |-> Properties[a] \ {"code_context", "url"}]

Fields == UNION {Properties[a] : a \in Agents} \cup {"whole", "other"}

\* {{id.output.field...}}.  After the field its path may go on, with a dot or an index.
\* It is a string value ("exact"); one whose braces do not close behind a path, such as
\* {{t1.output.code }} ("loose"); a value nested below _MAX_DEPTH ("deep"); or a key.
Reference ==
  {r \in [id : Ids \cup {Stray}, field : Fields, below : {"", ".", "["},
          how : {"exact", "loose", "deep", "key"}] : r.field = "whole" => r.below = ""}

TaskSchema ==
  [agent    : Agents \cup {"unknown"},
   deps     : SUBSET (Ids \cup {Stray}),
   refs     : SUBSET Reference,
   work     : {"plain", "acts", "ships"},  \* the description: a GitHub action, opens a PR
   pointers : BOOLEAN]                     \* every input only names something to fetch

PlanSchema(p) ==
  /\ p = [tasks |-> p.tasks, terminal |-> p.terminal]
  /\ DOMAIN p.tasks \in SUBSET Ids \ {{}}
  /\ p.tasks \in [DOMAIN p.tasks -> TaskSchema]
  /\ p.terminal \in Ids \cup {Stray}

\* PLAN_TOOL and the PlanSchema classes leave everything else to the model.  A goal's
\* id is a fresh UUID: no short id looks like a global one.
ASSUME PlanAssumption ==
  /\ \A p \in Answers : PlanSchema(p)
  /\ MaxAttempts \in Nat \ {0} /\ Ids # {} /\ Stray \notin Ids /\ None \notin Ids
  /\ ({Goal} \X (Ids \cup {Stray})) \cap (Ids \cup {Stray, None}) = {}

VARIABLES pc,
          attempt,
          complaint,  \* last_plan_error is set
          faults,     \* answers found fault with so far
          heard,      \* complaints in messages
          accepted,   \* the plan as it was stored, or None
          task,       \* its rows, by global id
          done,
          output,     \* the paths that lead somewhere in a result; none in a NULL one
          judged,     \* the tasks whose result _submission_problem let pass
          given       \* what resolve_inputs handed each task that ran

results == <<accepted, task, done, output, judged, given>>
vars == <<pc, attempt, complaint, faults, heard, results>>

PlanTypeOK ==
  /\ pc \in {"ask", "reply", "loop", "stored", "failed"}
  /\ attempt \in 0 .. MaxAttempts /\ complaint \in BOOLEAN
  /\ {faults, heard} \subseteq 0 .. MaxAttempts
  /\ accepted = None \/ PlanSchema(accepted)
  /\ DOMAIN task \subseteq {Goal} \X Ids
  /\ done \subseteq DOMAIN task /\ judged \subseteq done
  /\ DOMAIN output = done /\ DOMAIN given = done

Init ==
  /\ pc \in {"ask", "loop"}     \* settings.executor_mode
  /\ attempt = 0 /\ complaint = FALSE /\ faults = 0 /\ heard = 0
  /\ accepted = None /\ task = <<>> /\ done = {}
  /\ output = <<>> /\ judged = {} /\ given = <<>>

-----------------------------------------------------------------------------
\* What is made of an answer.
TasksOf(p) == DOMAIN p.tasks

\* _extract_template_deps: the beginning of a template in any value is enough.
Mentioned(refs) == {r.id : r \in {q \in refs : q.how # "key"}}

AutoFillDeps(p) ==
  [p EXCEPT !.tasks =
     [t \in TasksOf(p) |->
        [p.tasks[t] EXCEPT !.deps = @ \cup ((Mentioned(p.tasks[t].refs) \cap TasksOf(p)) \ {t})]]]

By(p, agent) == {t \in TasksOf(p) : p.tasks[t].agent = agent}
Shipping(p) == {t \in By(p, "integrator") : p.tasks[t].work = "ships"}

\* Variant with a bug: pointing at a coder is enough.
PointsAtCode(p, t) == \E r \in p.tasks[t].refs : r.how # "loose" /\ r.id \in By(p, "coder")

\* _TEMPLATE_FIELD over the inputs as JSON, keys included; a path is split at its dots.
CarriesCode(p, t) ==
  \E r \in p.tasks[t].refs :
    /\ r.how # "loose" /\ r.id \in By(p, "coder")
    /\ r.field = "whole" \/ (r.field = "code" /\ r.below # "[")

PrTaskWithoutTheCode(p) ==
  By(p, "coder") # {} /\ \E t \in Shipping(p) : ~ CarriesCode(p, t)

\* The code looks at the first shipping task of the list; a plan with two of them, the
\* second one terminal, does not end in a coder, so it makes no difference.
CoderTerminalAfterAPullRequest(p) ==
  Shipping(p) # {} /\ p.terminal \notin Shipping(p) /\ p.tasks[p.terminal].agent = "coder"

AllReferences(p, t) == p.tasks[t].agent = "writer" /\ p.tasks[t].pointers

\* _template_refs, judged on the field alone.  A reference to a stray id, or to a task
\* with no schema, is passed over.
UnknownOutputFields(p) ==
  \E t \in TasksOf(p) : \E r \in p.tasks[t].refs :
    /\ r.how \in {"exact", "deep"}
    /\ r.id \in TasksOf(p) /\ p.tasks[r.id].agent \in Agents
    /\ r.field # "whole" /\ r.field \notin Properties[p.tasks[r.id].agent]

IntegratorTerminalIsAnAction(p) ==
  \/ By(p, "coder") # {} /\ By(p, "integrator") # {}
  \/ p.terminal \in By(p, "integrator") /\ p.tasks[p.terminal].work # "plain"

RawTerminal(p) ==
  LET agent == p.tasks[p.terminal].agent
  IN  /\ Cardinality(TasksOf(p)) > 1
      /\ \/ agent = "researcher"
         \/ agent = "integrator" /\ ~ IntegratorTerminalIsAnAction(p)

\* _validate_plan raises nothing.
IsValid(p) ==
  /\ p.terminal \in TasksOf(p)
  /\ \A t \in TasksOf(p) : p.tasks[t].deps \subseteq TasksOf(p) \ {t}
  /\ \A t \in TasksOf(p) : p.tasks[t].agent \in Agents
  /\ ~ PrTaskWithoutTheCode(p)
  /\ ~ CoderTerminalAfterAPullRequest(p)
  /\ \A t \in TasksOf(p) : ~ AllReferences(p, t)
  /\ ~ UnknownOutputFields(p)
  /\ ~ RawTerminal(p)

-----------------------------------------------------------------------------
\* An attempt begins: a complaint about the last plan goes into the prompt.
Ask ==
  /\ pc = "ask" /\ attempt < MaxAttempts
  /\ pc' = "reply"
  /\ attempt' = attempt + 1
  /\ heard' = IF complaint THEN heard + 1 ELSE heard
  /\ complaint' = FALSE
  /\ UNCHANGED <<faults, results>>

GiveUp ==
  /\ pc = "ask" /\ attempt = MaxAttempts
  /\ pc' = "failed"
  /\ UNCHANGED <<attempt, complaint, faults, heard, results>>

\* Variant with a bug: only last_error is set.
ComplainOnlyToTheLog == complaint' = FALSE /\ faults' = faults + 1

Complain == complaint' = TRUE /\ faults' = faults + 1

Fault ==
  /\ pc' = "ask" /\ Complain
  /\ UNCHANGED <<attempt, heard, results>>

\* run_plan: ids become global, in the templates of every value too (TMPL).
Prefixed(t) == <<Goal, t>>

\* Variant with a bug: the references keep the planner's ids.
KeepTemplates(p, refs) == refs

RewriteTemplates(p, refs) ==
  {IF r.how \in {"exact", "deep"} /\ r.id \in TasksOf(p) THEN [r EXCEPT !.id = Prefixed(r.id)]
   ELSE r : r \in refs}

Store(p) ==
  /\ pc' = "stored"
  /\ accepted' = p
  /\ task' = [g \in {Prefixed(t) : t \in TasksOf(p)} |->
                LET t == p.tasks[g[2]]
                IN  [agent |-> t.agent, work |-> t.work,
                     deps |-> {Prefixed(d) : d \in t.deps},
                     refs |-> RewriteTemplates(p, t.refs)]]
  /\ UNCHANGED <<attempt, complaint, faults, heard, done, output, judged, given>>

\* The answer parses, as a tool call, as JSON in the text or dug out of the error of a
\* provider that could not parse it (_salvage_failed_generation).
Plan(p) ==
  LET repaired == AutoFillDeps(p)
  IN  IF IsValid(repaired) THEN Store(repaired) ELSE Fault

\* No choices, no JSON, not the schema: a ValueError like a refused plan.
Malformed == pc = "reply" /\ Fault

\* A rate limit is slept out; a call beyond rescue is tried again.
Retry ==
  /\ pc = "reply" /\ pc' = "ask"
  /\ UNCHANGED <<attempt, complaint, faults, heard, results>>

Raises ==
  /\ pc = "reply" /\ pc' = "failed"
  /\ UNCHANGED <<attempt, complaint, faults, heard, results>>

\* EXECUTOR_MODE=loop: one operator task, without inputs, and no plan up front.
RunAsLoop ==
  /\ pc = "loop" /\ pc' = "stored"
  /\ task' = [g \in {Prefixed(CHOOSE t \in Ids : TRUE)} |->
                [agent |-> "operator", work |-> "plain", deps |-> {}, refs |-> {}]]
  /\ UNCHANGED <<attempt, complaint, faults, heard, accepted, done, output, judged, given>>

-----------------------------------------------------------------------------
Path(r) == [field |-> r.field, below |-> r.below]
Whole == [field |-> "whole", below |-> ""]

\* The paths the rows follow into the output of g, and the fields these begin with.
Referred(g) ==
  LET refs == {r \in UNION {task[h].refs : h \in DOMAIN task} : r.id = g}
  IN  {Whole} \cup {Path(r) : r \in refs} \cup {[Path(r) EXCEPT !.below = ""] : r \in refs}

\* What _submission_problem makes sure of.
Assured(agent, path) == path.below = "" /\ path.field \in Required[agent] \cup {"whole"}

\* A result: JSON of any shape, or nothing, unless it was checked.  The submit_result
\* dug out of a failed call (_recover_failed_tool_call) is not.
Result(g, out, checked) ==
  /\ out \subseteq Referred(g)
  /\ \A path \in out : {Whole, [path EXCEPT !.below = ""]} \subseteq out
  /\ checked => \A path \in Referred(g) : Assured(task[g].agent, path) => path \in out

Value(g, path) == [kind |-> "value", of |-> g, path |-> path]
Empty == [kind |-> "empty", of |-> None, path |-> Whole]
Text == [kind |-> "text", of |-> None, path |-> Whole]

\* _lookup: a task without an output reads as an empty string, a path that leads nowhere
\* as the whole output.
Lookup(r) ==
  IF r.id \notin done \/ output[r.id] = {} THEN Empty
  ELSE Value(r.id, IF Path(r) \in output[r.id] THEN Path(r) ELSE Whole)

\* TEMPLATE_RE, in values, to the depth of _MAX_DEPTH; the rest stays as it is written.
Resolve(r) == IF r.how = "exact" THEN Lookup(r) ELSE Text

\* The executor runs a task whose dependencies are done (Worker says how).
RunTask(g) ==
  /\ pc = "stored" /\ g \notin done
  /\ task[g].deps \subseteq done
  /\ given' = [h \in DOMAIN given \cup {g} |->
                 IF h = g THEN {[asked |-> r, got |-> Resolve(r)] : r \in task[g].refs}
                 ELSE given[h]]
  /\ \E out \in SUBSET Referred(g), checked \in BOOLEAN :
       /\ Result(g, out, checked)
       /\ output' = [h \in DOMAIN output \cup {g} |-> IF h = g THEN out ELSE output[h]]
       /\ judged' = IF checked THEN judged \cup {g} ELSE judged
  /\ done' = done \cup {g}
  /\ UNCHANGED <<pc, attempt, complaint, faults, heard, accepted, task>>

Next ==
  \/ Ask \/ GiveUp \/ Malformed \/ Retry \/ Raises \/ RunAsLoop
  \/ pc = "reply" /\ \E p \in Answers : Plan(p)
  \/ \E g \in DOMAIN task : RunTask(g)

Spec == Init /\ [][Next]_vars

-----------------------------------------------------------------------------
\* "A reference to a field that does not exist does not fail" (_validate_plan): what a
\* task is handed for a reference to another task is what repair, validation, renaming
\* and interpolation make of it together.  Once that task's result was checked, a plain
\* reference reads as its output and nobody else's, never as an empty string: as the very
\* field if the schema requires it, and as the whole output at worst if the field is
\* optional or the path goes on below it.  Any other reference arrives as it was written.
HandedWhatWasMeant ==
  \A g \in DOMAIN given : \A x \in given[g] : \E r \in accepted.tasks[g[2]].refs :
    /\ x.asked \in {r, [r EXCEPT !.id = Prefixed(r.id)]}
    /\ r.how # "exact" => x.got = Text
    /\ r.how = "exact" /\ r.id \in TasksOf(accepted) \ {g[2]} /\ Prefixed(r.id) \in judged =>
         \/ x.got = Value(Prefixed(r.id), Path(r))
         \/ /\ ~ Assured(accepted.tasks[r.id].agent, Path(r))
            /\ x.got = Value(Prefixed(r.id), Whole)

\* A pull request opened in a plan with a coder is opened by a task that refers to what
\* a coder wrote (_pr_task_without_the_code), and every such reference that is plain,
\* ends at the code and reads a checked result has put it into the task's hands: the
\* code, or the output that contains it.
ShippedIsWritten ==
  \A g \in DOMAIN given :
    task[g].work = "ships" /\ task[g].agent = "integrator"
      /\ (\E h \in DOMAIN task : task[h].agent = "coder") =>
      LET carrying == {r \in accepted.tasks[g[2]].refs :
                         /\ r.id \in By(accepted, "coder") /\ r.how # "loose"
                         /\ r.field \in {"whole", "code"}}
      IN  /\ carrying # {}
          /\ \A r \in carrying :
               r.how = "exact" /\ r.below = "" /\ Prefixed(r.id) \in judged =>
                 \E x \in given[g] : x.got = Value(Prefixed(r.id), Path(r))

\* "A rejected plan was regenerated blind from an unchanged prompt": whenever the model
\* is asked again, it has been told what was wrong with every answer before.
ComplaintsAreHeard == pc = "reply" => heard = faults
=============================================================================
