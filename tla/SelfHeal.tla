------------------------------ MODULE SelfHeal ------------------------------
(***************************************************************************)
(* self_heal.py: a goal that fails on a bug of the service's own has the   *)
(* bug recorded, filed as a GitHub issue and given to a goal that fixes    *)
(* it.  trigger and settle_outcome are background tasks of the worker; a   *)
(* step here ends at an await, and PyGithub blocks the loop, so nothing    *)
(* runs between the look-up and the issue.  The repository the issues are  *)
(* filed on may have api/github_webhook.py as its receiver.                *)
(***************************************************************************)
EXTENDS Integers, Sequences, FiniteSets, FiniteSetsExt

CONSTANTS Bugs,          \* fingerprints: an agent and an error without its noise
          External,      \* any error error_classifier does not call a bug
          MaxHealDepth,  \* MAX_HEAL_DEPTH
          EarlyFix,      \* may a fix goal end before its id is written down?
          MaxGoals, MaxAgain, MaxDeliveries, MaxFaults  \* bounds

ASSUME HealAssumption ==
  /\ External \notin Bugs
  /\ EarlyFix \in BOOLEAN
  /\ MaxHealDepth \in Nat \ {0}
  /\ {MaxGoals, MaxAgain, MaxDeliveries, MaxFaults} \subseteq Nat

VARIABLES goals,     \* the goals table, in order of creation
          attempts,  \* the heal_attempts table
          issues,    \* on GitHub: how often each was delivered to the webhook
          triggers,  \* coroutines of trigger
          settles,   \* coroutines of settle_outcome
          reports,   \* bug -> failures of goals that may be healed
          lost,      \* bug -> those of them an error or a crash swallowed
          faults     \* errors and crashes so far

tasks == <<triggers, settles>>
tables == <<goals, attempts>>
history == <<reports, lost, faults>>
healVars == <<goals, attempts, issues, triggers, settles, reports, lost, faults>>

\* issue: the one the webhook made the goal for, or 0.  was: every status it ended with.
\* told: settle_outcome was told of one of its ends.
Goal == [depth : Nat, issue : Nat, ends : Nat, was : SUBSET {"COMPLETED", "FAILED"},
         told : BOOLEAN]

\* fix and issue are 0 while NULL.  known: how many rows there were at the look-up.
Attempt == [bug : Bugs, goal : Nat, status : {"filed", "simulated"}, issue : Nat,
            fix : Nat, outcome : {"none", "fixed", "failed", "abandoned"},
            count : Nat, known : Nat]

\* A failure is the end-th end of a goal.
Trigger == [goal : Nat, end : Nat, bug : Bugs,
            pc : {"depth", "look", "bump", "record", "number", "spawn", "link", "abandon"},
            status : {"filed", "simulated"}, issue : Nat, attempt : Nat, fix : Nat,
            known : Nat]

Settle == [goal : Nat, end : Nat, status : {"COMPLETED", "FAILED"}, attempt : Nat]

HealTypeOK ==
  /\ goals \in Seq(Goal)
  /\ attempts \in Seq(Attempt)
  /\ issues \in Seq(0 .. MaxDeliveries)
  /\ triggers \subseteq Trigger
  /\ settles \subseteq Settle
  /\ reports \in [Bugs -> Nat] /\ lost \in [Bugs -> Nat]
  /\ faults \in 0 .. MaxFaults

NewGoal(depth, issue) ==
  [depth |-> depth, issue |-> issue, ends |-> 0, was |-> {}, told |-> FALSE]

HealInit ==
  /\ goals = <<NewGoal(0, 0)>>
  /\ attempts = <<>> /\ issues = <<>>
  /\ triggers = {} /\ settles = {}
  /\ reports = [b \in Bugs |-> 0] /\ lost = [b \in Bugs |-> 0]
  /\ faults = 0

-----------------------------------------------------------------------------
(* Goals: created by a user or the webhook, ended by the worker *)

Create(goal) == goals' = Append(goals, goal)

MayBeHealed(g) == goals[g].depth < MaxHealDepth

\* The bound on goals: one is kept for every fix still to be spawned.
Room == Len(goals) + Cardinality({t \in triggers : MayBeHealed(t.goal) /\ t.fix = 0}) < MaxGoals

UserGoal ==
  /\ Room
  /\ Create(NewGoal(0, 0))
  /\ UNCHANGED <<attempts, issues, tasks, history>>

\* issues.opened, and GitHub delivers again what was not answered in time.
IssueOpened(i) ==
  /\ i \in DOMAIN issues
  /\ issues[i] < MaxDeliveries /\ Room
  /\ Create(NewGoal(0, i))
  /\ issues' = [issues EXCEPT ![i] = @ + 1]
  /\ UNCHANGED <<attempts, tasks, history>>

\* The bound on ends: how often a goal ended that had ended.
EndedAgain == MapThenSumSet(LAMBDA g : goals[g].ends - 1,
                            {g \in DOMAIN goals : goals[g].ends > 0})

\* Several tasks of a goal may end it, and it may complete after it failed.
Ended(g, status, told) ==
  /\ g \in DOMAIN goals
  /\ goals[g].ends = 0 \/ EndedAgain < MaxAgain
  /\ EarlyFix \/ \A t \in triggers : t.pc = "link" => t.fix # g
  /\ goals' = [goals EXCEPT ![g].ends = @ + 1, ![g].was = @ \cup {status},
                            ![g].told = @ \/ told]
  /\ settles' = IF told THEN settles \cup {[goal |-> g, end |-> goals[g].ends + 1,
                                            status |-> status, attempt |-> 0]}
                ELSE settles

\* The terminal task is done (_after_task_done).  FAILED over work that is blocked: no
\* trigger, whatever it was that failed.
Finishes(g, status) ==
  /\ Ended(g, status, TRUE)
  /\ UNCHANGED <<attempts, issues, triggers, history>>

\* The planning fails (_plan_goal), or the sweep finds that nothing is left to run
\* (_reclaim_orphaned_goals): self_heal hears nothing of it.
EndsUnheard(g, status) ==
  /\ Ended(g, status, FALSE)
  /\ UNCHANGED <<attempts, issues, triggers, history>>

IsBug(error) == error \in Bugs

\* A task fails (_handle_goal_failure).
Fails(g, error) ==
  /\ Ended(g, "FAILED", TRUE)
  /\ IF IsBug(error)
     THEN /\ MayBeHealed(g) => Room
          /\ triggers' = triggers \cup
               {[goal |-> g, end |-> goals[g].ends + 1, bug |-> error, pc |-> "depth",
                 status |-> "simulated", issue |-> 0, attempt |-> 0, fix |-> 0, known |-> 0]}
          /\ reports' = [reports EXCEPT ![error] = @ + (IF MayBeHealed(g) THEN 1 ELSE 0)]
     ELSE UNCHANGED <<triggers, reports>>
  /\ UNCHANGED <<attempts, issues, lost, faults>>

-----------------------------------------------------------------------------
(* trigger *)

Goto(t, u) == triggers' = (triggers \ {t}) \cup {u}

Ends(t) == triggers' = triggers \ {t}

CheckDepth(t) ==
  /\ t.pc = "depth"
  /\ IF MayBeHealed(t.goal) THEN Goto(t, [t EXCEPT !.pc = "look"]) ELSE Ends(t)
  /\ UNCHANGED <<tables, issues, settles, history>>

\* Mutant: an attempt that came to something no longer counts as known.
LiveUnlessOver(bug) == {a \in DOMAIN attempts : /\ attempts[a].bug = bug
                                                /\ attempts[a].outcome = "none"}

Live(bug) == {a \in DOMAIN attempts : /\ attempts[a].bug = bug
                                      /\ attempts[a].status \in {"filed", "simulated"}}

FindDuplicate(t) ==
  /\ t.pc = "look"
  /\ Live(t.bug) # {}
  /\ Goto(t, [t EXCEPT !.pc = "bump", !.attempt = Max(Live(t.bug))])
  /\ UNCHANGED <<tables, issues, settles, history>>

\* No token, no answer or an error leaves the attempt simulated, the issue filed or not.
FileIssue(t) ==
  /\ t.pc = "look"
  /\ Live(t.bug) = {}
  /\ LET next == [t EXCEPT !.pc = "record", !.known = Len(attempts)] IN
     \/ /\ issues' = Append(issues, 0)
        /\ \/ Goto(t, [next EXCEPT !.status = "filed", !.issue = Len(issues) + 1])
           \/ Goto(t, next)
     \/ Goto(t, next) /\ UNCHANGED issues
  /\ UNCHANGED <<tables, settles, history>>

\* Mutant: the count read with the row is written back.
BumpWhatWasRead(t) ==
  /\ t.pc = "bump"
  /\ attempts' = [attempts EXCEPT ![t.attempt].count = 2]
  /\ Ends(t)
  /\ UNCHANGED <<goals, issues, settles, history>>

BumpRecurrence(t) ==
  /\ t.pc = "bump"
  /\ attempts' = [attempts EXCEPT ![t.attempt].count = @ + 1]
  /\ Ends(t)
  /\ UNCHANGED <<goals, issues, settles, history>>

RecordAttempt(t) ==
  /\ t.pc = "record"
  /\ attempts' = Append(attempts,
       [bug |-> t.bug, goal |-> t.goal, status |-> t.status, issue |-> 0, fix |-> 0,
        outcome |-> "none", count |-> 1, known |-> t.known])
  /\ Goto(t, [t EXCEPT !.pc = IF t.issue = 0 THEN "spawn" ELSE "number",
                       !.attempt = Len(attempts) + 1])
  /\ UNCHANGED <<goals, issues, settles, history>>

WriteNumber(t) ==
  /\ t.pc = "number"
  /\ attempts' = [attempts EXCEPT ![t.attempt].issue = t.issue]
  /\ Goto(t, [t EXCEPT !.pc = "spawn"])
  /\ UNCHANGED <<goals, issues, settles, history>>

\* Mutant: the fix goal is spawned and not linked.
SpawnOnly(t) ==
  /\ t.pc = "spawn"
  /\ Create(NewGoal(goals[t.goal].depth + 1, 0))
  /\ Ends(t)
  /\ UNCHANGED <<attempts, issues, settles, history>>

SpawnFix(t) ==
  /\ t.pc = "spawn"
  /\ Create(NewGoal(goals[t.goal].depth + 1, 0))
  /\ Goto(t, [t EXCEPT !.pc = "link", !.fix = Len(goals) + 1])
  /\ UNCHANGED <<attempts, issues, settles, history>>

LinkFix(t) ==
  /\ t.pc = "link"
  /\ attempts' = [attempts EXCEPT ![t.attempt].fix = t.fix]
  /\ Ends(t)
  /\ UNCHANGED <<goals, issues, settles, history>>

AbandonAttempt(t) ==
  /\ t.pc = "abandon"
  /\ attempts' = [attempts EXCEPT ![t.attempt].outcome = "abandoned"]
  /\ Ends(t)
  /\ UNCHANGED <<goals, issues, settles, history>>

\* The failure is not in the table yet.
Unrecorded(t) == t.pc \in {"depth", "look", "bump", "record"} /\ MayBeHealed(t.goal)

Forgotten(T) ==
  lost' = [b \in Bugs |-> lost[b] + Cardinality({t \in T : t.bug = b /\ Unrecorded(t)})]

\* An exception of the database, which trigger catches.
DatabaseError(t) ==
  /\ faults < MaxFaults
  /\ faults' = faults + 1
  /\ IF t.pc \in {"spawn", "link"}
     THEN Goto(t, [t EXCEPT !.pc = "abandon"]) /\ UNCHANGED lost
     ELSE Ends(t) /\ Forgotten({t})
  /\ UNCHANGED <<tables, issues, settles, reports>>

-----------------------------------------------------------------------------
(* settle_outcome *)

\* Mutant: the attempt the failed goal made is settled, not the one it was made for.
HealOf(g) == {a \in DOMAIN attempts : attempts[a].goal = g}

FixedBy(g) == {a \in DOMAIN attempts : attempts[a].fix = g}

FindAttempt(s) ==
  /\ s.attempt = 0
  /\ settles' = (settles \ {s}) \cup
       (IF FixedBy(s.goal) = {} THEN {}
        ELSE {[s EXCEPT !.attempt = Min(FixedBy(s.goal))]})
  /\ UNCHANGED <<tables, issues, triggers, history>>

OutcomeOf(status) == IF status = "COMPLETED" THEN "fixed" ELSE "failed"

WriteOutcome(s) ==
  /\ s.attempt # 0
  /\ attempts' = [attempts EXCEPT ![s.attempt].outcome = OutcomeOf(s.status)]
  /\ settles' = settles \ {s}
  /\ UNCHANGED <<goals, issues, triggers, history>>

\* The process dies: nothing starts these coroutines again.
Crash ==
  /\ faults < MaxFaults
  /\ tasks # <<{}, {}>>
  /\ faults' = faults + 1
  /\ triggers' = {} /\ settles' = {}
  /\ Forgotten(triggers)
  /\ UNCHANGED <<tables, issues, reports>>

TriggerStep ==
  \E t \in triggers :
    \/ CheckDepth(t) \/ FindDuplicate(t) \/ FileIssue(t) \/ BumpRecurrence(t)
    \/ RecordAttempt(t) \/ WriteNumber(t) \/ SpawnFix(t) \/ LinkFix(t) \/ AbandonAttempt(t)

SettleStep == \E s \in settles : FindAttempt(s) \/ WriteOutcome(s)

EndsUntriggered(g) ==
  \E status \in {"COMPLETED", "FAILED"} : Finishes(g, status) \/ EndsUnheard(g, status)

FixGoalEnds == \E g \in DOMAIN goals : /\ goals[g].depth > 0
                                       /\ goals[g].ends = 0
                                       /\ EndsUntriggered(g) \/ Fails(g, External)

HealNext ==
  \/ UserGoal
  \/ \E i \in DOMAIN issues : IssueOpened(i)
  \/ \E g \in DOMAIN goals : EndsUntriggered(g) \/ \E e \in Bugs \cup {External} : Fails(g, e)
  \/ TriggerStep
  \/ SettleStep
  \/ \E t \in triggers : DatabaseError(t)
  \/ Crash

HealSpec == HealInit /\ [][HealNext]_healVars

\* The loop runs every coroutine on, and a goal of the worker comes to an end.
FairSpec ==
  /\ HealSpec
  /\ WF_healVars(TriggerStep)
  /\ WF_healVars(SettleStep)
  /\ WF_healVars(FixGoalEnds)

-----------------------------------------------------------------------------
(* Properties *)

\* A bug is filed again only by a failure that looked for it before the other
\* was recorded: find_heal_attempt_by_fingerprint finds every row there is, whatever
\* became of the issue and of the fix.
DuplicatesOverlap ==
  \A a, c \in DOMAIN attempts :
    a < c /\ attempts[a].bug = attempts[c].bug => attempts[c].known < a

RowsOf(b) == {a \in DOMAIN attempts : attempts[a].bug = b}

\* The row of an attempt, once for every failure it counts.
Recurrences(b) == UNION {{a} \X (1 .. attempts[a].count) : a \in RowsOf(b)}

Unwritten(b) == {t \in triggers : t.bug = b /\ Unrecorded(t)}

\* Recurrences are counted, not discarded: the rows of a bug add up to the failures of
\* goals that may be healed, as far as they reach trigger, less those under way and
\* those an error or a crash of the service swallowed.
RecurrencesAreCounted ==
  \A b \in Bugs :
    reports[b] = Cardinality(Recurrences(b)) + Cardinality(Unwritten(b)) + lost[b]

\* What an attempt is said to have come to is what its own fix goal came to, and one
\* that was abandoned is never settled by a goal.
OutcomeIsEarned ==
  \A a \in DOMAIN attempts :
    LET row == attempts[a] IN
    /\ row.outcome = "fixed" => row.fix # 0 /\ "COMPLETED" \in goals[row.fix].was
    /\ row.outcome = "failed" => row.fix # 0 /\ "FAILED" \in goals[row.fix].was
    /\ row.outcome = "abandoned" => row.fix = 0

UnheardFix(a) ==
  /\ attempts[a].fix # 0
  /\ goals[attempts[a].fix].ends > 0 /\ ~ goals[attempts[a].fix].told

\* Every attempt gets an outcome, unless an error or a crash intervenes or its fix goal
\* ended unheard: nothing else may leave it open.
AttemptsSettle ==
  \A a \in 1 .. MaxGoals :
    a \in DOMAIN attempts ~>
      \/ a \in DOMAIN attempts /\ attempts[a].outcome # "none"
      \/ a \in DOMAIN attempts /\ UnheardFix(a)
      \/ faults > 0
=============================================================================
