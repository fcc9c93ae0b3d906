------------------------------- MODULE LlmCalls -------------------------------
(***************************************************************************)
(* A call of a model: acompletion of backend/llm.py, which falls back along  *)
(* a chain of models, and the cool-downs of backend/model_health.py, which    *)
(* all calls of the process share.  A call awaits the provider at every try;  *)
(* in between, other calls learn about outages and time passes.               *)
(* Each role's model comes from ModelConfig, which an administrator edits.    *)
(***************************************************************************)
EXTENDS ModelConfig

CONSTANTS Keyed,      \* models whose provider has an API key
          Fallbacks,  \* _FALLBACKS: for each model a sequence
          Calls,      \* bound: the calls of acompletion
          Cooldowns,  \* the lengths a hard limit may cool down, in ticks
          MaxEdits,   \* bound: requests to change the configuration
          NoModel

ASSUME FallbackAssumption ==
  /\ Keyed \subseteq Models /\ NoModel \notin Models
  /\ Fallbacks \in [Models -> Seq(Models)]
  /\ \A m \in Models : \A i \in DOMAIN Fallbacks[m] : Fallbacks[m][i] # m
ASSUME CooldownAssumption == Cooldowns \subseteq Nat \ {0}
ASSUME BoundAssumption == MaxEdits \in Nat

VARIABLES cooling,  \* _cooldowns, as the time left
          call,     \* the coroutine of each call
          edits

callVars == <<configVars, cooling, call, edits>>

NoCall == [pc |-> "new", model |-> NoModel, rest |-> <<>>, tries |-> 0,
           first |-> NoModel, error |-> NoModel, tried |-> {}, cold |-> {}]

\* Every variable keeps its type.
LlmTypeOK ==
  /\ ConfigTypeOK
  /\ cooling \in [Models -> Nat]
  /\ call \in [Calls -> [pc : {"new", "try", "answered", "raised"},
                         model : Models \cup {NoModel},  \* the primary
                         rest  : Seq(Models),            \* models_to_try, the current one first
                         tries : 0..2,                   \* retry_attempt
                         first : Models \cup {NoModel},  \* whose error first_err is
                         error : Models \cup {NoModel},  \* whose error is raised
                         tried : SUBSET Models,
                         cold  : SUBSET Models]]         \* cooling down at the start
  /\ edits \in 0..MaxEdits

CallInit ==
  /\ ConfigInit
  /\ cooling = [m \in Models |-> 0]
  /\ call = [c \in Calls |-> NoCall]
  /\ edits = 0

-----------------------------------------------------------------------------
IsHealthy(m) == cooling[m] = 0

\* get_least_cold: the first of the least.
LeastCold(ms) ==
  ms[CHOOSE i \in DOMAIN ms :
       \A j \in DOMAIN ms : cooling[ms[i]] < cooling[ms[j]]
                            \/ (cooling[ms[i]] = cooling[ms[j]] /\ i <= j)]

\* The members of a list that are in a set, in their order.
Keep(list, set) ==
  LET kept[n \in 0..Len(list)] ==
        IF n = 0 THEN <<>>
        ELSE IF list[n] \in set THEN Append(kept[n - 1], list[n]) ELSE kept[n - 1]
  IN  kept[Len(list)]

CandidateModels(m) ==
  LET fallbacks == Keep(Fallbacks[m], Keyed)
      healthy == Keep(fallbacks, {f \in Models : IsHealthy(f)})
  IN  IF IsHealthy(m) THEN <<m>> \o healthy
      ELSE IF healthy # <<>> THEN healthy \o <<m>>
      ELSE <<LeastCold(<<m>> \o fallbacks)>>

\* A call begins: the candidates are chosen once and for all.
Start(c, role) ==
  LET m == GetModel(role)
  IN  /\ call[c].pc = "new"
      /\ Read
      /\ call' = [call EXCEPT ![c] =
           [NoCall EXCEPT !.pc = "try", !.model = m, !.rest = CandidateModels(m),
                          !.tried = {Head(CandidateModels(m))},
                          !.cold = {n \in Models : ~ IsHealthy(n)}]]
      /\ UNCHANGED <<cooling, edits>>

Current(c) == Head(call[c].rest)
Trying(c) == call[c].pc = "try"

\* Variant with a bug: the last error is reported.
LastError(c) == Current(c)

\* record: the first error is the one that explains the run.
First(c) == IF call[c].first = NoModel THEN Current(c) ELSE call[c].first

Raise(c, model) == call' = [call EXCEPT ![c].pc = "raised", ![c].error = model]

\* On to the next candidate, or out of the loop.
NextModel(c) ==
  LET rest == Tail(call[c].rest)
  IN  IF rest = <<>> THEN Raise(c, First(c))
      ELSE call' = [call EXCEPT ![c].first = First(c), ![c].rest = rest, ![c].tries = 0,
                                ![c].tried = @ \cup {Head(rest)}]

others == <<configVars, edits>>

Answered(c) ==
  /\ Trying(c)
  /\ call' = [call EXCEPT ![c].pc = "answered"]
  /\ UNCHANGED <<cooling, others>>

\* Variant with a bug: the last word counts.
MarkLatest(m, secs) == cooling' = [cooling EXCEPT ![m] = secs]

\* mark_unhealthy: an outage known to last longer is not cut short.
MarkUnhealthy(m, secs) ==
  cooling' = [cooling EXCEPT ![m] = IF @ < secs THEN secs ELSE @]

\* A daily quota, an overload, a removed model: cool it down and go on.
HardLimit(c, secs) ==
  /\ Trying(c)
  /\ MarkUnhealthy(Current(c), secs)
  /\ NextModel(c)
  /\ UNCHANGED others

\* A per-minute limit is waited out, twice.
SoftLimit(c) ==
  /\ Trying(c) /\ call[c].tries < 2
  /\ call' = [call EXCEPT ![c].tries = @ + 1]
  /\ UNCHANGED <<cooling, others>>

\* No choices in the response, or a model the provider does not know.
NoUse(c) ==
  /\ Trying(c) /\ NextModel(c)
  /\ UNCHANGED <<cooling, others>>

\* Variant with a bug: any unexpected error is the answer.
FailsAnywhere(c) ==
  /\ Trying(c) /\ Raise(c, Current(c))
  /\ UNCHANGED <<cooling, others>>

\* Anything else, a third per-minute limit included: the answer if the primary says
\* so, noise if a fallback does.
Fails(c) ==
  /\ Trying(c)
  /\ IF Current(c) = call[c].model THEN Raise(c, Current(c)) ELSE NextModel(c)
  /\ UNCHANGED <<cooling, others>>

\* Time passes.
Tick ==
  /\ \E m \in Models : cooling[m] > 0
  /\ cooling' = [m \in Models |-> IF cooling[m] = 0 THEN 0 ELSE cooling[m] - 1]
  /\ UNCHANGED <<call, others>>

-----------------------------------------------------------------------------
Changes == LET change == [role : Roles, model : Models]
           IN  {<<a>> : a \in change} \cup {<<a, b>> : a \in change, b \in change}

EditConfig ==
  /\ edits < MaxEdits /\ edits' = edits + 1
  /\ \E changes \in Changes :
       \/ \E saved \in BOOLEAN : Update(changes, saved)
       \/ \E n \in DOMAIN changes : Rejected(changes, n)
  /\ UNCHANGED <<cooling, call>>

\* The process dies: memory is gone, the calls with it.
Die ==
  /\ edits < MaxEdits /\ edits' = edits + 1
  /\ Restart
  /\ cooling' = [m \in Models |-> 0]
  /\ call' = [c \in Calls |-> IF Trying(c) THEN NoCall ELSE call[c]]

Try(c) ==
  \/ \E role \in Roles : Start(c, role)
  \/ Answered(c) \/ SoftLimit(c) \/ NoUse(c) \/ Fails(c)
  \/ \E secs \in Cooldowns : HardLimit(c, secs)

CallNext == (\E c \in Calls : Try(c)) \/ Tick \/ EditConfig \/ Die

CallSpec == CallInit /\ [][CallNext]_callVars

-----------------------------------------------------------------------------
\* "A cooldown must slow the worker, never stop it" (_candidate_models): a call gives
\* up only when its primary model said why, or when every fallback that has a key was
\* tried or was known to be out when the call began; and it always tries something.
NothingLeftUntried ==
  \A c \in Calls : call[c].pc = "raised" =>
    /\ call[c].tried # {}
    /\ \/ call[c].error = call[c].model
       \/ \A i \in DOMAIN Fallbacks[call[c].model] :
            LET f == Fallbacks[call[c].model][i]
            IN  f \in Keyed => f \in call[c].tried \cup call[c].cold

\* "The first failure is the one that explains the run": unless its primary model was
\* cooling down when the call began, the error raised is the primary's.
ErrorExplains ==
  \A c \in Calls : call[c].pc = "raised" /\ call[c].model \notin call[c].cold =>
    call[c].error = call[c].model

\* Calls side by side learn of one outage with different lengths: whatever their
\* order, only time (or the end of the process) shortens a cool-down.
OnlyTimeHeals ==
  [][\A m \in Models : cooling'[m] < cooling[m] =>
       cache' = NotLoaded \/ cooling'[m] = cooling[m] - 1]_callVars

\* What a role uses is what it would use after a restart: the file and the memory
\* differ only after a save the disk refused or an update rejected halfway.
ServedIsSaved == cache # NotLoaded /\ ~ lapsed => cache = FromFile
=============================================================================
