----------------------------- MODULE DagExecution -----------------------------
(***************************************************************************)
(* What the executor promises about a goal's task graph, with no leases,   *)
(* no coroutines and no processes: a task is under way only while all its  *)
(* dependencies are done, a task may be handed back any number of times,   *)
(* and what is done or given up stays so, whatever is added to the graph.  *)
(***************************************************************************)
CONSTANT Node

VARIABLES deps,     \* the graph: node -> the nodes it waits for
          state     \* node -> how far it is

dagVars == <<deps, state>>

State == {"todo", "active", "done", "dead"}

DagTypeOK ==
  /\ DOMAIN deps \subseteq Node
  /\ DOMAIN state = DOMAIN deps
  /\ deps \in [DOMAIN deps -> SUBSET Node]
  /\ state \in [DOMAIN deps -> State]

DagInit == DOMAIN deps = {} /\ DOMAIN state = {}

\* New nodes join; those already there keep their dependencies and their state.
Extend ==
  /\ DOMAIN deps \subseteq DOMAIN deps'
  /\ DOMAIN state' = DOMAIN deps'
  /\ \A n \in DOMAIN deps : deps'[n] = deps[n] /\ state'[n] = state[n]
  /\ \A n \in DOMAIN deps' \ DOMAIN deps : state'[n] = "todo"

Start(n) ==
  /\ state[n] = "todo"
  /\ \A m \in deps[n] : m \in DOMAIN state /\ state[m] = "done"
  /\ state' = [state EXCEPT ![n] = "active"]
  /\ deps' = deps

\* A retry, a park that ends, a lease that runs out: of several nodes at once.
HandBack(N) ==
  /\ \A n \in N : state[n] = "active"
  /\ state' = [n \in DOMAIN state |-> IF n \in N THEN "todo" ELSE state[n]]
  /\ deps' = deps

Finish(n) ==
  /\ state[n] = "active"
  /\ state' = [state EXCEPT ![n] = "done"]
  /\ deps' = deps

GiveUp(n) ==
  /\ state[n] = "active"
  /\ state' = [state EXCEPT ![n] = "dead"]
  /\ deps' = deps

DagNext ==
  \/ Extend
  \/ \E n \in DOMAIN state : Start(n) \/ Finish(n) \/ GiveUp(n)
  \/ \E N \in SUBSET DOMAIN state : HandBack(N)

DagSpec == DagInit /\ [][DagNext]_dagVars
=============================================================================
