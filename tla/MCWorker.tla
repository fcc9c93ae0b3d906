------------------------------- MODULE MCWorker -------------------------------
(* Instances of WorkerProperties small enough for TLC. *)
EXTENDS WorkerProperties, TLC

CONSTANTS a, b, d, r, c1, c2, c3

MCTaskIds == {a, b, d, r}

\* a then b, b the terminal
ChainPlan == [deps |-> (a :> {} @@ b :> {a}), terminal |-> b]

\* the shape of THE_LIVE_PLAN in test_blocked_tasks.py: a side branch and a
\* terminal that does not wait for it
BranchPlan == [deps |-> (a :> {} @@ b :> {a} @@ d :> {}), terminal |-> d]

RecoveryPlan == [deps |-> (r :> {}), terminal |-> r]

Chain == {ChainPlan}

Either == {ChainPlan, BranchPlan}
Recovery == {RecoveryPlan}

CoroSymmetry == Permutations(Coros)
=============================================================================
