---------------------------- MODULE MCConnections ----------------------------
(* Instances of Connections small enough for TLC. *)
EXTENDS Connections, TLC

CONSTANTS alice, c1, c2, c3

CallSymmetry == Permutations(Calls)
=============================================================================
