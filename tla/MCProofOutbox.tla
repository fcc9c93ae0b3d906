---------------------------- MODULE MCProofOutbox ----------------------------
(* An instance of ProofOutbox: two tasks, the local EVM and a public chain. *)
EXTENDS ProofOutbox

CONSTANTS t1, t2, local, public
=============================================================================
