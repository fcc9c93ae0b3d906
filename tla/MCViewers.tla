------------------------------ MODULE MCViewers ------------------------------
(* Instances of Viewers small enough for TLC. *)
EXTENDS Viewers, TLC

CONSTANTS ann, bob, v1, v2, t1, t2

MCFirstEmail == ann :> "first@" @@ bob :> "second@"
=============================================================================
