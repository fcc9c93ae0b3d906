------------------------------ MODULE MCSelfHeal ------------------------------
(* Instances of SelfHeal small enough for TLC. *)
EXTENDS SelfHeal

CONSTANTS b, c
=============================================================================
