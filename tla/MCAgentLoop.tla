------------------------------ MODULE MCAgentLoop ------------------------------
(* One capped tool, one address that may be given, earned or made up. *)
EXTENDS AgentLoop, TLC

CONSTANTS merge, read, pr

MCCap == merge :> 1
=============================================================================
