----------------------------- MODULE MCToolLedger -----------------------------
(* One irreversible action with two spellings and one that can be undone. *)
EXTENDS ToolLedgerProperties, TLC

CONSTANTS merge, mergeRespelled, comment, merging, commenting

MCActionOf == merge :> merging @@ mergeRespelled :> merging @@ comment :> commenting
=============================================================================
