------------------------------ MODULE MCLlmCalls ------------------------------
(* A primary model with three fallbacks.  One has no key and was withdrawn,     *)
(* though an old file still names it; one is never a primary.                   *)
EXTENDS LlmCalls, TLC

CONSTANTS gpt, mini, llama, gone, operator, coder, c1, c2

MCFallbacks == gpt :> <<mini, gone, llama>> @@ mini :> <<llama>> @@ llama :> <<>> @@ gone :> <<>>
MCDefaults == operator :> gpt @@ coder :> gpt
MCSuperseded == coder :> llama
MCOldFiles == {MCSuperseded, coder :> gone}
MCSymmetry == Permutations({c1, c2})
=============================================================================
