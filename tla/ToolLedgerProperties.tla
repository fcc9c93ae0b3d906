------------------------- MODULE ToolLedgerProperties -------------------------
(* What the ledger of tool calls and the approval gate promise. *)
EXTENDS ToolLedger

\* "The model's only route to the action is through a function that will not call
\* it without a decision row" (tools/approval.py): whatever the runs, the requests
\* and the person did in whatever order, an irreversible action took effect only
\* if somebody approved exactly that action.
ApprovedFirst ==
  \A c \in Calls : performed[c] > 0 /\ ActionOf[c] \in Irreversible =>
    \E i \in RequestsFor(ActionOf[c]) : asked[i].decision = "approve"

\* A task that parks, fails or restarts does not repeat what it had completed
\* (_idempotency_key): a call takes effect once more than it was forgotten, by an
\* exception after the effect or a crash before it was recorded.  Only two runs
\* side by side can break this.
CompletedOnce ==
  ~ overran => \A c \in Calls : performed[c] <= 1 + forgotten[c]

\* What a later run is told in the tool's place did happen: a parked call is never
\* replayed as a result, and a refusal has a person or a clock behind it.
ReplayIsTrue ==
  \A c \in Calls :
    /\ ledger[c] = "ok" => performed[c] > 0
    /\ ledger[c] = "refused" =>
         \E i \in RequestsFor(ActionOf[c]) : asked[i].decision = "deny" \/ asked[i].expired

WaitsOn(i) == task = [status |-> "WAITING", key |-> i]

Decided(i) == i \in DOMAIN asked /\ asked[i].decision # None

\* "Release the task either way" (api/approvals.py): while no run works beside another,
\* a decision that came when the task was parked, from a process that lived to act on
\* it, sets the task free.
DecidedTaskResumes ==
  \A i \in Runs : (WaitsOn(i) /\ Decided(i)) ~> (overran \/ unheard \/ ~ WaitsOn(i))
=============================================================================
