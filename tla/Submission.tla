------------------------------ MODULE Submission ------------------------------
(***************************************************************************)
(* What may end a task: _submission_problem of backend/agent_runner.py and  *)
(* the guards it calls.  A submitted object is abstracted to the answers    *)
(* the guards give about it.                                               *)
(***************************************************************************)
EXTENDS Naturals, FiniteSets

CONSTANT Urls    \* addresses of produced artifacts (_CLAIMED_URL)

\* The output schemas of agent_registry.py: the integrator's keys are those a bare
\* payload can be wrapped into, the other agents' are not.
Schemas == {"envelope", "fields"}

Submissions ==
  [keys     : {"bare", "missing", "blank", "full"},  \* no object; required keys
   urls     : SUBSET Urls,  \* _collect_urls, at any depth
   claims   : BOOLEAN,      \* the action makes something addressable, url is blank
   failure  : BOOLEAN,      \* ok=False or an error envelope, at any depth
   admits   : BOOLEAN,      \* a top-level success that is not True
   misleads : BOOLEAN]      \* wrong language, prose for code, a run that cannot be

\* The guards, by the names they have in the code.  Those that read top-level fields
\* (the last two) see the envelope of a wrapped payload, not the payload in it.
FabricatedUrls(s, known) == s.urls \ known

ClaimedWithoutArtifact(s) == s.claims /\ s.urls = {}

CarriesToolFailure(s) == s.failure

SelfReportedFailure(s) == s.admits \/ s.keys = "blank"

\* _wrong_language_for_task, _not_actually_code, _unrunnable_execution_claim
Misleads(s) == s.misleads

\* _wrap_bare_payload: the payload becomes the "result" of a new envelope.
IsWrapped(s, schema) == schema = "envelope" /\ s.keys = "missing" /\ s.urls # {}

\* The envelope has every key, and no field of its own to judge.
Wrapped(s) == [s EXCEPT !.keys = "full", !.admits = FALSE, !.misleads = FALSE]

\* _submission_problem is None.
Acceptable(s, schema, known) ==
  LET judged == IF IsWrapped(s, schema) THEN Wrapped(s) ELSE s
  IN  /\ judged.keys \notin {"bare", "missing"}
      /\ ~ Misleads(judged)
      /\ FabricatedUrls(judged, known) = {}
      /\ ~ ClaimedWithoutArtifact(judged)
      /\ ~ CarriesToolFailure(judged)
      /\ ~ SelfReportedFailure(judged)
=============================================================================
