---------------------------- MODULE AgentLoopProofs ----------------------------
(***************************************************************************)
(* Theorems about AgentLoop, for every set of addresses, tools and schemas, *)
(* every cap and every bound: whatever the model answers, nothing made up is *)
(* accepted, no cap is overrun and the provider sees whole exchanges.       *)
(***************************************************************************)
EXTENDS AgentLoop, TLAPS

\* What the agent may cite was given to it or returned by a tool, and what was accepted
\* stays: there is no step after it.
Honest ==
  /\ known \subseteq real
  /\ Accepted => pc = "done"
  /\ AcceptedIsHonest

\* Every write that took effect was counted, or came by the recovered route; a run to
\* come has none.
Capped ==
  /\ \A t \in WriteTools : applied[run][t] <= writes[t] + loose /\ writes[t] <= Cap[t]
  /\ \A r \in Runs : r > run => \A t \in WriteTools : applied[r][t] = 0

\* How far the transcript is behind the response at hand: the operator's keeps up with
\* it, a specialist's gets it at the end of the turn unless the turn was broken off.
Behind ==
  /\ Operator => /\ batch.closed /\ ~ batch.cut
                 /\ exchange.announced = batch.size /\ exchange.answered = batch.answered
  /\ Specialist => /\ batch.cut = batch.closed
                   /\ batch.closed => exchange.announced = exchange.answered

Paired ==
  /\ TranscriptPaired
  /\ batch.answered <= batch.size
  /\ pc = "calls" => Behind

LoopInv == TypeOK /\ Honest /\ Capped /\ Paired

-----------------------------------------------------------------------------
(* Helpers *)

Batch == [size : 0 .. MaxCalls, answered : 0 .. MaxCalls, cut : BOOLEAN, closed : BOOLEAN]
Exchange == [announced : 0 .. MaxCalls, answered : 0 .. MaxCalls]
Result == [route : {"checked", "recovered"}, object : Submissions] \cup {None}

LEMMA NextTurnGoes ==
  ASSUME TurnAssumption, turn \in 0 .. (MaxTurns - 1), NextTurn
  PROVE  pc' \in {"turn", "final", "failed"} /\ turn' \in 0 .. (MaxTurns - 1)
  BY DEF NextTurn, TurnAssumption

\* What the guards let pass is what they promise.
LEMMA AcceptableIsHonest ==
  ASSUME NEW s \in Submissions, NEW agent \in Schemas, NEW cited, Acceptable(s, agent, cited)
  PROVE  /\ s.urls \subseteq cited
         /\ ~ ClaimedWithoutArtifact(s) /\ ~ CarriesToolFailure(s)
         /\ IsWrapped(s, agent) \/ (s.keys = "full" /\ ~ s.admits /\ ~ Misleads(s))
<1>1. CASE IsWrapped(s, agent)
  <2>1. /\ Wrapped(s).urls = s.urls /\ Wrapped(s).claims = s.claims
        /\ Wrapped(s).failure = s.failure
    BY DEF Wrapped, Submissions
  <2>2. /\ FabricatedUrls(Wrapped(s), cited) = {}
        /\ ~ ClaimedWithoutArtifact(Wrapped(s)) /\ ~ CarriesToolFailure(Wrapped(s))
    BY <1>1 DEF Acceptable
  <2> QED
    BY <1>1, <2>1, <2>2 DEF FabricatedUrls, ClaimedWithoutArtifact, CarriesToolFailure
<1>2. CASE ~ IsWrapped(s, agent)
  <2>1. /\ s.keys \notin {"bare", "missing"} /\ ~ Misleads(s)
        /\ FabricatedUrls(s, cited) = {} /\ ~ ClaimedWithoutArtifact(s)
        /\ ~ CarriesToolFailure(s) /\ ~ SelfReportedFailure(s)
    BY <1>2 DEF Acceptable
  <2>2. s.keys \in {"bare", "missing", "blank", "full"}
    BY DEF Submissions
  <2> QED
    BY <2>1, <2>2 DEF FabricatedUrls, SelfReportedFailure
<1> QED
  BY <1>1, <1>2

\* One more answer to a call of the response at hand.
LEMMA AnswerKeeps ==
  ASSUME LoopInv, TurnAssumption, AtCall, Answer, UNCHANGED <<driver, pc>>
  PROVE  batch' \in Batch /\ exchange' \in Exchange /\ Paired'
<1>1. /\ batch \in Batch /\ exchange \in Exchange /\ batch.answered < batch.size
      /\ pc = "calls" /\ ~ batch.cut /\ Behind
  BY DEF LoopInv, TypeOK, Paired, AtCall, Batch, Exchange
<1>2. PICK n \in 0 .. MaxCalls : n = batch.answered + 1
  <2>1. batch.answered \in Nat /\ batch.size \in Nat /\ batch.size <= MaxCalls
    BY <1>1 DEF Batch, TurnAssumption
  <2> QED
    BY <1>1, <2>1
<1>3. /\ batch' \in Batch /\ batch'.answered = n /\ batch'.size = batch.size
      /\ batch'.cut = batch.cut /\ batch'.closed = batch.closed
  BY <1>1, <1>2 DEF Answer, Batch
<1>4. CASE Operator
  <2>1. exchange' = [exchange EXCEPT !.answered = n]
    BY <1>1, <1>2, <1>4 DEF Answer, Behind
  <2>2. exchange' \in Exchange /\ exchange'.answered = n /\ exchange'.announced = exchange.announced
    BY <1>1, <2>1 DEF Exchange
  <2>3. n <= batch.size
    BY <1>1, <1>2 DEF Batch
  <2> QED
    BY <1>1, <1>3, <1>4, <2>2, <2>3 DEF Paired, TranscriptPaired, Behind, Operator, Specialist
<1>5. CASE ~ Operator
  <2>1. exchange' = exchange
    BY <1>5 DEF Answer
  <2>2. n <= batch.size
    BY <1>1, <1>2 DEF Batch
  <2> QED
    BY <1>1, <1>3, <1>5, <2>1, <2>2 DEF Paired, TranscriptPaired, Behind, Operator, Specialist
<1> QED
  BY <1>4, <1>5

\* A specialist breaks the turn off, with an exchange of its own.
LEMMA RejectKeeps ==
  ASSUME LoopInv, TurnAssumption, AtCall, Specialist, Reject, UNCHANGED <<driver, pc>>
  PROVE  batch' \in Batch /\ exchange' \in Exchange /\ Paired'
<1>1. batch \in Batch /\ batch.answered <= batch.size /\ pc = "calls"
  BY DEF LoopInv, TypeOK, Paired, AtCall, Batch
<1>2. /\ batch' \in Batch /\ batch'.cut = TRUE /\ batch'.closed = TRUE
      /\ batch'.size = batch.size /\ batch'.answered = batch.answered
  BY <1>1 DEF Reject, Batch
<1>3. exchange' \in Exchange /\ exchange'.announced = exchange'.answered
  BY DEF Reject, Exchange, TurnAssumption
<1> QED
  BY <1>1, <1>2, <1>3 DEF Paired, TranscriptPaired, Behind, Operator, Specialist

\* Answered or broken off, as the driver has it.
LEMMA HandledKeeps ==
  ASSUME LoopInv, TurnAssumption, AtCall, IF Specialist THEN Reject ELSE Answer,
         UNCHANGED <<driver, pc>>
  PROVE  batch' \in Batch /\ exchange' \in Exchange /\ Paired'
  BY AnswerKeeps, RejectKeeps

\* The transcript is whole already and the step leaves it alone.
LEMMA WholeKeeps ==
  ASSUME LoopInv, UNCHANGED <<batch, exchange>>, pc' # "calls",
         pc \in {"turn", "final"} \/ pc' \notin {"turn", "final"}
  PROVE  batch' \in Batch /\ exchange' \in Exchange /\ Paired'
  BY DEF LoopInv, TypeOK, Paired, TranscriptPaired, Batch, Exchange

-----------------------------------------------------------------------------
(* The turn and the transcript *)

\* What the steps do to the response at hand, the counters and the transcript.
Turning ==
  /\ pc' \in {"turn", "calls", "final", "done", "failed", "parked"}
  /\ turn' \in 0 .. (MaxTurns - 1) /\ errors' \in Nat
  /\ batch' \in Batch /\ exchange' \in Exchange
  /\ Paired'

LEMMA DecideTurns ==
  ASSUME LoopInv, TurnAssumption, Decide
  PROVE  Turning
<1>1. /\ pc = "turn" /\ turn \in 0 .. (MaxTurns - 1) /\ errors \in Nat
      /\ errors' \in Nat
  BY DEF LoopInv, TypeOK, Decide, TurnFails, NoCall, TextSubmission, RecoveredSubmission, Calls
<1>2. CASE TurnFails
  BY <1>1, <1>2, WholeKeeps DEF TurnFails, End, Turning
<1>3. CASE NoCall
  BY <1>1, <1>3, NextTurnGoes, WholeKeeps DEF NoCall, Turning
<1>4. ASSUME NEW s \in Submissions, TextSubmission(s) PROVE Turning
  <2>1. CASE Acceptable(s, schema, known)
    BY <1>1, <1>4, <2>1, WholeKeeps DEF TextSubmission, Return, End, Turning
  <2>2. CASE ~ Acceptable(s, schema, known)
    BY <1>1, <1>4, <2>2, NextTurnGoes, WholeKeeps DEF TextSubmission, Turning
  <2> QED
    BY <2>1, <2>2
<1>5. ASSUME NEW s \in Submissions, RecoveredSubmission(s) PROVE Turning
  BY <1>1, <1>5, WholeKeeps DEF RecoveredSubmission, Return, End, Turning
<1>6. ASSUME NEW n \in 1 .. MaxCalls, Calls(n) PROVE Turning
  <2>1. n \in 0 .. MaxCalls /\ 0 \in 0 .. MaxCalls
    BY DEF TurnAssumption
  <2>2. /\ batch' \in Batch /\ batch'.size = n /\ batch'.answered = 0
        /\ batch'.cut = FALSE /\ batch'.closed = Operator
    <3>1. Operator \in BOOLEAN
      BY DEF Operator
    <3> QED
      BY <1>6, <2>1, <3>1 DEF Calls, Batch
  <2>3. CASE Operator
    <3>1. exchange' \in Exchange /\ exchange'.announced = n /\ exchange'.answered = 0
      BY <1>6, <2>1, <2>3 DEF Calls, Exchange
    <3>2. Behind'
      BY <1>6, <2>2, <2>3, <3>1 DEF Calls, task, Behind, Operator, Specialist
    <3>3. Paired'
      BY <1>6, <2>1, <2>2, <3>2 DEF Calls, Paired, TranscriptPaired
    <3> QED
      BY <1>1, <1>6, <2>2, <3>1, <3>3 DEF Calls, Turning
  <2>4. CASE ~ Operator
    <3>1. exchange' = exchange /\ exchange' \in Exchange
      BY <1>6, <2>4 DEF Calls, LoopInv, TypeOK, Exchange
    <3>2. Behind'
      BY <1>6, <2>2, <2>4, <3>1 DEF Calls, task, Behind, Operator, Specialist
    <3>3. Paired'
      BY <1>6, <2>1, <2>2, <3>2 DEF Calls, Paired, TranscriptPaired
    <3> QED
      BY <1>1, <1>6, <2>2, <3>1, <3>3 DEF Calls, Turning
  <2> QED
    BY <2>3, <2>4
<1> QED
  BY <1>2, <1>3, <1>4, <1>5, <1>6 DEF Decide

LEMMA RecoveredTurns ==
  ASSUME LoopInv, TurnAssumption, Recovered
  PROVE  Turning
<1>1. PICK t \in Tools, acts \in BOOLEAN, reply \in Reply, urls \in SUBSET Urls :
        RecoveredCall(t, acts, reply, urls)
  BY DEF Recovered
<1>2. /\ pc = "turn" /\ turn \in 0 .. (MaxTurns - 1) /\ errors' \in Nat
      /\ batch \in Batch /\ batch' = batch
  BY <1>1 DEF LoopInv, TypeOK, RecoveredCall, Batch
<1>3. CASE reply = "parks"
  BY <1>1, <1>2, <1>3, WholeKeeps DEF RecoveredCall, End, Turning
<1>4. CASE reply # "parks"
  <2>1. NextTurn /\ exchange' = [announced |-> 1, answered |-> 1]
    BY <1>1, <1>4 DEF RecoveredCall
  <2>2. exchange' \in Exchange /\ exchange'.announced = exchange'.answered
    BY <2>1 DEF Exchange, TurnAssumption
  <2>3. pc' \in {"turn", "final", "failed"} /\ turn' \in 0 .. (MaxTurns - 1)
    BY <1>2, <2>1, NextTurnGoes
  <2>4. Paired'
    BY <1>2, <2>2, <2>3 DEF Paired, TranscriptPaired, LoopInv
  <2> QED
    BY <1>2, <2>2, <2>3, <2>4 DEF Turning
<1> QED
  BY <1>3, <1>4

LEMMA HandleCallTurns ==
  ASSUME LoopInv, TurnAssumption, HandleCall
  PROVE  Turning
<1>1. pc = "calls" /\ turn \in 0 .. (MaxTurns - 1) /\ errors \in Nat /\ AtCall
  BY DEF LoopInv, TypeOK, HandleCall, Unreadable, NotExecuted, Submit, Refused, Execute, AtCall
<1>2. errors' \in Nat
  BY <1>1 DEF HandleCall, Unreadable, NotExecuted, Submit, Refused, Execute
<1>3. CASE Unreadable
  BY <1>1, <1>2, <1>3, HandledKeeps DEF Unreadable, task, Turning
<1>4. CASE NotExecuted
  BY <1>1, <1>2, <1>4, AnswerKeeps DEF NotExecuted, task, Turning
<1>5. ASSUME NEW s \in Submissions, Submit(s) PROVE Turning
  <2>1. CASE Acceptable(s, schema, known)
    BY <1>1, <1>2, <1>5, <2>1, WholeKeeps DEF Submit, Return, End, Turning
  <2>2. CASE ~ Acceptable(s, schema, known)
    BY <1>1, <1>2, <1>5, <2>2, HandledKeeps DEF Submit, task, Turning
  <2> QED
    BY <2>1, <2>2
<1>6. ASSUME NEW t \in Tools, Refused(t) PROVE Turning
  BY <1>1, <1>2, <1>6, AnswerKeeps DEF Refused, task, Turning
<1>7. ASSUME NEW t \in Tools, NEW acts \in BOOLEAN, NEW reply \in Reply,
             NEW urls \in SUBSET Urls, Execute(t, acts, reply, urls)
      PROVE  Turning
  <2>1. CASE Specialist /\ reply = "parks"
    BY <1>1, <1>2, <1>7, <2>1, WholeKeeps DEF Execute, End, Turning
  <2>2. CASE ~ (Specialist /\ reply = "parks")
    BY <1>1, <1>2, <1>7, <2>2, AnswerKeeps DEF Execute, task, Turning
  <2> QED
    BY <2>1, <2>2
<1> QED
  BY <1>3, <1>4, <1>5, <1>6, <1>7 DEF HandleCall

LEMMA EndTurnTurns ==
  ASSUME LoopInv, TurnAssumption, EndTurn
  PROVE  Turning
<1>1. /\ pc = "calls" /\ turn \in 0 .. (MaxTurns - 1) /\ errors \in Nat
      /\ batch \in Batch /\ exchange \in Exchange /\ Behind
      /\ batch.cut \/ batch.answered = batch.size
  BY DEF LoopInv, TypeOK, Paired, EndTurn, Batch, Exchange
<1>2. pc' \in {"turn", "final", "failed"} /\ turn' \in 0 .. (MaxTurns - 1) /\ errors' \in Nat
  BY <1>1, NextTurnGoes DEF EndTurn
<1>3. batch' \in Batch /\ batch'.answered <= batch'.size
  BY DEF EndTurn, NoBatch, Batch, TurnAssumption
<1>4. driver \in {"specialist", "operator"}
  BY DEF LoopInv, TypeOK
<1>5. exchange' \in Exchange /\ exchange'.announced = exchange'.answered
  <2>1. CASE batch.closed
    BY <1>1, <1>4, <2>1 DEF EndTurn, Behind, Operator, Specialist, Batch
  <2>2. CASE ~ batch.closed
    BY <1>1, <1>4, <2>2 DEF EndTurn, Behind, Operator, Specialist, Batch, Exchange
  <2> QED
    BY <2>1, <2>2
<1> QED
  BY <1>2, <1>3, <1>5 DEF Turning, Paired, TranscriptPaired

LEMMA FinalTurns ==
  ASSUME LoopInv, TurnAssumption, Final
  PROVE  Turning
<1>1. /\ pc = "final" /\ turn \in 0 .. (MaxTurns - 1) /\ errors' \in Nat
      /\ UNCHANGED <<batch, exchange>>
  BY DEF LoopInv, TypeOK, Final, FinalUnreadable, FinalFails, FinalSubmission
<1>2. pc' \in {"final", "done", "failed"} /\ turn' \in 0 .. (MaxTurns - 1)
  BY <1>1 DEF Final, FinalUnreadable, FinalFails, FinalSubmission, Return, End, TurnAssumption
<1> QED
  BY <1>1, <1>2, WholeKeeps DEF Turning

LEMMA StepTurns ==
  ASSUME LoopInv, TurnAssumption, Next
  PROVE  Turning
<1>1. CASE Again
  <2>1. batch' \in Batch /\ exchange' \in Exchange
    BY <1>1 DEF Again, NoBatch, Batch, Exchange, TurnAssumption
  <2>2. Paired'
    BY <1>1 DEF Again, NoBatch, Paired, TranscriptPaired
  <2> QED
    BY <1>1, <2>1, <2>2 DEF Again, Turning, TurnAssumption
<1> QED
  BY <1>1, DecideTurns, RecoveredTurns, HandleCallTurns, EndTurnTurns, FinalTurns DEF Next, Step

-----------------------------------------------------------------------------
(* The world, what is known of it and what is counted *)

Worldly ==
  /\ writes' \in [WriteTools -> Nat] /\ applied' \in [Runs -> [WriteTools -> Nat]]
  /\ loose' \in Nat /\ {known', given', real'} \subseteq SUBSET Urls
  /\ run' \in Runs /\ driver' = driver /\ schema' = schema
  /\ known' \subseteq real'
  /\ Capped'

\* All steps but three leave the world alone.
LEMMA WorldStays ==
  ASSUME LoopInv, UNCHANGED <<task, world>>
  PROVE  Worldly
  BY DEF LoopInv, TypeOK, Honest, Capped, Worldly, task, world

\* A write takes effect and is counted, one way or the other.
LEMMA ActedKeeps ==
  ASSUME LoopInv, CapAssumption, NEW t \in Tools, NEW acts \in BOOLEAN, NEW reply \in Reply,
         NEW urls \in SUBSET Urls, Acted(t, acts, reply, urls),
         writes' \in [WriteTools -> Nat], loose' \in Nat, UNCHANGED task,
         known' \in {known, known \cup urls},
         \A w \in WriteTools :
           /\ writes'[w] <= Cap[w] /\ writes[w] + loose <= writes'[w] + loose'
           /\ w = t /\ acts /\ reply = "ok" => writes[w] + loose + 1 <= writes'[w] + loose'
  PROVE  Worldly
<1>1. /\ applied \in [Runs -> [WriteTools -> Nat]] /\ run \in Runs /\ writes \in [WriteTools -> Nat]
      /\ loose \in Nat /\ Cap \in [WriteTools -> Nat]
      /\ {known, given, real} \subseteq SUBSET Urls /\ known \subseteq real
      /\ \A w \in WriteTools : applied[run][w] <= writes[w] + loose
      /\ \A r \in Runs : r > run => \A w \in WriteTools : applied[r][w] = 0
  BY DEF LoopInv, TypeOK, Honest, Capped, CapAssumption
<1>2. CASE acts /\ reply = "ok" /\ t \in WriteTools
  <2>1. PICK mine \in [WriteTools -> Nat] : mine = applied[run]
    BY <1>1
  <2>2. PICK more \in [WriteTools -> Nat] : more = [mine EXCEPT ![t] = mine[t] + 1]
    <3>1. PICK n \in Nat : n = mine[t] + 1
      BY <1>2
    <3>2. [mine EXCEPT ![t] = n] \in [WriteTools -> Nat]
      BY <1>2
    <3> QED
      BY <3>1, <3>2
  <2>3. applied' = [applied EXCEPT ![run] = more]
    <3>1. applied' = [applied EXCEPT ![run][t] = applied[run][t] + 1]
      BY <1>2 DEF Acted
    <3>2. @ = [applied EXCEPT ![run] = [applied[run] EXCEPT ![t] = applied[run][t] + 1]]
      OBVIOUS
    <3> QED
      BY <2>1, <2>2, <3>1, <3>2
  <2>4. /\ applied' \in [Runs -> [WriteTools -> Nat]]
        /\ applied'[run] = more /\ \A r \in Runs : r # run => applied'[r] = applied[r]
    BY <1>1, <2>3
  <2>5. \A w \in WriteTools : more[w] <= writes'[w] + loose'
    <3> SUFFICES ASSUME NEW w \in WriteTools PROVE more[w] <= writes'[w] + loose'
      OBVIOUS
    <3>1. /\ mine[w] \in Nat /\ mine[w] <= writes[w] + loose
          /\ more[w] = IF w = t THEN mine[w] + 1 ELSE mine[w]
      BY <1>1, <2>1, <2>2
    <3>2. writes[w] \in Nat /\ writes'[w] \in Nat
      BY <1>1
    <3> QED
      BY <1>1, <1>2, <3>1, <3>2
  <2>6. run' = run
    BY DEF task
  <2>7. Capped'
    <3>1. \A w \in WriteTools : applied'[run'][w] <= writes'[w] + loose' /\ writes'[w] <= Cap[w]
      BY <2>4, <2>5, <2>6
    <3>2. \A r \in Runs : r > run' => \A w \in WriteTools : applied'[r][w] = 0
      BY <1>1, <2>4, <2>6 DEF Runs
    <3> QED
      BY <3>1, <3>2 DEF Capped
  <2> QED
    BY <1>1, <2>4, <2>7 DEF Worldly, Acted, task
<1>3. CASE ~ (acts /\ reply = "ok" /\ t \in WriteTools)
  <2>1. applied' = applied /\ run' = run
    BY <1>3 DEF Acted, task
  <2>2. ASSUME NEW w \in WriteTools PROVE applied'[run'][w] <= writes'[w] + loose'
    <3>1. applied[run][w] \in Nat /\ writes[w] \in Nat /\ writes'[w] \in Nat
      BY <1>1
    <3> QED
      BY <1>1, <2>1, <3>1
  <2>3. Capped'
    BY <1>1, <2>1, <2>2 DEF Capped
  <2> QED
    BY <1>1, <2>1, <2>3 DEF Worldly, Acted, task
<1> QED
  BY <1>2, <1>3

LEMMA RecoveredActs ==
  ASSUME LoopInv, CapAssumption, Recovered
  PROVE  Worldly
<1>1. PICK t \in Tools, acts \in BOOLEAN, reply \in Reply, urls \in SUBSET Urls :
        RecoveredCall(t, acts, reply, urls)
  BY DEF Recovered
<1>2. /\ Acted(t, acts, reply, urls) /\ loose' = loose + 1 /\ writes' = writes /\ known' = known
      /\ UNCHANGED task
  BY <1>1 DEF RecoveredCall
<1>3. /\ loose \in Nat /\ writes \in [WriteTools -> Nat]
      /\ \A w \in WriteTools : writes[w] <= Cap[w]
  BY DEF LoopInv, TypeOK, Capped
<1>4. \A w \in WriteTools :
        /\ writes'[w] <= Cap[w] /\ writes[w] + loose <= writes'[w] + loose'
        /\ w = t /\ acts /\ reply = "ok" => writes[w] + loose + 1 <= writes'[w] + loose'
  BY <1>2, <1>3
<1>5. loose' \in Nat /\ writes' \in [WriteTools -> Nat]
  BY <1>2, <1>3
<1> QED
  BY <1>2, <1>4, <1>5, ActedKeeps

LEMMA ExecuteActs ==
  ASSUME LoopInv, CapAssumption, NEW t \in Tools, NEW acts \in BOOLEAN, NEW reply \in Reply,
         NEW urls \in SUBSET Urls, Execute(t, acts, reply, urls)
  PROVE  Worldly
<1>1. /\ Acted(t, acts, reply, urls) /\ loose' = loose /\ UNCHANGED task
      /\ known' \in {known, known \cup urls} /\ ~ OverCap(t)
      /\ writes' = IF t \in WriteTools /\ reply # "error"
                   THEN [writes EXCEPT ![t] = writes[t] + 1] ELSE writes
  BY DEF Execute
<1>2. /\ loose \in Nat /\ writes \in [WriteTools -> Nat] /\ Cap \in [WriteTools -> Nat]
      /\ \A w \in WriteTools : writes[w] <= Cap[w]
  BY DEF LoopInv, TypeOK, Capped, CapAssumption
<1>3. writes' \in [WriteTools -> Nat]
  BY <1>1, <1>2
<1>4. ASSUME NEW w \in WriteTools
      PROVE  /\ writes'[w] <= Cap[w] /\ writes[w] + loose <= writes'[w] + loose'
             /\ w = t /\ acts /\ reply = "ok" => writes[w] + loose + 1 <= writes'[w] + loose'
  <2>1. writes[w] \in Nat /\ Cap[w] \in Nat /\ writes[w] <= Cap[w]
    BY <1>2
  <2>2. CASE w = t /\ reply # "error"
    <3>1. writes'[w] = writes[w] + 1 /\ ~ writes[w] >= Cap[w]
      BY <1>1, <1>2, <2>2 DEF OverCap
    <3> QED
      BY <1>1, <1>2, <2>1, <3>1
  <2>3. CASE ~ (w = t /\ reply # "error")
    <3>1. writes'[w] = writes[w] /\ ~ (w = t /\ reply = "ok")
      BY <1>1, <1>2, <2>3
    <3> QED
      BY <1>1, <1>2, <2>1, <3>1
  <2> QED
    BY <2>2, <2>3
<1> QED
  BY <1>1, <1>2, <1>3, <1>4, ActedKeeps

LEMMA AgainActs ==
  ASSUME LoopInv, CapAssumption, TurnAssumption, Again
  PROVE  Worldly
<1>1. run' = run + 1 /\ run' \in Runs
  BY DEF Again, LoopInv, TypeOK, Runs, TurnAssumption
<1>2. /\ writes' = [w \in WriteTools |-> 0] /\ loose' = 0 /\ applied' = applied
      /\ known' = given /\ real' = given /\ given' = given
      /\ driver' = driver /\ schema' = schema
  BY DEF Again
<1>3. /\ applied \in [Runs -> [WriteTools -> Nat]] /\ given \in SUBSET Urls /\ run \in Runs
      /\ \A r \in Runs : r > run => \A w \in WriteTools : applied[r][w] = 0
  BY DEF LoopInv, TypeOK, Capped
<1>4. \A w \in WriteTools : applied'[run'][w] <= writes'[w] + loose' /\ writes'[w] <= Cap[w]
  BY <1>1, <1>2, <1>3 DEF CapAssumption, Runs
<1>5. \A r \in Runs : r > run' => \A w \in WriteTools : applied'[r][w] = 0
  BY <1>1, <1>2, <1>3 DEF Runs
<1>6. Capped'
  BY <1>4, <1>5 DEF Capped
<1> QED
  BY <1>1, <1>2, <1>3, <1>6 DEF Worldly

LEMMA StepActs ==
  ASSUME LoopInv, CapAssumption, TurnAssumption, Next
  PROVE  Worldly
<1>1. CASE Decide
  BY <1>1, WorldStays
  DEF Decide, TurnFails, NoCall, TextSubmission, RecoveredSubmission, Calls
<1>2. CASE HandleCall
  <2>1. CASE \E t \in Tools, acts \in BOOLEAN, reply \in Reply, urls \in SUBSET Urls :
               Execute(t, acts, reply, urls)
    BY <2>1, ExecuteActs
  <2>2. CASE \/ Unreadable \/ NotExecuted
             \/ \E s \in Submissions : Submit(s)
             \/ \E t \in Tools : Refused(t)
    BY <2>2, WorldStays DEF Unreadable, NotExecuted, Submit, Refused
  <2> QED
    BY <1>2, <2>1, <2>2 DEF HandleCall
<1>3. CASE EndTurn
  BY <1>3, WorldStays DEF EndTurn
<1>4. CASE Final
  BY <1>4, WorldStays DEF Final, FinalUnreadable, FinalFails, FinalSubmission
<1> QED
  BY <1>1, <1>2, <1>3, <1>4, RecoveredActs, AgainActs DEF Next, Step

-----------------------------------------------------------------------------
(* What is accepted *)

\* Nothing returned by this step, and nothing before it: it would have been the last.
LEMMA NoResult ==
  ASSUME LoopInv, UNCHANGED result, pc # "done"
  PROVE  result' \in Result /\ ~ Accepted'
  BY DEF LoopInv, TypeOK, Honest, Accepted, Result

LEMMA ReturnIsHonest ==
  ASSUME LoopInv, NEW s \in Submissions, Acceptable(s, schema, known), Return(s, "checked"),
         UNCHANGED schema, real' = real
  PROVE  /\ result' \in Result /\ pc' = "done" /\ AcceptedIsHonest'
<1>1. schema \in Schemas /\ known \subseteq real
  BY DEF LoopInv, TypeOK, Honest
<1>2. /\ s.urls \subseteq known
      /\ ~ ClaimedWithoutArtifact(s) /\ ~ CarriesToolFailure(s)
      /\ IsWrapped(s, schema) \/ (s.keys = "full" /\ ~ s.admits /\ ~ Misleads(s))
  BY <1>1, AcceptableIsHonest
<1>3. result' = [route |-> "checked", object |-> s] /\ result'.object = s
  BY DEF Return
<1>4. AcceptedIsHonest'
  BY <1>1, <1>2, <1>3
  DEF AcceptedIsHonest, ClaimedWithoutArtifact, CarriesToolFailure, IsWrapped, Misleads
<1> QED
  BY <1>3, <1>4 DEF Return, End, Result

\* What a step may return.
Returning == result' \in Result /\ (Accepted' => pc' = "done") /\ AcceptedIsHonest'

LEMMA CheckedOrNothing ==
  ASSUME LoopInv, NEW s \in Submissions, pc # "done", UNCHANGED <<task, real>>,
         IF Acceptable(s, schema, known) THEN Return(s, "checked") ELSE UNCHANGED result
  PROVE  Returning
<1>1. CASE Acceptable(s, schema, known)
  BY <1>1, ReturnIsHonest DEF task, Returning
<1>2. CASE ~ Acceptable(s, schema, known)
  BY <1>2, NoResult DEF AcceptedIsHonest, Returning
<1> QED
  BY <1>1, <1>2

LEMMA StepReturns ==
  ASSUME LoopInv, Next
  PROVE  Returning
<1>1. pc # "done"
  BY DEF Next, Step, Decide, TurnFails, NoCall, TextSubmission, RecoveredSubmission, Calls,
         Recovered, RecoveredCall, HandleCall, Unreadable, NotExecuted, Submit, Refused,
         Execute, AtCall, EndTurn, Final, FinalUnreadable, FinalFails, FinalSubmission, Again
<1>2. CASE UNCHANGED result
  BY <1>1, <1>2, NoResult DEF AcceptedIsHonest, Returning
<1>3. ASSUME NEW s \in Submissions, RecoveredSubmission(s) PROVE Returning
  <2>1. result' = [route |-> "recovered", object |-> s] /\ result'.route = "recovered"
    BY <1>3 DEF RecoveredSubmission, Return
  <2> QED
    BY <2>1 DEF Accepted, AcceptedIsHonest, Returning, Result
<1>4. ASSUME NEW s \in Submissions, TextSubmission(s) \/ Submit(s) \/ FinalSubmission(s)
      PROVE  Returning
  BY <1>1, <1>4, CheckedOrNothing DEF TextSubmission, Submit, FinalSubmission, world
<1> QED
  BY <1>2, <1>3, <1>4
  DEF Next, Step, Decide, TurnFails, NoCall, Calls, Recovered, RecoveredCall, HandleCall,
      Unreadable, NotExecuted, Refused, Execute, EndTurn, Final, FinalUnreadable, FinalFails,
      Again

-----------------------------------------------------------------------------
(* The specification *)

LEMMA LoopInit ==
  ASSUME CapAssumption, TurnAssumption, Init
  PROVE  LoopInv
<1>1. TypeOK
  BY DEF Init, TypeOK, NoBatch, Runs, Schemas, CapAssumption, TurnAssumption
<1>2. ~ Accepted
  BY DEF Init, Accepted
<1>3. Honest
  BY <1>2 DEF Init, Honest, AcceptedIsHonest
<1>4. Capped
  BY DEF Init, Capped, CapAssumption, TurnAssumption, Runs
<1>5. Paired
  BY DEF Init, Paired, TranscriptPaired, NoBatch
<1> QED
  BY <1>1, <1>3, <1>4, <1>5 DEF LoopInv

LEMMA LoopStep ==
  ASSUME CapAssumption, TurnAssumption, LoopInv, [Next]_vars
  PROVE  LoopInv'
<1>1. CASE Next
  <2>1. Turning /\ Worldly /\ Returning
    BY <1>1, StepTurns, StepActs, StepReturns
  <2>2. driver \in {"specialist", "operator"} /\ schema \in Schemas
    BY DEF LoopInv, TypeOK
  <2>3. TypeOK'
    BY <2>1, <2>2 DEF TypeOK, Turning, Worldly, Returning, Batch, Exchange, Result
  <2> QED
    BY <2>1, <2>3 DEF LoopInv, Honest, Turning, Worldly, Returning
<1>2. CASE UNCHANGED vars
  BY <1>2 DEF vars, LoopInv, TypeOK, Honest, Accepted, AcceptedIsHonest, Capped, Paired,
              TranscriptPaired, Behind, Operator, Specialist
<1> QED
  BY <1>1, <1>2

\* The loop's counters, transcript and result agree in every state.
THEOREM LoopInvHolds == Spec => []LoopInv
<1>1. Init => LoopInv
  BY LoopInit, CapAssumption, TurnAssumption
<1>2. LoopInv /\ [Next]_vars => LoopInv'
  BY LoopStep, CapAssumption, TurnAssumption
<1> QED
  BY <1>1, <1>2, PTL DEF Spec

\* Every variable of the loop keeps its type, whatever the model answers.
THEOREM LoopTypeCorrect == Spec => []TypeOK
<1>1. LoopInv => TypeOK
  BY DEF LoopInv
<1> QED
  BY <1>1, LoopInvHolds, PTL

\* However a run ends with a checked result, no address in it is made up, no tool
\* failure is handed on and no artifact is claimed without an address.
THEOREM AcceptedIsHonestHolds == Spec => []AcceptedIsHonest
<1>1. LoopInv => AcceptedIsHonest
  BY DEF LoopInv, Honest
<1> QED
  BY <1>1, LoopInvHolds, PTL

\* In one run, the writes that took effect stay within the cap of WRITE_TOOL_CALL_CAP,
\* save the calls recovered from an error text.
THEOREM WriteCapHolds == Spec => []WriteCap
<1>1. ASSUME LoopInv, CapAssumption PROVE WriteCap
  <2> SUFFICES ASSUME NEW t \in WriteTools PROVE applied[run][t] <= Cap[t] + loose
    BY DEF WriteCap
  <2>1. /\ applied[run][t] \in Nat /\ writes[t] \in Nat /\ loose \in Nat /\ Cap[t] \in Nat
        /\ applied[run][t] <= writes[t] + loose /\ writes[t] <= Cap[t]
    BY <1>1 DEF LoopInv, TypeOK, Capped, CapAssumption
  <2> QED
    BY <2>1
<1> QED
  BY <1>1, CapAssumption, LoopInvHolds, PTL

\* Whenever the model is asked for its next turn, every announced call has its answer.
THEOREM TranscriptPairedHolds == Spec => []TranscriptPaired
<1>1. LoopInv => TranscriptPaired
  BY DEF LoopInv, Paired
<1> QED
  BY <1>1, LoopInvHolds, PTL
=============================================================================
