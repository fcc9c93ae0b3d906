----------------------------- MODULE ProofOutbox -----------------------------
(***************************************************************************)
(* From a finished task to a proof on a chain: economy.record_proof and    *)
(* backfill, the proofs and proof_outbox tables of db.py, chain_worker.py, *)
(* and ChainClient.record_proof with the contract behind it.               *)
(*                                                                         *)
(* The result hash is a matter of the task and is left out, and so is the  *)
(* local counter of the proofs table, which only orders pages.  A write to *)
(* SQLite may fail while a batch is under way; elsewhere writes succeed.   *)
(***************************************************************************)
EXTENDS Integers, FiniteSets

CONSTANTS Tasks,
          Chains,
          Ephemeral,         \* the chains inside the process: networks.LOCAL
          None,              \* SQL NULL, and no usable chain client
          MaxProofAttempts,  \* MAX_PROOF_ATTEMPTS
          BatchSize,         \* _BATCH_SIZE
          MaxBoots           \* bound on the number of processes

ASSUME OutboxAssumption ==
  /\ Ephemeral \subseteq Chains
  /\ IsFiniteSet(Tasks)
  /\ None \notin Tasks \cup Chains
  /\ MaxProofAttempts \in Nat \ {0}
  /\ BatchSize \in Nat \ {0}
  /\ MaxBoots \in Nat

VARIABLES done,       \* tasks settled DONE
          proofs,     \* keys of the proofs table
          outbox,     \* the proof_outbox rows: task -> row
          recorder,   \* where record_proof is for a task
          submitter,  \* the coroutine of chain_submit_loop, after the boot steps
          chain,      \* chain -> task -> the block its proof is in
          flight,     \* chain -> transactions sent and not mined
          target,     \* the chain of this process
          boots       \* number of processes so far

recording == <<done, proofs, recorder>>
network == <<chain, flight>>
process == <<target, boots>>
vars == <<done, proofs, outbox, recorder, submitter, chain, flight, target, boots>>

Settled == {"confirmed", "dead_lettered"}

\* ripe: next_attempt_at has passed (pending), updated_at is _STUCK_AFTER_SECONDS
\* old (submitting).  tx names the transaction by the block it is in.  0 is a NULL
\* or empty tx_hash, and a block_number nobody knows.
Row == [status   : {"pending", "submitting"} \cup Settled,
        attempts : 0 .. MaxProofAttempts,
        ripe     : BOOLEAN,
        chain    : Chains \cup {None},
        block    : Nat,
        tx       : Nat]

NewRow == [status |-> "pending", attempts |-> 0, ripe |-> TRUE, chain |-> None,
           block |-> 0, tx |-> 0]

Booting == {"backfill", "reclaim", "requeue"}
Submitting == {"submit", "wait", "confirm", "fail"}

Submitter == [pc    : Booting \cup {"poll"} \cup Submitting,
              batch : SUBSET Tasks,
              entry : Tasks \cup {None},
              block : Nat,
              tx    : Nat]

\* A transaction the client waits for, or one it no longer does.
Transactions == Tasks \X {"awaited", "abandoned"}

Abandon(txs) == {<<x[1], "abandoned">> : x \in txs}

\* What a process starts from: backfill has read proofs and the DONE tasks.
Boot(unproved) == [pc |-> "backfill", batch |-> unproved, entry |-> None,
                   block |-> 0, tx |-> 0]

EmptyChain == [t \in {} |-> 0]

OutboxTypeOK ==
  /\ done \in SUBSET Tasks
  /\ proofs \in SUBSET Tasks
  /\ DOMAIN outbox \subseteq Tasks
  /\ outbox \in [DOMAIN outbox -> Row]
  /\ recorder \in [Tasks -> {"idle", "check", "insert", "enqueue"}]
  /\ submitter \in Submitter
  /\ submitter.pc \in Submitting =>
       submitter.batch \subseteq DOMAIN outbox /\ target \in Chains
  /\ submitter.pc \in {"wait", "confirm", "fail"} => submitter.entry \in submitter.batch
  /\ DOMAIN chain = Chains
  /\ \A c \in Chains : /\ DOMAIN chain[c] \subseteq Tasks
                       /\ chain[c] \in [DOMAIN chain[c] -> Nat \ {0}]
  /\ flight \in [Chains -> SUBSET Transactions]
  /\ target \in Chains \cup {None}
  /\ boots \in Nat

Init ==
  /\ done = {} /\ proofs = {}
  /\ outbox = [t \in {} |-> NewRow]
  /\ recorder = [t \in Tasks |-> "idle"]
  /\ submitter = Boot({})
  /\ chain = [c \in Chains |-> EmptyChain]
  /\ flight = [c \in Chains |-> {}]
  /\ target \in Chains \cup {None}
  /\ boots = 1

Rows(s) == {t \in DOMAIN outbox : outbox[t].status = s}

\* An UPDATE of the rows in T that makes row r into New(r).
Update(T, New(_)) ==
  outbox' = [t \in DOMAIN outbox |-> IF t \in T THEN New(outbox[t]) ELSE outbox[t]]

-----------------------------------------------------------------------------
(* Recording a proof: economy.record_proof, in the coroutine of the task *)

\* A run of a task is over.  A second time only for a run that outlived its lease.
Finish(t) ==
  /\ submitter.pc # "backfill"
  /\ recorder[t] = "idle"
  /\ done' = done \cup {t}
  /\ recorder' = [recorder EXCEPT ![t] = "check"]
  /\ UNCHANGED <<proofs, outbox, submitter, network, process>>

CheckProof(t) ==
  /\ recorder[t] = "check"
  /\ recorder' = [recorder EXCEPT ![t] = IF t \in proofs THEN "idle" ELSE "insert"]
  /\ UNCHANGED <<done, proofs, outbox, submitter, network, process>>

InsertProof(t) ==
  /\ recorder[t] = "insert"
  /\ proofs' = proofs \cup {t}
  /\ recorder' = [recorder EXCEPT ![t] = IF t \in proofs THEN "idle" ELSE "enqueue"]
  /\ UNCHANGED <<done, outbox, submitter, network, process>>

EnqueueProof(t) ==
  /\ recorder[t] = "enqueue"
  /\ outbox' = [u \in DOMAIN outbox \cup {t} |->
                  IF u \in DOMAIN outbox THEN outbox[u] ELSE NewRow]
  /\ recorder' = [recorder EXCEPT ![t] = "idle"]
  /\ UNCHANGED <<done, proofs, submitter, network, process>>

-----------------------------------------------------------------------------
(* Boot: lifespan calls backfill, then the submit loop starts *)

\* One insert_proof of backfill; nothing is queued.
Backfill(t) ==
  /\ submitter.pc = "backfill"
  /\ t \in submitter.batch
  /\ proofs' = proofs \cup {t}
  /\ submitter' = [submitter EXCEPT !.batch = @ \ {t}]
  /\ UNCHANGED <<done, outbox, recorder, network, process>>

StartLoop ==
  /\ submitter.pc = "backfill"
  /\ submitter.batch = {}
  /\ submitter' = [submitter EXCEPT !.pc = "reclaim"]
  /\ UNCHANGED <<recording, outbox, network, process>>

Reclaimed(row) == [row EXCEPT !.status = "pending", !.ripe = TRUE]

\* reclaim_stuck_proofs(older_than_seconds=0)
BootReclaim ==
  /\ submitter.pc = "reclaim"
  /\ Update(Rows("submitting"), Reclaimed)
  /\ submitter' = [submitter EXCEPT !.pc = "requeue"]
  /\ UNCHANGED <<recording, network, process>>

Requeued(row) ==
  [row EXCEPT !.status = "pending", !.attempts = 0, !.ripe = TRUE, !.tx = 0, !.block = 0]

\* Variants with a bug: nothing is requeued; the chain is not compared; a status
\* is not compared.
RequeuedNone == {}
RequeuedAllChains == IF target \in Ephemeral THEN Rows("confirmed") ELSE {}
RequeuedAnyStatus ==
  IF target \in Ephemeral
  THEN {t \in DOMAIN outbox : outbox[t].chain = target \/ outbox[t].status = "dead_lettered"}
  ELSE {}

\* The rows requeue_proofs_for_chain takes, when the chain is local.
ToRequeue ==
  IF target \in Ephemeral
  THEN {t \in Rows("confirmed") : outbox[t].chain = target} ELSE {}

BootRequeue ==
  /\ submitter.pc = "requeue"
  /\ Update(ToRequeue, Requeued)
  /\ submitter' = [submitter EXCEPT !.pc = "poll"]
  /\ UNCHANGED <<recording, network, process>>

-----------------------------------------------------------------------------
(* submit_batch *)

Due == {t \in Rows("pending") : outbox[t].ripe}

Claimed(row) == [row EXCEPT !.status = "submitting", !.ripe = FALSE]

Claim ==
  /\ submitter.pc = "poll"
  /\ target # None
  /\ \E B \in SUBSET Due \ {{}} :
       /\ Cardinality(B) <= BatchSize
       /\ Cardinality(B) < BatchSize => B = Due
       /\ Update(B, Claimed)
       /\ submitter' = [submitter EXCEPT !.pc = "submit", !.batch = B]
  /\ UNCHANGED <<recording, network, process>>

Stuck == {t \in Rows("submitting") : outbox[t].ripe}

\* Variant with a bug: the recovery runs in a loop of its own.
ReclaimStuckAnyTime ==
  /\ Stuck # {}
  /\ Update(Stuck, Reclaimed)
  /\ UNCHANGED <<recording, submitter, network, process>>

\* Variant with a bug: an entry that never failed is not looked at.
ReclaimStuckFailed ==
  /\ submitter.pc = "poll"
  /\ target # None
  /\ Due = {}
  /\ \E t \in Stuck : outbox[t].attempts > 0
  /\ Update({t \in Stuck : outbox[t].attempts > 0}, Reclaimed)
  /\ UNCHANGED <<recording, submitter, network, process>>

\* Only when there is nothing to claim.
ReclaimStuck ==
  /\ submitter.pc = "poll"
  /\ target # None
  /\ Due = {}
  /\ Stuck # {}
  /\ Update(Stuck, Reclaimed)
  /\ UNCHANGED <<recording, submitter, network, process>>

-----------------------------------------------------------------------------
(* _submit_one: ChainClient.record_proof in a thread, then the mark *)

\* The entries of a batch are taken one after the other.
Takes(t) == submitter.pc = "submit" /\ t \in submitter.batch

\* No passport, or the call is refused before anything is sent.
SubmitFails(t) ==
  /\ Takes(t)
  /\ submitter' = [submitter EXCEPT !.pc = "fail", !.entry = t]
  /\ UNCHANGED <<recording, outbox, network, process>>

\* isRecorded: the receipt has no transaction, and has the block unless a node
\* over the network does not answer get_proof.
AlreadyRecorded(t) ==
  /\ Takes(t)
  /\ t \in DOMAIN chain[target]
  /\ \E b \in {chain[target][t]} \cup (IF target \in Ephemeral THEN {} ELSE {0}) :
       submitter' = [submitter EXCEPT !.pc = "confirm", !.entry = t, !.block = b, !.tx = 0]
  /\ UNCHANGED <<recording, outbox, network, process>>

Broadcast(t) ==
  /\ Takes(t)
  /\ t \notin DOMAIN chain[target]
  /\ flight' = [flight EXCEPT ![target] = @ \cup {<<t, "awaited">>}]
  /\ submitter' = [submitter EXCEPT !.pc = "wait", !.entry = t]
  /\ UNCHANGED <<recording, outbox, chain, process>>

\* A transaction is mined, also one nobody waits for any more.  The contract reverts
\* a second proof of a task.
Mine(c, x) ==
  LET t == x[1]
      next == Cardinality(DOMAIN chain[c]) + 1
  IN
  /\ x \in flight[c]
  /\ flight' = [flight EXCEPT ![c] = @ \ {x}]
  /\ IF t \in DOMAIN chain[c]
     THEN UNCHANGED <<chain, submitter>>
     ELSE /\ chain' = [chain EXCEPT ![c] = [u \in DOMAIN @ \cup {t} |->
                                             IF u = t THEN next ELSE @[u]]]
          /\ submitter' = [submitter EXCEPT !.tx = IF x[2] = "awaited" THEN next ELSE @]
  /\ UNCHANGED <<recording, outbox, process>>

Receipt ==
  /\ submitter.pc = "wait"
  /\ submitter.tx # 0
  /\ submitter' = [submitter EXCEPT !.pc = "confirm", !.block = submitter.tx]
  /\ UNCHANGED <<recording, outbox, network, process>>

\* No receipt in time: the next attempt signs another transaction, if the node can
\* still simulate it.
Resend ==
  LET t == submitter.entry IN
  /\ submitter.pc = "wait"
  /\ submitter.tx = 0
  /\ target \notin Ephemeral
  /\ t \notin DOMAIN chain[target]
  /\ flight' = [flight EXCEPT ![target] = Abandon(@) \cup {<<t, "awaited">>}]
  /\ UNCHANGED <<recording, outbox, submitter, chain, process>>

\* Out of attempts, or a revert because an earlier transaction made it after all.
GiveUp ==
  /\ submitter.pc = "wait"
  /\ target \notin Ephemeral
  /\ submitter' = [submitter EXCEPT !.pc = "fail", !.tx = 0]
  /\ flight' = [flight EXCEPT ![target] = Abandon(@)]
  /\ UNCHANGED <<recording, outbox, chain, process>>

\* On to the next entry of the batch.
Proceed ==
  LET rest == submitter.batch \ {submitter.entry} IN
  submitter' = [submitter EXCEPT !.pc = IF rest = {} THEN "poll" ELSE "submit",
                                 !.batch = rest, !.entry = None, !.block = 0, !.tx = 0]

MarkConfirmed ==
  LET t == submitter.entry IN
  /\ submitter.pc = "confirm"
  /\ outbox' = [outbox EXCEPT
       ![t].status = "confirmed",
       ![t].chain = target,
       ![t].block = IF submitter.block # 0 THEN submitter.block ELSE outbox[t].block,
       ![t].tx = IF submitter.tx # 0 THEN submitter.tx ELSE outbox[t].tx]
  /\ Proceed
  /\ UNCHANGED <<recording, network, process>>

LastAttempt(n) == n >= MaxProofAttempts

MarkFailed ==
  LET t == submitter.entry
      n == outbox[t].attempts + 1
  IN
  /\ submitter.pc = "fail"
  /\ outbox' = [outbox EXCEPT
       ![t].attempts = n,
       ![t].status = IF LastAttempt(n) THEN "dead_lettered" ELSE "pending",
       ![t].ripe = LastAttempt(n)]
  /\ Proceed
  /\ UNCHANGED <<recording, network, process>>

\* The write fails and the exception leaves submit_batch: the rest of the batch
\* stays behind in 'submitting'.
MarkRaises ==
  /\ submitter.pc \in {"confirm", "fail"}
  /\ submitter' = [submitter EXCEPT !.pc = "poll", !.batch = {}, !.entry = None,
                                    !.block = 0, !.tx = 0]
  /\ UNCHANGED <<recording, outbox, network, process>>

-----------------------------------------------------------------------------
(* Time and restarts *)

TimePasses(t) ==
  /\ t \in Rows("pending") \cup Rows("submitting")
  /\ ~ outbox[t].ripe
  /\ outbox' = [outbox EXCEPT ![t].ripe = TRUE]
  /\ UNCHANGED <<recording, submitter, network, process>>

\* Another process, perhaps configured for another chain.  A chain inside the
\* process is deployed afresh.
Restart ==
  /\ boots < MaxBoots
  /\ boots' = boots + 1
  /\ target' \in Chains \cup {None}
  /\ recorder' = [t \in Tasks |-> "idle"]
  /\ submitter' = Boot(IF proofs = {} THEN done ELSE {})
  /\ chain' = [c \in Chains |-> IF c \in Ephemeral THEN EmptyChain ELSE chain[c]]
  /\ flight' = [c \in Chains |-> IF c \in Ephemeral THEN {} ELSE Abandon(flight[c])]
  /\ UNCHANGED <<done, proofs, outbox>>

-----------------------------------------------------------------------------
RecorderStep(t) == CheckProof(t) \/ InsertProof(t) \/ EnqueueProof(t)

BootStep == (\E t \in Tasks : Backfill(t)) \/ StartLoop \/ BootReclaim \/ BootRequeue

Submit(t) == SubmitFails(t) \/ AlreadyRecorded(t) \/ Broadcast(t)

Mark == MarkConfirmed \/ MarkFailed

Next ==
  \/ \E t \in Tasks : Finish(t) \/ RecorderStep(t) \/ Submit(t) \/ TimePasses(t)
  \/ BootStep
  \/ Claim \/ ReclaimStuck
  \/ \E c \in Chains, x \in Transactions : Mine(c, x)
  \/ Receipt \/ Resend \/ GiveUp \/ Mark \/ MarkRaises
  \/ Restart

Spec == Init /\ [][Next]_vars

\* The coroutines run, time passes, a client that waits is answered or gives up, and
\* a write that is tried again and again succeeds in the end.
Fairness ==
  /\ \A t \in Tasks : WF_vars(RecorderStep(t)) /\ WF_vars(TimePasses(t))
  /\ WF_vars(BootStep)
  /\ WF_vars(Claim \/ ReclaimStuck)
  /\ WF_vars(\E t \in Tasks : Submit(t))
  /\ WF_vars(Receipt \/ GiveUp \/ \E x \in Transactions : target # None /\ Mine(target, x))
  /\ SF_vars(Mark)

LiveSpec == Spec /\ Fairness

-----------------------------------------------------------------------------
(* Properties *)

\* The ledger shows only what the chain issued: once the loop runs, a proof
\* confirmed on the chain of this process, or on any chain that outlives it, is on
\* that chain, in the block the row names, by the transaction it names, if it names
\* them (chain_worker.py, requeue_proofs_for_chain).
LedgerHonest ==
  \A t \in Rows("confirmed") :
    LET c == outbox[t].chain IN
    (c \notin Ephemeral \/ (c = target /\ submitter.pc \notin Booting)) =>
      /\ t \in DOMAIN chain[c]
      /\ outbox[t].block \in {0, chain[c][t]}
      /\ outbox[t].tx \in {0, chain[c][t]}

\* An entry in the hands of the loop is nobody else's: not claimable, not reclaimed
\* under it, however long the chain takes (_STUCK_AFTER_SECONDS is shorter than the
\* three receipt timeouts of a send).
BatchIsHeld ==
  submitter.pc \in Submitting => submitter.batch \subseteq Rows("submitting")

\* An entry is dead-lettered exactly when its attempts are spent
\* (mark_proof_failed).
AttemptsSpent ==
  \A t \in DOMAIN outbox :
    outbox[t].status = "dead_lettered" <=> outbox[t].attempts = MaxProofAttempts

\* A dead letter is left alone, by reclaim, requeue and late answers alike.
DeadStaysDead == [][\A t \in Rows("dead_lettered") : outbox'[t] = outbox[t]]_vars

\* A confirmation on a chain that outlives the process is never given up, and one on
\* a local chain only by the boot after that chain was lost.
ConfirmedForGood ==
  [][\A t \in Rows("confirmed") :
       outbox'[t] # outbox[t] =>
         outbox[t].chain \in Ephemeral /\ submitter.pc = "requeue"]_vars

\* With a usable chain every queued proof is settled, for good: also one left in
\* 'submitting' by a crash or a failed write.
QueuedSettles ==
  <>[](target # None) =>
    <>[](\A t \in DOMAIN outbox : outbox[t].status \in Settled)

\* What the loop holds is of the chain it talks to: a transaction it saw mined, the
\* block of a proof it found.  Nothing is left over between entries.
EntryFits ==
  LET mined == chain[target]
      t     == submitter.entry
  IN
  /\ submitter.pc \notin {"wait", "confirm"} => submitter.tx = 0
  /\ submitter.pc \in {"wait", "confirm"} /\ submitter.tx # 0 =>
       t \in DOMAIN mined /\ submitter.tx = mined[t]
  /\ submitter.pc = "confirm" =>
       t \in DOMAIN mined /\ submitter.block \in {0, mined[t]}

\* Only the entry in hand is waited for, until it is mined.
AwaitedFits ==
  \A c \in Chains, t \in Tasks : <<t, "awaited">> \in flight[c] =>
    /\ submitter.pc = "wait"
    /\ submitter.tx = 0
    /\ submitter.entry = t
    /\ target = c

\* Block and transaction are those of a confirmation, and a confirmation has a chain.
RowsFit ==
  \A t \in DOMAIN outbox :
    IF outbox[t].status = "confirmed" THEN outbox[t].chain \in Chains
    ELSE outbox[t].block = 0 /\ outbox[t].tx = 0

\* The inductive invariant behind the safety properties: none of them is inductive
\* alone (_submit_one marks what an earlier await of the same entry found).
OutboxInv ==
  /\ OutboxTypeOK
  /\ BatchIsHeld
  /\ AttemptsSpent
  /\ LedgerHonest
  /\ EntryFits
  /\ AwaitedFits
  /\ RowsFit
=============================================================================
