--------------------------- MODULE BackgroundProofs ---------------------------
(***************************************************************************)
(* Theorems about what the service does in the background of a goal.       *)
(* ProofOutbox, for every set of tasks and chains, every batch size and    *)
(* attempt budget, and any number of processes.                            *)
(* SelfHeal, for every set of bugs, every depth of healing, and any number *)
(* of coroutines, errors and crashes.                                      *)
(***************************************************************************)
EXTENDS ProofOutbox, SelfHeal, FiniteSetTheorems, SequenceTheorems, TLAPS

-----------------------------------------------------------------------------
(* Rows and blocks *)

LEMMA RowsTyped ==
  ASSUME NEW r \in Row
  PROVE  Reclaimed(r) \in Row /\ Requeued(r) \in Row /\ Claimed(r) \in Row
<1>1. Reclaimed(r) \in Row
  BY DEF Row, Reclaimed
<1>2. Requeued(r) \in Row
  <2>1. 0 \in 0 .. MaxProofAttempts
    BY OutboxAssumption
  <2> QED
    BY <2>1 DEF Row, Requeued
<1>3. Claimed(r) \in Row
  BY DEF Row, Claimed
<1> QED
  BY <1>1, <1>2, <1>3

\* What a row keeps and loses when it goes back to pending.
LEMMA RowsFields ==
  ASSUME NEW r \in Row
  PROVE  /\ Reclaimed(r).status = "pending" /\ Reclaimed(r).attempts = r.attempts
         /\ Reclaimed(r).block = r.block /\ Reclaimed(r).tx = r.tx
         /\ Requeued(r).status = "pending" /\ Requeued(r).attempts = 0
         /\ Requeued(r).block = 0 /\ Requeued(r).tx = 0
<1>1. /\ Reclaimed(r).status = "pending" /\ Reclaimed(r).attempts = r.attempts
      /\ Reclaimed(r).block = r.block /\ Reclaimed(r).tx = r.tx
  BY DEF Row, Reclaimed
<1>2. /\ Requeued(r).status = "pending" /\ Requeued(r).attempts = 0
      /\ Requeued(r).block = 0 /\ Requeued(r).tx = 0
  BY DEF Row, Requeued
<1> QED
  BY <1>1, <1>2

\* An UPDATE with one of these operators keeps the rows' keys and types.
LEMMA UpdateTyped ==
  ASSUME OutboxTypeOK, NEW T,
         Update(T, Reclaimed) \/ Update(T, Requeued) \/ Update(T, Claimed)
  PROVE  /\ DOMAIN outbox' = DOMAIN outbox
         /\ outbox' \in [DOMAIN outbox' -> Row]
<1>1. DOMAIN outbox' = DOMAIN outbox
  BY DEF Update
<1>2. ASSUME NEW t \in DOMAIN outbox PROVE outbox'[t] \in Row
  <2>1. outbox[t] \in Row
    BY <1>2 DEF OutboxTypeOK
  <2>2. outbox'[t] \in {outbox[t], Reclaimed(outbox[t]), Requeued(outbox[t]), Claimed(outbox[t])}
    BY <1>2 DEF Update
  <2> QED
    BY <2>1, <2>2, RowsTyped
<1>3. outbox' = [t \in DOMAIN outbox |-> outbox'[t]]
  BY DEF Update
<1> QED
  BY <1>1, <1>2, <1>3

\* A block number is a positive natural number.
LEMMA BlockTyped ==
  ASSUME OutboxTypeOK, NEW c \in Chains
  PROVE  Cardinality(DOMAIN chain[c]) + 1 \in Nat \ {0}
<1>1. DOMAIN chain[c] \in SUBSET Tasks
  BY DEF OutboxTypeOK
<1>2. IsFiniteSet(DOMAIN chain[c])
  BY <1>1, FS_Subset, OutboxAssumption
<1>3. Cardinality(DOMAIN chain[c]) \in Nat
  BY <1>2, FS_CardinalityType
<1> QED
  BY <1>3

\* Abandoned transactions are transactions, and none of them is awaited.
LEMMA AbandonTyped ==
  ASSUME NEW S \in SUBSET Transactions
  PROVE  /\ Abandon(S) \in SUBSET Transactions
         /\ \A t \in Tasks : <<t, "awaited">> \notin Abandon(S)
  BY DEF Abandon, Transactions

-----------------------------------------------------------------------------
(* The invariant at the start, and under each action *)

LEMMA OutboxInit == Init => OutboxInv
<1> SUFFICES ASSUME Init PROVE OutboxInv
  OBVIOUS
<1>1. DOMAIN outbox = {}
  BY DEF Init
<1>2. \A c \in Chains : chain[c] = EmptyChain /\ DOMAIN chain[c] = {} /\ flight[c] = {}
  BY DEF Init, EmptyChain
<1>3. submitter = Boot({}) /\ submitter \in Submitter /\ submitter.pc = "backfill"
      /\ submitter.tx = 0
  BY DEF Init, Boot, Submitter, Booting
<1>4. OutboxTypeOK
  BY <1>1, <1>2, <1>3 DEF OutboxTypeOK, Init, Submitting, Transactions, EmptyChain
<1> QED
  BY <1>1, <1>2, <1>3, <1>4
  DEF OutboxInv, BatchIsHeld, AttemptsSpent, LedgerHonest, EntryFits, AwaitedFits,
      RowsFit, Rows, Submitting, Init

\* A coroutine of record_proof touches nothing of the loop but may queue a row.
LEMMA RecorderKeeps ==
  ASSUME OutboxInv, NEW t \in Tasks, Finish(t) \/ RecorderStep(t)
  PROVE  OutboxInv'
<1> USE DEF OutboxInv
<1>1. UNCHANGED <<submitter, chain, flight, target, boots>>
  BY DEF Finish, RecorderStep, CheckProof, InsertProof, EnqueueProof, network, process
<1>2. CASE UNCHANGED outbox
  <2>1. OutboxTypeOK'
    BY <1>1, <1>2 DEF OutboxTypeOK, Finish, RecorderStep, CheckProof, InsertProof, EnqueueProof
  <2> QED
    BY <1>1, <1>2, <2>1
    DEF BatchIsHeld, AttemptsSpent, LedgerHonest, EntryFits, AwaitedFits, RowsFit, Rows
<1>3. CASE EnqueueProof(t)
  <2>1. /\ DOMAIN outbox' = DOMAIN outbox \cup {t}
        /\ \A u \in DOMAIN outbox' :
             outbox'[u] = IF u \in DOMAIN outbox THEN outbox[u] ELSE NewRow
    BY <1>3 DEF EnqueueProof
  <2>2. NewRow \in Row /\ NewRow.status = "pending" /\ NewRow.attempts = 0
        /\ NewRow.block = 0 /\ NewRow.tx = 0
    BY OutboxAssumption DEF NewRow, Row, Settled
  <2>3. outbox' \in [DOMAIN outbox' -> Row]
    BY <1>3, <2>1, <2>2 DEF EnqueueProof, OutboxTypeOK
  <2>4. OutboxTypeOK'
    BY <1>1, <1>3, <2>1, <2>3 DEF OutboxTypeOK, EnqueueProof
  <2>5. AttemptsSpent'
    BY <2>1, <2>2, OutboxAssumption DEF AttemptsSpent
  <2>6. Rows("submitting")' = Rows("submitting") /\ Rows("confirmed")' = Rows("confirmed")
    BY <2>1, <2>2 DEF Rows
  <2> QED
    BY <1>1, <2>1, <2>2, <2>4, <2>5, <2>6
    DEF BatchIsHeld, LedgerHonest, EntryFits, AwaitedFits, RowsFit, Rows
<1> QED
  BY <1>2, <1>3 DEF Finish, RecorderStep, CheckProof, InsertProof

\* Boot: what is left 'submitting' and what the lost chain confirmed goes back to
\* pending, before anything is taken.
LEMMA BootKeeps ==
  ASSUME OutboxInv, BootStep
  PROVE  OutboxInv'
<1> USE DEF OutboxInv
<1>1. CASE (\E t \in Tasks : Backfill(t)) \/ StartLoop
  <2>1. UNCHANGED <<outbox, chain, flight, target, boots>>
        /\ submitter.pc \in Booting /\ submitter'.pc \in Booting /\ submitter'.tx = submitter.tx
        /\ submitter' \in Submitter
    BY <1>1 DEF Backfill, StartLoop, network, process, Booting, OutboxTypeOK, Submitter
  <2>2. OutboxTypeOK'
    BY <1>1, <2>1 DEF OutboxTypeOK, Backfill, StartLoop, recording, Booting, Submitting
  <2> QED
    BY <2>1, <2>2
    DEF BatchIsHeld, AttemptsSpent, LedgerHonest, EntryFits, AwaitedFits, RowsFit, Rows,
        Booting, Submitting
<1>2. CASE BootReclaim
  <2>1. UNCHANGED <<done, proofs, recorder, chain, flight, target, boots>>
        /\ submitter.pc = "reclaim" /\ submitter'.pc = "requeue"
        /\ submitter'.tx = submitter.tx /\ submitter' \in Submitter
    BY <1>2 DEF BootReclaim, recording, network, process, OutboxTypeOK, Submitter, Booting
  <2>2. DOMAIN outbox' = DOMAIN outbox /\ outbox' \in [DOMAIN outbox' -> Row]
    BY <1>2, UpdateTyped DEF BootReclaim
  <2>3. OutboxTypeOK'
    BY <2>1, <2>2 DEF OutboxTypeOK, Submitting
  <2>4. \A t \in DOMAIN outbox :
          IF outbox[t].status = "submitting"
          THEN outbox'[t].status = "pending" /\ outbox'[t].attempts = outbox[t].attempts
               /\ outbox'[t].block = outbox[t].block /\ outbox'[t].tx = outbox[t].tx
          ELSE outbox'[t] = outbox[t]
    <3>1. \A t \in DOMAIN outbox :
            outbox'[t] = IF outbox[t].status = "submitting" THEN Reclaimed(outbox[t]) ELSE outbox[t]
      BY <1>2 DEF BootReclaim, Update, Rows
    <3>2. \A t \in DOMAIN outbox : outbox[t] \in Row
      BY DEF OutboxTypeOK
    <3> QED
      BY <3>1, <3>2, RowsFields
  <2>5. AttemptsSpent' /\ RowsFit' /\ Rows("confirmed")' = Rows("confirmed")
    BY <2>2, <2>4 DEF AttemptsSpent, RowsFit, Rows
  <2>6. LedgerHonest'
    BY <2>1, <2>2, <2>4, <2>5 DEF LedgerHonest, Rows, Booting
  <2> QED
    BY <2>1, <2>3, <2>5, <2>6 DEF BatchIsHeld, EntryFits, AwaitedFits, Submitting
<1>3. CASE BootRequeue
  <2>1. UNCHANGED <<done, proofs, recorder, chain, flight, target, boots>>
        /\ submitter.pc = "requeue" /\ submitter'.pc = "poll"
        /\ submitter'.tx = submitter.tx /\ submitter' \in Submitter
    BY <1>3 DEF BootRequeue, recording, network, process, OutboxTypeOK, Submitter, Booting
  <2>2. DOMAIN outbox' = DOMAIN outbox /\ outbox' \in [DOMAIN outbox' -> Row]
    BY <1>3, UpdateTyped DEF BootRequeue
  <2>3. OutboxTypeOK'
    BY <2>1, <2>2 DEF OutboxTypeOK, Submitting
  <2>4. \A t \in DOMAIN outbox :
          IF outbox[t].status = "confirmed" /\ target \in Ephemeral /\ outbox[t].chain = target
          THEN outbox'[t].status = "pending" /\ outbox'[t].attempts = 0
               /\ outbox'[t].block = 0 /\ outbox'[t].tx = 0
          ELSE outbox'[t] = outbox[t]
    <3>1. \A t \in DOMAIN outbox :
            outbox'[t] = IF /\ outbox[t].status = "confirmed"
                            /\ target \in Ephemeral /\ outbox[t].chain = target
                         THEN Requeued(outbox[t]) ELSE outbox[t]
      BY <1>3 DEF BootRequeue, ToRequeue, Update, Rows
    <3>2. \A t \in DOMAIN outbox : outbox[t] \in Row
      BY DEF OutboxTypeOK
    <3> QED
      BY <3>1, <3>2, RowsFields
  <2>5. AttemptsSpent' /\ RowsFit'
    BY <2>2, <2>4, OutboxAssumption DEF AttemptsSpent, RowsFit
  <2>6. LedgerHonest'
    BY <2>1, <2>2, <2>4 DEF LedgerHonest, Rows, Booting
  <2> QED
    BY <2>1, <2>3, <2>5, <2>6 DEF BatchIsHeld, EntryFits, AwaitedFits, Submitting
<1> QED
  BY <1>1, <1>2, <1>3 DEF BootStep
\* A claim takes pending rows only, and a reclaim happens with no batch in hand.
LEMMA ClaimKeeps ==
  ASSUME OutboxInv, Claim \/ ReclaimStuck
  PROVE  OutboxInv'
<1> USE DEF OutboxInv
<1>1. UNCHANGED <<done, proofs, recorder, chain, flight, target, boots>>
      /\ submitter.pc = "poll" /\ target \in Chains
  BY DEF Claim, ReclaimStuck, recording, network, process, OutboxTypeOK
<1>2. CASE Claim
  <2>1. PICK T \in SUBSET Due :
          Update(T, Claimed) /\ submitter' = [submitter EXCEPT !.pc = "submit", !.batch = T]
    BY <1>2 DEF Claim
  <2>2. DOMAIN outbox' = DOMAIN outbox /\ outbox' \in [DOMAIN outbox' -> Row]
    BY <2>1, UpdateTyped
  <2>3. T \subseteq DOMAIN outbox /\ T \subseteq Tasks
    BY DEF Due, Rows, OutboxTypeOK
  <2>4. submitter' \in Submitter /\ submitter'.pc = "submit" /\ submitter'.batch = T
        /\ submitter'.tx = submitter.tx
    BY <2>1, <2>3 DEF OutboxTypeOK, Submitter, Submitting
  <2>5. OutboxTypeOK'
    BY <1>1, <2>2, <2>3, <2>4 DEF OutboxTypeOK, Submitting
  <2>6. \A t \in DOMAIN outbox :
          IF t \in T
          THEN outbox[t].status = "pending" /\ outbox'[t].status = "submitting"
               /\ outbox'[t].attempts = outbox[t].attempts
               /\ outbox'[t].block = outbox[t].block /\ outbox'[t].tx = outbox[t].tx
          ELSE outbox'[t] = outbox[t]
    BY <2>1 DEF Update, Claimed, Due, Rows, OutboxTypeOK, Row
  <2>7. AttemptsSpent' /\ RowsFit'
    BY <2>2, <2>6 DEF AttemptsSpent, RowsFit
  <2>8. LedgerHonest'
    BY <1>1, <2>2, <2>4, <2>6 DEF LedgerHonest, Rows, Booting
  <2>9. BatchIsHeld'
    BY <2>2, <2>3, <2>4, <2>6 DEF BatchIsHeld, Rows
  <2> QED
    BY <1>1, <2>4, <2>5, <2>7, <2>8, <2>9 DEF EntryFits, AwaitedFits
<1>3. CASE ReclaimStuck
  <2>1. Update(Stuck, Reclaimed) /\ submitter' = submitter
    BY <1>3 DEF ReclaimStuck
  <2>2. DOMAIN outbox' = DOMAIN outbox /\ outbox' \in [DOMAIN outbox' -> Row]
    BY <2>1, UpdateTyped
  <2>3. OutboxTypeOK'
    BY <1>1, <2>1, <2>2 DEF OutboxTypeOK, Submitting
  <2>4. \A t \in DOMAIN outbox :
          IF t \in Stuck
          THEN outbox[t].status = "submitting" /\ outbox'[t].status = "pending"
               /\ outbox'[t].attempts = outbox[t].attempts
               /\ outbox'[t].block = outbox[t].block /\ outbox'[t].tx = outbox[t].tx
          ELSE outbox'[t] = outbox[t]
    <3>1. \A t \in DOMAIN outbox :
            outbox'[t] = IF t \in Stuck THEN Reclaimed(outbox[t]) ELSE outbox[t]
      BY <2>1 DEF Update
    <3>2. \A t \in DOMAIN outbox : outbox[t] \in Row
      BY DEF OutboxTypeOK
    <3>3. \A t \in Stuck : outbox[t].status = "submitting"
      BY DEF Stuck, Rows
    <3> QED
      BY <3>1, <3>2, <3>3, RowsFields
  <2>5. AttemptsSpent' /\ RowsFit'
    BY <2>2, <2>4 DEF AttemptsSpent, RowsFit
  <2>6. LedgerHonest'
    BY <1>1, <2>1, <2>2, <2>4 DEF LedgerHonest, Rows, Booting
  <2> QED
    BY <1>1, <2>1, <2>3, <2>5, <2>6 DEF BatchIsHeld, EntryFits, AwaitedFits, Submitting
<1> QED
  BY <1>2, <1>3

\* A step of the client writes no row and moves no block.
LEMMA ClientKeeps ==
  ASSUME OutboxInv,
         (\E t \in Tasks : Submit(t)) \/ Receipt \/ Resend \/ GiveUp
  PROVE  OutboxInv'
<1> USE DEF OutboxInv
<1>1. UNCHANGED <<done, proofs, recorder, outbox, chain, target, boots>>
  BY DEF Submit, SubmitFails, AlreadyRecorded, Broadcast, Receipt, Resend, GiveUp,
         recording, network, process
<1>2. submitter.pc \in {"submit", "wait"} /\ target \in Chains
      /\ submitter.batch \subseteq Rows("submitting")
  BY DEF Submit, SubmitFails, AlreadyRecorded, Broadcast, Receipt, Resend, GiveUp, Takes,
         OutboxTypeOK, Submitting, BatchIsHeld
<1>3. ASSUME /\ submitter' \in Submitter
             /\ submitter'.pc \in Submitting
             /\ submitter'.batch = submitter.batch
             /\ submitter'.entry \in submitter.batch
             /\ flight' \in [Chains -> SUBSET Transactions]
             /\ EntryFits'
             /\ AwaitedFits'
      PROVE  OutboxInv'
  <2>1. OutboxTypeOK'
    BY <1>1, <1>2, <1>3 DEF OutboxTypeOK, Rows
  <2> QED
    BY <1>1, <1>2, <1>3, <2>1
    DEF BatchIsHeld, AttemptsSpent, LedgerHonest, RowsFit, Rows, Booting, Submitting
<1>4. ASSUME NEW t \in Tasks, SubmitFails(t) PROVE OutboxInv'
  <2>1. flight' = flight /\ submitter.pc = "submit" /\ t \in submitter.batch
        /\ submitter' = [submitter EXCEPT !.pc = "fail", !.entry = t]
    BY <1>4 DEF SubmitFails, Takes, network
  <2> QED
    BY <1>1, <1>3, <2>1
    DEF OutboxTypeOK, Submitter, Submitting, EntryFits, AwaitedFits
<1>5. ASSUME NEW t \in Tasks, AlreadyRecorded(t) PROVE OutboxInv'
  <2>1. PICK b \in {0, chain[target][t]} :
          submitter' = [submitter EXCEPT !.pc = "confirm", !.entry = t, !.block = b, !.tx = 0]
    BY <1>5 DEF AlreadyRecorded
  <2>2. flight' = flight /\ submitter.pc = "submit" /\ t \in submitter.batch
        /\ t \in DOMAIN chain[target]
    BY <1>5 DEF AlreadyRecorded, Takes, network
  <2>3. b \in Nat
    BY <1>2, <2>2 DEF OutboxTypeOK
  <2>4. submitter' \in Submitter /\ submitter'.pc = "confirm" /\ submitter'.entry = t
        /\ submitter'.block = b /\ submitter'.tx = 0 /\ submitter'.batch = submitter.batch
    BY <2>1, <2>3 DEF OutboxTypeOK, Submitter, Submitting
  <2>5. EntryFits' /\ AwaitedFits'
    BY <1>1, <2>2, <2>4 DEF EntryFits, AwaitedFits
  <2> QED
    BY <1>3, <2>2, <2>4, <2>5 DEF OutboxTypeOK, Submitting
<1>6. ASSUME NEW t \in Tasks, Broadcast(t) PROVE OutboxInv'
  <2>1. flight' = [flight EXCEPT ![target] = @ \cup {<<t, "awaited">>}]
        /\ submitter.pc = "submit" /\ t \in submitter.batch
        /\ submitter' = [submitter EXCEPT !.pc = "wait", !.entry = t]
    BY <1>6 DEF Broadcast, Takes
  <2>2. submitter' \in Submitter /\ submitter'.pc = "wait" /\ submitter'.entry = t
        /\ submitter'.tx = 0 /\ submitter'.batch = submitter.batch
    BY <2>1 DEF OutboxTypeOK, Submitter, Submitting, EntryFits
  <2>3. flight' \in [Chains -> SUBSET Transactions]
    BY <1>2, <2>1 DEF OutboxTypeOK, Transactions
  <2>4. \A c \in Chains, u \in Tasks :
          <<u, "awaited">> \in flight'[c] => c = target /\ u = t
    BY <1>2, <2>1 DEF OutboxTypeOK, AwaitedFits
  <2>5. EntryFits' /\ AwaitedFits'
    BY <1>1, <2>2, <2>4 DEF EntryFits, AwaitedFits
  <2> QED
    BY <1>3, <2>1, <2>2, <2>3, <2>5 DEF Submitting
<1>7. CASE Receipt
  <2>1. flight' = flight /\ submitter.pc = "wait" /\ submitter.tx # 0
        /\ submitter' = [submitter EXCEPT !.pc = "confirm", !.block = submitter.tx]
    BY <1>7 DEF Receipt, network
  <2>2. submitter' \in Submitter /\ submitter'.pc = "confirm" /\ submitter'.tx = submitter.tx
        /\ submitter'.entry = submitter.entry /\ submitter'.block = submitter.tx
        /\ submitter'.batch = submitter.batch
    BY <2>1 DEF OutboxTypeOK, Submitter, Submitting
  <2>3. EntryFits' /\ AwaitedFits'
    BY <1>1, <2>1, <2>2 DEF EntryFits, AwaitedFits
  <2> QED
    BY <1>3, <2>1, <2>2, <2>3 DEF OutboxTypeOK, Submitting
<1>8. CASE Resend
  <2>1. flight' = [flight EXCEPT ![target] =
                     Abandon(flight[target]) \cup {<<submitter.entry, "awaited">>}]
        /\ submitter' = submitter /\ submitter.pc = "wait" /\ submitter.tx = 0
    BY <1>8 DEF Resend
  <2>2. submitter.entry \in Tasks /\ submitter.entry \in submitter.batch
    BY <2>1 DEF OutboxTypeOK, Submitter
  <2>3. flight[target] \in SUBSET Transactions
    BY <1>2 DEF OutboxTypeOK
  <2>4. flight' \in [Chains -> SUBSET Transactions]
    BY <1>2, <2>1, <2>2, <2>3, AbandonTyped DEF OutboxTypeOK, Transactions
  <2>5. \A c \in Chains, u \in Tasks :
          <<u, "awaited">> \in flight'[c] => c = target /\ u = submitter.entry
    BY <1>2, <2>1, <2>3, AbandonTyped DEF OutboxTypeOK, AwaitedFits
  <2>6. EntryFits' /\ AwaitedFits'
    BY <1>1, <2>1, <2>5 DEF EntryFits, AwaitedFits
  <2> QED
    BY <1>3, <2>1, <2>2, <2>4, <2>6 DEF OutboxTypeOK, Submitting
<1>9. CASE GiveUp
  <2>1. flight' = [flight EXCEPT ![target] = Abandon(flight[target])]
        /\ submitter.pc = "wait"
        /\ submitter' = [submitter EXCEPT !.pc = "fail", !.tx = 0]
    BY <1>9 DEF GiveUp
  <2>2. submitter' \in Submitter /\ submitter'.pc = "fail" /\ submitter'.tx = 0
        /\ submitter'.entry = submitter.entry /\ submitter'.batch = submitter.batch
    BY <2>1 DEF OutboxTypeOK, Submitter, Submitting
  <2>3. flight[target] \in SUBSET Transactions
    BY <1>2 DEF OutboxTypeOK
  <2>4. flight' \in [Chains -> SUBSET Transactions]
    BY <1>2, <2>1, <2>3, AbandonTyped DEF OutboxTypeOK
  <2>5. \A c \in Chains, u \in Tasks : <<u, "awaited">> \notin flight'[c]
    BY <1>2, <2>1, <2>3, AbandonTyped DEF OutboxTypeOK, AwaitedFits
  <2>6. EntryFits' /\ AwaitedFits'
    BY <2>2, <2>5 DEF EntryFits, AwaitedFits
  <2> QED
    BY <1>3, <2>1, <2>2, <2>4, <2>6 DEF OutboxTypeOK, Submitting
<1> QED
  BY <1>4, <1>5, <1>6, <1>7, <1>8, <1>9 DEF Submit
\* A mined proof stays in its block; the loop learns of it if it waits for it.
LEMMA MineKeeps ==
  ASSUME OutboxInv, NEW c \in Chains, NEW x \in Transactions, Mine(c, x)
  PROVE  OutboxInv'
<1> USE DEF OutboxInv
<1> DEFINE next == Cardinality(DOMAIN chain[c]) + 1
<1>1. UNCHANGED <<done, proofs, recorder, outbox, target, boots>>
      /\ x \in flight[c] /\ flight' = [flight EXCEPT ![c] = flight[c] \ {x}]
  BY DEF Mine, recording, process
<1>2. flight' \in [Chains -> SUBSET Transactions]
      /\ \A d \in Chains : flight'[d] \subseteq flight[d] /\ x \notin flight'[c]
  BY <1>1 DEF OutboxTypeOK
<1>3. CASE x[1] \in DOMAIN chain[c]
  <2>1. UNCHANGED <<chain, submitter>>
    BY <1>3 DEF Mine
  <2>2. OutboxTypeOK'
    BY <1>1, <1>2, <2>1 DEF OutboxTypeOK
  <2>3. AwaitedFits'
    BY <1>1, <1>2, <2>1 DEF AwaitedFits
  <2> QED
    BY <1>1, <2>1, <2>2, <2>3
    DEF BatchIsHeld, AttemptsSpent, LedgerHonest, EntryFits, RowsFit, Rows
<1>4. CASE x[1] \notin DOMAIN chain[c]
  <2>1. x[1] \in Tasks /\ x[2] \in {"awaited", "abandoned"} /\ x = <<x[1], x[2]>>
    BY DEF Transactions
  <2>2. next \in Nat \ {0}
    BY BlockTyped
  <2>3. chain' = [chain EXCEPT ![c] = [u \in DOMAIN chain[c] \cup {x[1]} |->
                                         IF u = x[1] THEN next ELSE chain[c][u]]]
        /\ submitter' = [submitter EXCEPT !.tx = IF x[2] = "awaited" THEN next
                                                 ELSE submitter.tx]
    BY <1>4 DEF Mine
  <2> HIDE DEF next
  <2>4. /\ chain'[c] = [u \in DOMAIN chain[c] \cup {x[1]} |->
                          IF u = x[1] THEN next ELSE chain[c][u]]
        /\ \A d \in Chains : d # c => chain'[d] = chain[d]
        /\ DOMAIN chain' = Chains
    BY <2>3 DEF OutboxTypeOK
  <2>5. \A d \in Chains : /\ DOMAIN chain'[d] \subseteq Tasks
                          /\ chain'[d] \in [DOMAIN chain'[d] -> Nat \ {0}]
    <3>1. DOMAIN chain'[c] = DOMAIN chain[c] \cup {x[1]}
      BY <2>4
    <3>2. DOMAIN chain'[c] \subseteq Tasks
      BY <2>1, <3>1 DEF OutboxTypeOK
    <3>3. chain'[c] \in [DOMAIN chain'[c] -> Nat \ {0}]
      BY <2>2, <2>4 DEF OutboxTypeOK
    <3> QED
      BY <2>4, <3>2, <3>3 DEF OutboxTypeOK
  <2>6. \A d \in Chains : \A u \in DOMAIN chain[d] :
          u \in DOMAIN chain'[d] /\ chain'[d][u] = chain[d][u]
    BY <1>4, <2>4
  <2>7. submitter' \in Submitter /\ submitter'.pc = submitter.pc
        /\ submitter'.batch = submitter.batch /\ submitter'.entry = submitter.entry
        /\ submitter'.block = submitter.block
        /\ submitter'.tx = IF x[2] = "awaited" THEN next ELSE submitter.tx
    BY <2>2, <2>3 DEF OutboxTypeOK, Submitter
  <2>8. OutboxTypeOK'
    BY <1>1, <1>2, <2>4, <2>5, <2>7 DEF OutboxTypeOK
  <2>9. x[2] = "awaited" => submitter.pc = "wait" /\ submitter.tx = 0
                            /\ submitter.entry = x[1] /\ target = c
    BY <1>1, <2>1 DEF AwaitedFits
  <2>10. EntryFits'
    <3>1. CASE x[2] = "awaited"
      <4>1. x[1] \in DOMAIN chain'[c] /\ chain'[c][x[1]] = next
        BY <2>4
      <4> QED
        BY <1>1, <2>7, <2>9, <3>1, <4>1 DEF EntryFits
    <3>2. CASE x[2] # "awaited"
      <4>1. submitter.pc \in {"wait", "confirm"} => target \in Chains
        BY DEF OutboxTypeOK, Submitting
      <4> QED
        BY <1>1, <2>6, <2>7, <3>2, <4>1 DEF EntryFits
    <3> QED
      BY <3>1, <3>2
  <2>11. AwaitedFits'
    <3> SUFFICES ASSUME NEW d \in Chains, NEW t \in Tasks, <<t, "awaited">> \in flight'[d]
                 PROVE  submitter'.pc = "wait" /\ submitter'.tx = 0
                        /\ submitter'.entry = t /\ target' = d
      BY DEF AwaitedFits
    <3>1. <<t, "awaited">> \in flight[d]
      BY <1>2
    <3>2. submitter.pc = "wait" /\ submitter.tx = 0 /\ submitter.entry = t /\ target = d
      BY <3>1 DEF AwaitedFits
    <3>3. x[2] # "awaited"
      BY <1>2, <2>1, <2>9, <3>2
    <3> QED
      BY <1>1, <2>7, <3>2, <3>3
  <2>12. LedgerHonest'
    <3>1. \A t \in Rows("confirmed") : outbox[t].chain \in Chains
      BY DEF RowsFit, Rows
    <3> QED
      BY <1>1, <2>6, <2>7, <3>1 DEF LedgerHonest, Rows
  <2> QED
    BY <1>1, <2>7, <2>8, <2>10, <2>11, <2>12 DEF BatchIsHeld, AttemptsSpent, RowsFit, Rows
<1> QED
  BY <1>3, <1>4

\* After a mark the loop holds the rest of its batch, and nothing of the entry.
LEMMA ProceedTyped ==
  ASSUME OutboxInv, submitter.pc \in {"confirm", "fail"}, Proceed
  PROVE  /\ submitter' \in Submitter
         /\ submitter'.batch = submitter.batch \ {submitter.entry}
         /\ submitter'.pc \in {"poll", "submit"}
         /\ submitter'.tx = 0
  BY DEF OutboxInv, OutboxTypeOK, Proceed, Submitter, Submitting

\* A mark writes the row of the entry in hand, which is 'submitting'.
LEMMA MarkKeeps ==
  ASSUME OutboxInv, Mark
  PROVE  OutboxInv'
<1> USE DEF OutboxInv
<1> DEFINE t == submitter.entry
<1>1. UNCHANGED <<done, proofs, recorder, chain, flight, target, boots>>
      /\ submitter.pc \in {"confirm", "fail"} /\ Proceed
  BY DEF Mark, MarkConfirmed, MarkFailed, recording, network, process
<1>2. t \in DOMAIN outbox /\ outbox[t].status = "submitting" /\ target \in Chains
      /\ outbox[t] \in Row /\ t \in submitter.batch /\ t \in Tasks
  BY <1>1 DEF OutboxTypeOK, Submitting, BatchIsHeld, Rows
<1>3. outbox[t].block = 0 /\ outbox[t].tx = 0 /\ outbox[t].attempts # MaxProofAttempts
  BY <1>2 DEF RowsFit, AttemptsSpent
<1>4. ASSUME NEW row \in Row, outbox' = [outbox EXCEPT ![t] = row],
             row.status # "submitting",
             row.status = "dead_lettered" <=> row.attempts = MaxProofAttempts,
             IF row.status = "confirmed"
             THEN /\ row.chain = target /\ t \in DOMAIN chain[target]
                  /\ row.block \in {0, chain[target][t]} /\ row.tx \in {0, chain[target][t]}
             ELSE row.block = 0 /\ row.tx = 0
      PROVE  OutboxInv'
  <2>1. DOMAIN outbox' = DOMAIN outbox /\ outbox' \in [DOMAIN outbox' -> Row]
        /\ outbox'[t] = row /\ \A u \in DOMAIN outbox : u # t => outbox'[u] = outbox[u]
    BY <1>2, <1>4 DEF OutboxTypeOK
  <2>2. submitter' \in Submitter /\ submitter'.batch = submitter.batch \ {t}
        /\ submitter'.pc \in {"poll", "submit"} /\ submitter'.tx = 0
    BY <1>1, ProceedTyped
  <2>3. OutboxTypeOK'
    BY <1>1, <1>2, <2>1, <2>2 DEF OutboxTypeOK, Submitting
  <2>4. BatchIsHeld'
    BY <1>1, <2>1, <2>2 DEF BatchIsHeld, Rows, Submitting
  <2>5. AttemptsSpent' /\ RowsFit'
    BY <1>2, <1>4, <2>1 DEF AttemptsSpent, RowsFit
  <2>6. LedgerHonest'
    BY <1>1, <1>4, <2>1, <2>2 DEF LedgerHonest, Rows, Booting
  <2>7. EntryFits' /\ AwaitedFits'
    BY <1>1, <2>2 DEF EntryFits, AwaitedFits
  <2> QED
    BY <2>3, <2>4, <2>5, <2>6, <2>7
<1>5. CASE MarkConfirmed
  <2> DEFINE row == [outbox[t] EXCEPT
                       !.status = "confirmed",
                       !.chain = target,
                       !.block = IF submitter.block # 0 THEN submitter.block ELSE outbox[t].block,
                       !.tx = IF submitter.tx # 0 THEN submitter.tx ELSE outbox[t].tx]
  <2>1. outbox' = [outbox EXCEPT ![t] = row] /\ submitter.pc = "confirm"
    BY <1>2, <1>5 DEF MarkConfirmed, OutboxTypeOK
  <2>2. submitter.block \in Nat /\ submitter.tx \in Nat
    BY DEF OutboxTypeOK, Submitter
  <2>3. row \in Row /\ row.status = "confirmed" /\ row.attempts = outbox[t].attempts
        /\ row.chain = target
        /\ row.block = (IF submitter.block # 0 THEN submitter.block ELSE outbox[t].block)
        /\ row.tx = (IF submitter.tx # 0 THEN submitter.tx ELSE outbox[t].tx)
    BY <1>2, <2>2 DEF Row, Settled
  <2>4. t \in DOMAIN chain[target] /\ submitter.block \in {0, chain[target][t]}
        /\ submitter.tx \in {0, chain[target][t]}
    BY <2>1 DEF EntryFits
  <2> HIDE DEF row
  <2> QED
    BY <1>3, <1>4, <2>1, <2>3, <2>4
<1>6. CASE MarkFailed
  <2> DEFINE n   == outbox[t].attempts + 1
             row == [outbox[t] EXCEPT
                       !.attempts = n,
                       !.status = IF LastAttempt(n) THEN "dead_lettered" ELSE "pending",
                       !.ripe = LastAttempt(n)]
  <2>1. outbox' = [outbox EXCEPT ![t] = row]
    BY <1>2, <1>6 DEF MarkFailed, OutboxTypeOK
  <2>2. n \in 0 .. MaxProofAttempts /\ (LastAttempt(n) <=> n = MaxProofAttempts)
    BY <1>2, <1>3, OutboxAssumption DEF Row, LastAttempt
  <2>3. LastAttempt(n) \in BOOLEAN
    BY DEF LastAttempt
  <2> HIDE DEF n
  <2>4. row \in Row /\ row.attempts = n /\ row.block = outbox[t].block /\ row.tx = outbox[t].tx
        /\ row.status = (IF LastAttempt(n) THEN "dead_lettered" ELSE "pending")
    BY <1>2, <2>2, <2>3 DEF Row, Settled
  <2> HIDE DEF row
  <2> QED
    BY <1>3, <1>4, <2>1, <2>2, <2>4
<1> QED
  BY <1>5, <1>6 DEF Mark

\* A write that fails, time, and another process.
LEMMA RestKeeps ==
  ASSUME OutboxInv, MarkRaises \/ (\E t \in Tasks : TimePasses(t)) \/ Restart
  PROVE  OutboxInv'
<1> USE DEF OutboxInv
<1>1. CASE MarkRaises
  <2>1. UNCHANGED <<done, proofs, recorder, outbox, chain, flight, target, boots>>
        /\ submitter.pc \in {"confirm", "fail"} /\ submitter'.pc = "poll"
        /\ submitter'.tx = 0 /\ submitter' \in Submitter
    BY <1>1 DEF MarkRaises, recording, network, process, OutboxTypeOK, Submitter
  <2>2. OutboxTypeOK'
    BY <2>1 DEF OutboxTypeOK, Submitting
  <2> QED
    BY <2>1, <2>2
    DEF BatchIsHeld, AttemptsSpent, LedgerHonest, EntryFits, AwaitedFits, RowsFit, Rows,
        Booting, Submitting
<1>2. ASSUME NEW t \in Tasks, TimePasses(t) PROVE OutboxInv'
  <2>1. UNCHANGED <<done, proofs, recorder, submitter, chain, flight, target, boots>>
        /\ t \in DOMAIN outbox /\ outbox' = [outbox EXCEPT ![t].ripe = TRUE]
    BY <1>2 DEF TimePasses, Rows, recording, network, process
  <2>2. \A u \in DOMAIN outbox :
          /\ outbox'[u] \in Row
          /\ outbox'[u].status = outbox[u].status /\ outbox'[u].attempts = outbox[u].attempts
          /\ outbox'[u].chain = outbox[u].chain
          /\ outbox'[u].block = outbox[u].block /\ outbox'[u].tx = outbox[u].tx
    <3>1. \A r \in Row : LET ripened == [r EXCEPT !.ripe = TRUE] IN
            /\ ripened \in Row
            /\ ripened.status = r.status /\ ripened.attempts = r.attempts
            /\ ripened.chain = r.chain /\ ripened.block = r.block /\ ripened.tx = r.tx
      BY DEF Row
    <3>2. \A u \in DOMAIN outbox : outbox[u] \in Row
      BY DEF OutboxTypeOK
    <3>3. \A u \in DOMAIN outbox :
            outbox'[u] = IF u = t THEN [outbox[u] EXCEPT !.ripe = TRUE] ELSE outbox[u]
      BY <2>1 DEF OutboxTypeOK
    <3> QED
      BY <3>1, <3>2, <3>3
  <2>3. DOMAIN outbox' = DOMAIN outbox /\ outbox' \in [DOMAIN outbox' -> Row]
    BY <2>1, <2>2 DEF OutboxTypeOK
  <2>4. OutboxTypeOK'
    BY <2>1, <2>3 DEF OutboxTypeOK
  <2> QED
    BY <2>1, <2>2, <2>3, <2>4
    DEF BatchIsHeld, AttemptsSpent, LedgerHonest, EntryFits, AwaitedFits, RowsFit, Rows
<1>3. CASE Restart
  <2>1. UNCHANGED <<done, proofs, outbox>> /\ target' \in Chains \cup {None} /\ boots' \in Nat
        /\ recorder' \in [Tasks -> {"idle", "check", "insert", "enqueue"}]
    BY <1>3 DEF Restart, OutboxTypeOK
  <2>2. submitter' \in Submitter /\ submitter'.pc = "backfill" /\ submitter'.tx = 0
    BY <1>3 DEF Restart, Boot, Submitter, Booting, OutboxTypeOK
  <2>3. /\ DOMAIN chain' = Chains
        /\ \A c \in Chains : chain'[c] = IF c \in Ephemeral THEN EmptyChain ELSE chain[c]
    BY <1>3 DEF Restart
  <2>4. DOMAIN EmptyChain = {} /\ EmptyChain \in [DOMAIN EmptyChain -> Nat \ {0}]
    BY DEF EmptyChain
  <2>5. \A c \in Chains : /\ DOMAIN chain'[c] \subseteq Tasks
                          /\ chain'[c] \in [DOMAIN chain'[c] -> Nat \ {0}]
    BY <2>3, <2>4 DEF OutboxTypeOK
  <2>6. /\ DOMAIN flight' = Chains
        /\ flight' \in [Chains -> SUBSET Transactions]
        /\ \A c \in Chains, u \in Tasks : <<u, "awaited">> \notin flight'[c]
    BY <1>3, AbandonTyped DEF Restart, OutboxTypeOK
  <2>7. OutboxTypeOK'
    BY <2>1, <2>2, <2>3, <2>5, <2>6 DEF OutboxTypeOK, Submitting
  <2>8. LedgerHonest'
    <3>1. \A t \in Rows("confirmed") : outbox[t].chain \in Chains
      BY DEF RowsFit, Rows
    <3> QED
      BY <2>1, <2>2, <2>3, <3>1 DEF LedgerHonest, Rows, Booting
  <2> QED
    BY <2>1, <2>2, <2>6, <2>7, <2>8
    DEF BatchIsHeld, AttemptsSpent, EntryFits, AwaitedFits, RowsFit, Rows, Submitting
<1> QED
  BY <1>1, <1>2, <1>3

-----------------------------------------------------------------------------
(* Theorems *)

LEMMA OutboxStep == OutboxInv /\ [Next]_vars => OutboxInv'
<1> SUFFICES ASSUME OutboxInv, [Next]_vars PROVE OutboxInv'
  OBVIOUS
<1>1. CASE \E t \in Tasks : Finish(t) \/ RecorderStep(t)
  BY <1>1, RecorderKeeps
<1>2. CASE BootStep
  BY <1>2, BootKeeps
<1>3. CASE Claim \/ ReclaimStuck
  BY <1>3, ClaimKeeps
<1>4. CASE (\E t \in Tasks : Submit(t)) \/ Receipt \/ Resend \/ GiveUp
  BY <1>4, ClientKeeps
<1>5. CASE \E c \in Chains, x \in Transactions : Mine(c, x)
  BY <1>5, MineKeeps
<1>6. CASE Mark
  BY <1>6, MarkKeeps
<1>7. CASE MarkRaises \/ (\E t \in Tasks : TimePasses(t)) \/ Restart
  BY <1>7, RestKeeps
<1>8. CASE UNCHANGED vars
  BY <1>8
  DEF vars, OutboxInv, OutboxTypeOK, BatchIsHeld, AttemptsSpent, LedgerHonest, EntryFits,
      AwaitedFits, RowsFit, Rows
<1> QED
  BY <1>1, <1>2, <1>3, <1>4, <1>5, <1>6, <1>7, <1>8 DEF Next

\* What the loop holds in memory always fits the rows and the chain, whatever is
\* lost, late or restarted (chain_submit_loop).
THEOREM OutboxSafe == Spec => []OutboxInv
<1> QED
  BY OutboxInit, OutboxStep, PTL DEF Spec

\* Every variable keeps its type, and the entry in hand is of the batch, whose entries have
\* rows (chain_submit_loop).
THEOREM TypesTheorem == Spec => []OutboxTypeOK
<1>1. OutboxInv => OutboxTypeOK
  BY DEF OutboxInv
<1> QED
  BY OutboxSafe, <1>1, PTL

\* What the loop has in hand is claimed by nobody else and given back by nobody
\* (claim_due_proofs, reclaim_stuck_proofs).
THEOREM BatchTheorem == Spec => []BatchIsHeld
<1>1. OutboxInv => BatchIsHeld
  BY DEF OutboxInv
<1> QED
  BY OutboxSafe, <1>1, PTL

\* A confirmed row is on its chain, in the block and by the transaction it names
\* (mark_proof_confirmed, requeue_proofs_for_chain).
THEOREM LedgerTheorem == Spec => []LedgerHonest
<1>1. OutboxInv => LedgerHonest
  BY DEF OutboxInv
<1> QED
  BY OutboxSafe, <1>1, PTL

\* Dead letters are those, and only those, whose attempts are spent
\* (mark_proof_failed).
THEOREM AttemptsTheorem == Spec => []AttemptsSpent
<1>1. OutboxInv => AttemptsSpent
  BY DEF OutboxInv
<1> QED
  BY OutboxSafe, <1>1, PTL

\* What a step can do to a settled row: nothing, unless the boot requeues a local
\* confirmation.
LEMMA SettledStep ==
  ASSUME OutboxInv, [Next]_vars, NEW t \in DOMAIN outbox, outbox[t].status \in Settled,
         outbox'[t] # outbox[t]
  PROVE  /\ outbox[t].status = "confirmed"
         /\ outbox[t].chain \in Ephemeral
         /\ submitter.pc = "requeue"
<1>1. outbox' # outbox
  OBVIOUS
<1>2. CASE \E u \in Tasks : EnqueueProof(u)
  BY <1>2 DEF EnqueueProof
<1>3. CASE BootReclaim
  BY <1>3 DEF BootReclaim, Update, Rows, Settled
<1>4. CASE BootRequeue
  BY <1>4 DEF BootRequeue, ToRequeue, Update, Rows
<1>5. CASE Claim
  BY <1>5 DEF Claim, Update, Due, Rows, Settled
<1>6. CASE ReclaimStuck
  BY <1>6 DEF ReclaimStuck, Update, Stuck, Rows, Settled
<1>7. CASE Mark
  <2>1. submitter.entry \in Rows("submitting")
    BY <1>7
    DEF Mark, MarkConfirmed, MarkFailed, OutboxInv, OutboxTypeOK, BatchIsHeld, Submitting
  <2>2. t # submitter.entry
    BY <2>1 DEF Rows, Settled
  <2>3. outbox'[t] = outbox[t]
    BY <1>7, <2>2 DEF Mark, MarkConfirmed, MarkFailed, OutboxInv, OutboxTypeOK
  <2> QED
    BY <2>3
<1>8. CASE \E u \in Tasks : TimePasses(u)
  BY <1>8 DEF TimePasses, Rows, Settled, OutboxInv, OutboxTypeOK
<1> QED
  BY <1>1, <1>2, <1>3, <1>4, <1>5, <1>6, <1>7, <1>8
  DEF Next, vars, Finish, RecorderStep, CheckProof, InsertProof, BootStep, Backfill, StartLoop,
      Submit, SubmitFails, AlreadyRecorded, Broadcast, Mine, Receipt, Resend, GiveUp,
      MarkRaises, Restart

\* No step of any process touches a dead letter.
THEOREM DeadTheorem == Spec => DeadStaysDead
<1>1. ASSUME OutboxInv, [Next]_vars
      PROVE  [\A t \in Rows("dead_lettered") : outbox'[t] = outbox[t]]_vars
  BY <1>1, SettledStep DEF Rows, Settled
<1> QED
  BY OutboxSafe, <1>1, PTL DEF Spec, DeadStaysDead

\* A confirmation outlives everything but the chain it is on.
THEOREM ConfirmedTheorem == Spec => ConfirmedForGood
<1>1. ASSUME OutboxInv, [Next]_vars
      PROVE  [\A t \in Rows("confirmed") : outbox'[t] # outbox[t] =>
                outbox[t].chain \in Ephemeral /\ submitter.pc = "requeue"]_vars
  BY <1>1, SettledStep DEF Rows, Settled
<1> QED
  BY OutboxSafe, <1>1, PTL DEF Spec, ConfirmedForGood

-----------------------------------------------------------------------------
(* The ends of a set of numbers *)

LEMMA LeastExists ==
  ASSUME NEW T \in SUBSET Nat, T # {}
  PROVE  \E i \in T : \A j \in T : i <= j
<1> SUFFICES ASSUME \A i \in T : \E j \in T : j < i PROVE FALSE
  OBVIOUS
<1>1. PICK n \in T : TRUE
  OBVIOUS
<1> DEFINE Above == {k \in 0 .. n : \E j \in T : j <= k}
           down == [k \in Above |-> k - 1]
<1>2. IsFiniteSet(Above)
  <2>1. IsFiniteSet(0 .. n) /\ Above \in SUBSET (0 .. n)
    BY FS_Interval
  <2> QED
    BY <2>1, FS_Subset
<1>3. ASSUME NEW k \in Above PROVE k \in Int /\ k - 1 \in Above
  <2>1. PICK j \in T : j <= k
    OBVIOUS
  <2>2. PICK m \in T : m < j
    OBVIOUS
  <2>3. k \in 0 .. n /\ m \in Nat /\ j \in Nat
    OBVIOUS
  <2>4. k - 1 \in 0 .. n /\ m <= k - 1
    BY <2>1, <2>2, <2>3
  <2> QED
    BY <2>4
<1>4. n \in Above /\ \A k \in Above : k - 1 # n
  <2>1. \A k \in Above : k \in 0 .. n
    OBVIOUS
  <2> QED
    BY <1>1, <2>1
<1> HIDE DEF Above
<1>5. down \in Injection(Above, Above)
  <2>1. down \in [Above -> Above]
    BY <1>3
  <2>2. ASSUME NEW a \in Above, NEW b \in Above, down[a] = down[b] PROVE a = b
    BY <1>3, <2>2
  <2> HIDE DEF down
  <2> QED
    BY <2>1, <2>2 DEF Injection, IsInjective
<1>6. down \in Surjection(Above, Above)
  BY <1>2, <1>5, FS_Injection
<1>7. PICK k \in Above : down[k] = n
  BY <1>4, <1>6 DEF Surjection
<1> QED
  BY <1>4, <1>7

LEMMA LargestExists ==
  ASSUME NEW n \in Nat, NEW T \in SUBSET (1 .. n), T # {}
  PROVE  \E i \in T : \A j \in T : j <= i
<1> DEFINE Short == {n - i : i \in T}
<1>1. \A i \in T : i \in Nat /\ n - i \in Nat
  OBVIOUS
<1>2. Short \in SUBSET Nat /\ Short # {}
  BY <1>1
<1>3. PICK k \in Short : \A l \in Short : k <= l
  <2> HIDE DEF Short
  <2> QED
    BY <1>2, LeastExists
<1>4. PICK i \in T : k = n - i
  BY <1>3
<1>5. ASSUME NEW j \in T PROVE j <= i
  <2>1. n - j \in Short
    OBVIOUS
  <2>2. n - i <= n - j
    BY <1>3, <1>4, <2>1
  <2>3. i \in Nat /\ j \in Nat
    BY <1>1
  <2> QED
    BY <2>2, <2>3
<1> QED
  BY <1>5

-----------------------------------------------------------------------------
(* Self-heal: the invariant *)

\* From the insert of its row until the row is linked or abandoned a coroutine has it
\* to itself.
Owning == {"number", "spawn", "link", "abandon"}

TriggerFits(t) ==
  /\ t.goal \in DOMAIN goals /\ t.end <= goals[t.goal].ends
  /\ t.pc \in {"look", "bump", "record"} => MayBeHealed(t.goal)
  /\ t.pc = "bump" => t.attempt \in DOMAIN attempts /\ attempts[t.attempt].bug = t.bug
  /\ t.pc = "record" => /\ t.known <= Len(attempts)
                        /\ \A a \in DOMAIN attempts : attempts[a].bug = t.bug => t.known < a
  /\ t.pc \in Owning => /\ t.attempt \in DOMAIN attempts
                        /\ attempts[t.attempt].fix = 0
                        /\ attempts[t.attempt].outcome = "none"
  /\ t.pc = "link" => t.fix \in DOMAIN goals

\* A failure has one coroutine, and a row one owner.
TriggersApart ==
  /\ \A t, u \in triggers : t.goal = u.goal /\ t.end = u.end => t = u
  /\ \A t, u \in triggers : t.pc \in Owning /\ u.pc \in Owning /\ t.attempt = u.attempt => t = u

\* A verdict on its way is one its goal had, and goes to the attempt it was made for.
SettleFits(s) ==
  /\ s.goal \in DOMAIN goals /\ s.status \in goals[s.goal].was
  /\ s.attempt # 0 => s.attempt \in DOMAIN attempts /\ attempts[s.attempt].fix = s.goal

FixFits(row) == row.fix # 0 => row.fix \in DOMAIN goals

RowEarned(row) ==
  /\ row.outcome = "fixed" => row.fix # 0 /\ "COMPLETED" \in goals[row.fix].was
  /\ row.outcome = "failed" => row.fix # 0 /\ "FAILED" \in goals[row.fix].was
  /\ row.outcome = "abandoned" => row.fix = 0

RowsFitGoals == \A a \in DOMAIN attempts : FixFits(attempts[a]) /\ RowEarned(attempts[a])

HealInv ==
  /\ HealTypeOK /\ IsFiniteSet(triggers)
  /\ \A t \in triggers : TriggerFits(t)
  /\ TriggersApart
  /\ \A s \in settles : SettleFits(s)
  /\ RowsFitGoals
  /\ DuplicatesOverlap

-----------------------------------------------------------------------------
(* The tables grow *)

LEMMA GoalsTyped ==
  ASSUME HealInv
  PROVE  /\ goals \in Seq(Goal) /\ Len(goals) \in Nat /\ DOMAIN goals = 1 .. Len(goals)
         /\ \A g \in DOMAIN goals : goals[g] \in Goal /\ goals[g].ends \in Nat
<1>1. /\ goals \in Seq(Goal) /\ Len(goals) \in Nat /\ DOMAIN goals = 1 .. Len(goals)
      /\ \A g \in DOMAIN goals : goals[g] \in Goal
  BY LenProperties, ElementOfSeq DEF HealInv, HealTypeOK
<1>2. \A goal \in Goal : goal.ends \in Nat
  BY DEF Goal
<1> QED
  BY <1>1, <1>2

LEMMA AttemptsTyped ==
  ASSUME HealInv
  PROVE  /\ attempts \in Seq(Attempt) /\ Len(attempts) \in Nat
         /\ DOMAIN attempts = 1 .. Len(attempts)
         /\ \A a \in DOMAIN attempts : attempts[a] \in Attempt
  BY LenProperties, ElementOfSeq DEF HealInv, HealTypeOK

GoalsGo ==
  /\ goals' \in Seq(Goal) /\ Len(goals) <= Len(goals')
  /\ \A g \in DOMAIN goals : /\ goals'[g].depth = goals[g].depth
                             /\ goals[g].ends <= goals'[g].ends
                             /\ goals[g].was \subseteq goals'[g].was

LEMMA GoalsStay ==
  ASSUME HealInv, UNCHANGED goals PROVE GoalsGo
  BY GoalsTyped DEF GoalsGo, Goal

LEMMA GoalsGrow ==
  ASSUME HealInv, NEW goal \in Goal, Create(goal)
  PROVE  GoalsGo /\ Len(goals') = Len(goals) + 1
<1>1. goals' = Append(goals, goal)
  BY DEF Create
<1>2. /\ goals' \in Seq(Goal) /\ Len(goals') = Len(goals) + 1
      /\ \A g \in 1 .. Len(goals) : goals'[g] = goals[g]
  BY <1>1, GoalsTyped, AppendProperties
<1>3. \A g \in DOMAIN goals : goals'[g] = goals[g] /\ goals[g].ends <= goals[g].ends
  BY <1>2, GoalsTyped
<1> QED
  BY <1>2, <1>3, GoalsTyped DEF GoalsGo

LEMMA GoalEnds ==
  ASSUME HealInv, NEW g, NEW status \in {"COMPLETED", "FAILED"}, NEW told \in BOOLEAN,
         Ended(g, status, told)
  PROVE  /\ GoalsGo /\ g \in DOMAIN goals /\ DOMAIN goals' = DOMAIN goals
         /\ goals'[g].ends = goals[g].ends + 1 /\ status \in goals'[g].was
<1>1. g \in DOMAIN goals
  BY DEF Ended
<1>2. PICK old \in Goal : old = goals[g]
  BY <1>1, GoalsTyped
<1>3. PICK new : new = [old EXCEPT !.ends = @ + 1, !.was = @ \cup {status},
                                  !.told = @ \/ told]
  OBVIOUS
<1>4. /\ new \in Goal /\ new.depth = old.depth /\ new.ends = old.ends + 1
      /\ new.was = old.was \cup {status}
  <2>1. /\ old.depth \in Nat /\ old.issue \in Nat /\ old.ends \in Nat
        /\ old.was \in SUBSET {"COMPLETED", "FAILED"} /\ old.told \in BOOLEAN
        /\ old = [depth |-> old.depth, issue |-> old.issue, ends |-> old.ends,
                  was |-> old.was, told |-> old.told]
    BY DEF Goal
  <2>2. PICK heard \in BOOLEAN : heard = (old.told \/ told)
    BY <2>1
  <2>3. new = [old EXCEPT !.ends = @ + 1, !.was = @ \cup {status}, !.told = heard]
    BY <1>3, <2>2
  <2>4. new = [depth |-> old.depth, issue |-> old.issue, ends |-> old.ends + 1,
               was |-> old.was \cup {status}, told |-> heard]
    BY <2>1, <2>3
  <2>5. old.ends + 1 \in Nat /\ old.was \cup {status} \in SUBSET {"COMPLETED", "FAILED"}
    BY <2>1
  <2> QED
    BY <2>1, <2>2, <2>4, <2>5 DEF Goal
<1>5. goals' = [goals EXCEPT ![g].ends = @ + 1, ![g].was = @ \cup {status},
                             ![g].told = @ \/ told]
  BY DEF Ended
<1>6. goals' = [goals EXCEPT ![g] = new]
  BY <1>1, <1>2, <1>3, <1>5, GoalsTyped
<1>7. /\ goals' \in Seq(Goal) /\ Len(goals') = Len(goals)
      /\ \A h \in 1 .. Len(goals) : goals'[h] = IF h = g THEN new ELSE goals[h]
  BY <1>1, <1>4, <1>6, GoalsTyped, ExceptSeq
<1>8. \A h \in DOMAIN goals : /\ goals'[h].depth = goals[h].depth
                              /\ goals[h].ends <= goals'[h].ends
                              /\ goals[h].was \subseteq goals'[h].was
  <2> SUFFICES ASSUME NEW h \in DOMAIN goals
               PROVE  /\ goals'[h].depth = goals[h].depth
                      /\ goals[h].ends <= goals'[h].ends
                      /\ goals[h].was \subseteq goals'[h].was
    OBVIOUS
  <2>1. CASE h = g
    BY <1>1, <1>2, <1>4, <1>7, <2>1, GoalsTyped
  <2>2. CASE h # g
    BY <1>7, <2>2, GoalsTyped
  <2> QED
    BY <2>1, <2>2
<1>9. DOMAIN goals' = DOMAIN goals
  BY <1>7, GoalsTyped, LenProperties
<1> QED
  BY <1>1, <1>2, <1>4, <1>7, <1>8, <1>9, GoalsTyped DEF GoalsGo

\* A row keeps its bug and what was known of it, and rows are only added.
AttemptsGo ==
  /\ attempts' \in Seq(Attempt) /\ Len(attempts) <= Len(attempts')
  /\ \A a \in DOMAIN attempts : /\ attempts'[a].bug = attempts[a].bug
                                /\ attempts'[a].known = attempts[a].known

\* What was right about a coroutine stays right unless its own row changes.
LEMMA TriggerStays ==
  ASSUME HealInv, GoalsGo, AttemptsGo, NEW t \in triggers,
         t.pc \in Owning => /\ attempts'[t.attempt].fix = 0
                            /\ attempts'[t.attempt].outcome = "none"
  PROVE  TriggerFits(t)'
<1>1. /\ t \in Trigger /\ TriggerFits(t)
      /\ t.goal \in Nat /\ t.end \in Nat /\ t.known \in Nat /\ t.attempt \in Nat /\ t.fix \in Nat
  BY DEF HealInv, HealTypeOK, Trigger
<1>2. /\ DOMAIN goals = 1 .. Len(goals) /\ DOMAIN goals' = 1 .. Len(goals')
      /\ Len(goals) \in Nat /\ Len(goals') \in Nat /\ Len(goals) <= Len(goals')
      /\ DOMAIN goals \subseteq DOMAIN goals'
  BY GoalsTyped, LenProperties DEF GoalsGo
<1>3. /\ DOMAIN attempts = 1 .. Len(attempts) /\ DOMAIN attempts' = 1 .. Len(attempts')
      /\ Len(attempts) \in Nat /\ Len(attempts') \in Nat /\ Len(attempts) <= Len(attempts')
      /\ DOMAIN attempts \subseteq DOMAIN attempts'
  BY AttemptsTyped, LenProperties DEF AttemptsGo
<1>4. t.goal \in DOMAIN goals' /\ t.end <= goals'[t.goal].ends
  <2>1. t.goal \in DOMAIN goals /\ t.end <= goals[t.goal].ends
    BY <1>1 DEF TriggerFits
  <2>2. goals[t.goal].ends \in Nat /\ goals'[t.goal].ends \in Nat
    <3>1. goals'[t.goal] \in Goal
      BY <1>2, <2>1, ElementOfSeq DEF GoalsGo
    <3> QED
      BY <2>1, <3>1, GoalsTyped DEF Goal
  <2> QED
    BY <1>1, <1>2, <2>1, <2>2 DEF GoalsGo
<1>5. t.pc \in {"look", "bump", "record"} => MayBeHealed(t.goal)'
  BY <1>1 DEF TriggerFits, MayBeHealed, GoalsGo
<1>6. t.pc = "bump" => t.attempt \in DOMAIN attempts' /\ attempts'[t.attempt].bug = t.bug
  BY <1>1, <1>3 DEF TriggerFits, AttemptsGo
<1>7. ASSUME t.pc = "record"
      PROVE  /\ t.known <= Len(attempts')
             /\ \A a \in DOMAIN attempts' : attempts'[a].bug = t.bug => t.known < a
  <2>1. /\ t.known <= Len(attempts)
        /\ \A a \in DOMAIN attempts : attempts[a].bug = t.bug => t.known < a
    BY <1>1, <1>7 DEF TriggerFits
  <2>2. ASSUME NEW a \in DOMAIN attempts', attempts'[a].bug = t.bug PROVE t.known < a
    <3>1. CASE a \in DOMAIN attempts
      BY <2>1, <2>2, <3>1 DEF AttemptsGo
    <3>2. CASE a \notin DOMAIN attempts
      BY <1>1, <1>3, <2>1, <3>2
    <3> QED
      BY <3>1, <3>2
  <2> QED
    BY <1>1, <1>3, <2>1, <2>2
<1>8. t.pc \in Owning => /\ t.attempt \in DOMAIN attempts'
                         /\ attempts'[t.attempt].fix = 0
                         /\ attempts'[t.attempt].outcome = "none"
  BY <1>1, <1>3 DEF TriggerFits
<1>9. t.pc = "link" => t.fix \in DOMAIN goals'
  BY <1>1, <1>2 DEF TriggerFits
<1> QED
  BY <1>4, <1>5, <1>6, <1>7, <1>8, <1>9 DEF TriggerFits

LEMMA SettleStays ==
  ASSUME HealInv, GoalsGo, AttemptsGo, NEW s \in settles,
         s.attempt # 0 => attempts'[s.attempt].fix = attempts[s.attempt].fix
  PROVE  SettleFits(s)'
<1>1. SettleFits(s)
  BY DEF HealInv
<1>2. DOMAIN goals \subseteq DOMAIN goals' /\ DOMAIN attempts \subseteq DOMAIN attempts'
  BY GoalsTyped, AttemptsTyped, LenProperties DEF GoalsGo, AttemptsGo
<1> QED
  BY <1>1, <1>2 DEF SettleFits, GoalsGo

LEMMA RowStays ==
  ASSUME HealInv, GoalsGo, NEW row \in Attempt, FixFits(row), RowEarned(row)
  PROVE  FixFits(row)' /\ RowEarned(row)'
<1>1. DOMAIN goals \subseteq DOMAIN goals'
  BY GoalsTyped, LenProperties DEF GoalsGo
<1>2. ASSUME row.fix # 0
      PROVE  row.fix \in DOMAIN goals /\ goals[row.fix].was \subseteq goals'[row.fix].was
  BY <1>2 DEF FixFits, GoalsGo
<1> QED
  BY <1>1, <1>2 DEF FixFits, RowEarned

\* A step that leaves the attempts alone.
LEMMA RowsStay ==
  ASSUME HealInv, GoalsGo, UNCHANGED attempts
  PROVE  /\ AttemptsGo /\ RowsFitGoals' /\ DuplicatesOverlap'
         /\ \A t \in triggers : TriggerFits(t)'
         /\ \A s \in settles : SettleFits(s)'
<1>1. AttemptsGo
  BY AttemptsTyped DEF AttemptsGo
<1>2. RowsFitGoals'
  <2> SUFFICES ASSUME NEW a \in DOMAIN attempts
               PROVE  (FixFits(attempts[a]) /\ RowEarned(attempts[a]))'
    BY DEF RowsFitGoals
  <2>1. PICK row \in Attempt : row = attempts[a]
    BY AttemptsTyped
  <2>2. FixFits(row) /\ RowEarned(row)
    BY <2>1 DEF HealInv, RowsFitGoals
  <2>3. FixFits(row)' /\ RowEarned(row)'
    BY <2>2, RowStays
  <2>4. attempts'[a] = row
    BY <2>1
  <2> QED
    BY <2>3, <2>4 DEF FixFits, RowEarned
<1>3. DuplicatesOverlap'
  BY DEF HealInv, DuplicatesOverlap
<1>4. ASSUME NEW t \in triggers PROVE TriggerFits(t)'
  <2>1. t.pc \in Owning => /\ attempts'[t.attempt].fix = 0
                           /\ attempts'[t.attempt].outcome = "none"
    BY DEF HealInv, TriggerFits
  <2> QED
    BY <1>1, <2>1, TriggerStays
<1>5. ASSUME NEW s \in settles PROVE SettleFits(s)'
  BY <1>1, SettleStays
<1> QED
  BY <1>1, <1>2, <1>3, <1>4, <1>5

\* A step that writes to one row.
LEMMA RowChanges ==
  ASSUME HealInv, UNCHANGED goals, NEW k \in DOMAIN attempts, NEW new \in Attempt,
         new.bug = attempts[k].bug, new.known = attempts[k].known,
         FixFits(new), RowEarned(new), attempts' = [attempts EXCEPT ![k] = new]
  PROVE  /\ AttemptsGo /\ RowsFitGoals' /\ DuplicatesOverlap'
         /\ \A t \in triggers :
              (t.pc \in Owning /\ t.attempt = k => new.fix = 0 /\ new.outcome = "none")
                => TriggerFits(t)'
         /\ \A s \in settles : (s.attempt = k => new.fix = attempts[k].fix) => SettleFits(s)'
<1>0. GoalsGo
  BY GoalsStay
<1>1. /\ attempts' \in Seq(Attempt) /\ Len(attempts') = Len(attempts)
      /\ \A a \in 1 .. Len(attempts) : attempts'[a] = IF a = k THEN new ELSE attempts[a]
  BY AttemptsTyped, ExceptSeq
<1>2. AttemptsGo /\ DOMAIN attempts' = DOMAIN attempts
  BY <1>1, AttemptsTyped, LenProperties DEF AttemptsGo
<1>3. RowsFitGoals'
  <2> SUFFICES ASSUME NEW a \in DOMAIN attempts
               PROVE  (FixFits(attempts[a]) /\ RowEarned(attempts[a]))'
    BY <1>2 DEF RowsFitGoals
  <2>1. PICK row \in Attempt : row = attempts'[a]
    BY <1>1, AttemptsTyped
  <2>2. row = new \/ row = attempts[a]
    BY <1>1, <2>1, AttemptsTyped
  <2>3. FixFits(row) /\ RowEarned(row)
    BY <2>2 DEF HealInv, RowsFitGoals
  <2>4. FixFits(row)' /\ RowEarned(row)'
    BY <1>0, <2>3, RowStays
  <2> QED
    BY <2>1, <2>4 DEF FixFits, RowEarned
<1>4. DuplicatesOverlap'
  BY <1>2 DEF HealInv, DuplicatesOverlap, AttemptsGo
<1>5. ASSUME NEW t \in triggers,
             t.pc \in Owning /\ t.attempt = k => new.fix = 0 /\ new.outcome = "none"
      PROVE  TriggerFits(t)'
  <2>1. ASSUME t.pc \in Owning
        PROVE  attempts'[t.attempt].fix = 0 /\ attempts'[t.attempt].outcome = "none"
    <3>1. /\ t.attempt \in DOMAIN attempts /\ attempts[t.attempt].fix = 0
          /\ attempts[t.attempt].outcome = "none"
      BY <2>1 DEF HealInv, TriggerFits
    <3> QED
      BY <1>1, <1>5, <2>1, <3>1, AttemptsTyped
  <2> QED
    BY <1>0, <1>2, <2>1, TriggerStays
<1>6. ASSUME NEW s \in settles, s.attempt = k => new.fix = attempts[k].fix
      PROVE  SettleFits(s)'
  <2>1. s.attempt # 0 => attempts'[s.attempt].fix = attempts[s.attempt].fix
    BY <1>1, <1>6, AttemptsTyped DEF HealInv, SettleFits
  <2> QED
    BY <1>0, <1>2, <2>1, SettleStays
<1> QED
  BY <1>2, <1>3, <1>4, <1>5, <1>6

-----------------------------------------------------------------------------
(* The coroutines *)

LEMMA GoesOn ==
  ASSUME HealInv, NEW t \in triggers, NEW u \in Trigger, u.goal = t.goal, u.end = t.end,
         Goto(t, u),
         u.pc \in Owning => \/ t.pc \in Owning /\ u.attempt = t.attempt
                            \/ \A v \in triggers : v.pc \in Owning => v.attempt # u.attempt
  PROVE  /\ triggers' \subseteq Trigger /\ IsFiniteSet(triggers') /\ TriggersApart'
         /\ \A v \in triggers' : v = u \/ (v \in triggers /\ v # t)
<1>1. triggers' = (triggers \ {t}) \cup {u}
  BY DEF Goto
<1>2. triggers' \subseteq Trigger
  BY <1>1 DEF HealInv, HealTypeOK
<1>3. IsFiniteSet(triggers')
  <2>1. IsFiniteSet(triggers \ {t})
    BY FS_RemoveElement DEF HealInv
  <2> QED
    BY <1>1, <2>1, FS_AddElement
<1>4. TriggersApart'
  <2>1. TriggersApart
    BY DEF HealInv
  <2>2. ASSUME NEW v \in triggers', NEW w \in triggers', v.goal = w.goal, v.end = w.end
        PROVE  v = w
    BY <1>1, <2>1, <2>2 DEF TriggersApart
  <2>3. ASSUME NEW v \in triggers', NEW w \in triggers', v.pc \in Owning, w.pc \in Owning,
               v.attempt = w.attempt
        PROVE  v = w
    BY <1>1, <2>1, <2>3 DEF TriggersApart
  <2> QED
    BY <2>2, <2>3 DEF TriggersApart
<1> QED
  BY <1>1, <1>2, <1>3, <1>4

LEMMA ComesToAnEnd ==
  ASSUME HealInv, triggers' \subseteq triggers
  PROVE  triggers' \subseteq Trigger /\ IsFiniteSet(triggers') /\ TriggersApart'
<1>1. triggers' \in SUBSET triggers
  OBVIOUS
<1>2. IsFiniteSet(triggers')
  BY <1>1, FS_Subset DEF HealInv
<1>3. triggers' \subseteq Trigger
  BY DEF HealInv, HealTypeOK
<1>4. TriggersApart'
  BY DEF HealInv, TriggersApart
<1> QED
  BY <1>2, <1>3, <1>4

LEMMA HealKeeps ==
  ASSUME HealInv, GoalsGo, AttemptsGo, RowsFitGoals', DuplicatesOverlap',
         issues' \in Seq(0 .. MaxDeliveries),
         triggers' \subseteq Trigger, IsFiniteSet(triggers'), TriggersApart',
         \A t \in triggers' : TriggerFits(t)',
         settles' \subseteq Settle, \A s \in settles' : SettleFits(s)',
         reports' \in [Bugs -> Nat], lost' \in [Bugs -> Nat], faults' \in 0 .. MaxFaults
  PROVE  HealInv'
  BY DEF HealInv, HealTypeOK, GoalsGo, AttemptsGo

\* What a step of one coroutine of trigger does to the rest.
LEMMA TriggerStepKeeps ==
  ASSUME HealInv, GoalsGo, AttemptsGo, RowsFitGoals', DuplicatesOverlap',
         issues' \in Seq(0 .. MaxDeliveries),
         triggers' \subseteq Trigger, IsFiniteSet(triggers'), TriggersApart',
         \A t \in triggers' : TriggerFits(t)', \A s \in settles : SettleFits(s)',
         UNCHANGED <<settles, history>>
  PROVE  HealInv'
<1>1. /\ settles' = settles /\ reports' = reports /\ lost' = lost /\ faults' = faults
      /\ settles \subseteq Settle /\ reports \in [Bugs -> Nat] /\ lost \in [Bugs -> Nat]
      /\ faults \in 0 .. MaxFaults
  BY DEF history, HealInv, HealTypeOK
<1> QED
  BY <1>1, HealKeeps

LEMMA ForgottenTyped ==
  ASSUME HealInv, NEW T \in SUBSET triggers, Forgotten(T)
  PROVE  lost' \in [Bugs -> Nat]
<1>1. IsFiniteSet(T)
  BY FS_Subset DEF HealInv
<1>2. ASSUME NEW b \in Bugs
      PROVE  lost[b] + Cardinality({t \in T : t.bug = b /\ Unrecorded(t)}) \in Nat
  <2>1. {t \in T : t.bug = b /\ Unrecorded(t)} \in SUBSET T
    OBVIOUS
  <2>2. Cardinality({t \in T : t.bug = b /\ Unrecorded(t)}) \in Nat
    BY <1>1, <2>1, FS_Subset, FS_CardinalityType
  <2>3. lost[b] \in Nat
    BY DEF HealInv, HealTypeOK
  <2> QED
    BY <2>2, <2>3
<1> QED
  BY <1>2 DEF Forgotten

LEMMA LargestOf ==
  ASSUME HealInv, NEW T \in SUBSET DOMAIN attempts, T # {}
  PROVE  Max(T) \in T
<1>1. \E i \in T : \A j \in T : j <= i
  BY LargestExists, AttemptsTyped
<1>2. \E i \in T : \A j \in T : i >= j
  BY <1>1, AttemptsTyped
<1> QED
  BY <1>2 DEF Max

LEMMA LeastOf ==
  ASSUME HealInv, NEW T \in SUBSET DOMAIN attempts, T # {}
  PROVE  Min(T) \in T
<1>1. T \in SUBSET Nat
  BY AttemptsTyped
<1>2. \E i \in T : \A j \in T : i <= j
  BY <1>1, LeastExists
<1> QED
  BY <1>2 DEF Min

-----------------------------------------------------------------------------
(* Self-heal: goals *)

LEMMA NewGoalTyped ==
  ASSUME NEW depth \in Nat, NEW issue \in Nat PROVE NewGoal(depth, issue) \in Goal
  BY DEF NewGoal, Goal

LEMMA UserGoalKeeps ==
  ASSUME HealInv, UserGoal PROVE HealInv'
<1>1. GoalsGo
  BY NewGoalTyped, GoalsGrow DEF UserGoal
<1>2. /\ UNCHANGED <<attempts, settles, history>> /\ issues' = issues /\ triggers' = triggers
      /\ issues \in Seq(0 .. MaxDeliveries)
  BY DEF UserGoal, tasks, HealInv, HealTypeOK
<1> QED
  BY <1>1, <1>2, RowsStay, ComesToAnEnd, TriggerStepKeeps

LEMMA IssueOpenedKeeps ==
  ASSUME HealInv, HealAssumption, NEW i, IssueOpened(i) PROVE HealInv'
<1>1. /\ i \in DOMAIN issues /\ issues[i] < MaxDeliveries
      /\ Create(NewGoal(0, i)) /\ issues' = [issues EXCEPT ![i] = @ + 1]
      /\ UNCHANGED <<attempts, settles, history>> /\ triggers' = triggers
  BY DEF IssueOpened, tasks
<1>2. issues \in Seq(0 .. MaxDeliveries) /\ DOMAIN issues = 1 .. Len(issues) /\ i \in Nat
  BY <1>1, LenProperties DEF HealInv, HealTypeOK
<1>3. issues' \in Seq(0 .. MaxDeliveries)
  <2>1. PICK n \in 0 .. MaxDeliveries : n = issues[i]
    BY <1>1, <1>2, ElementOfSeq
  <2>2. n + 1 \in 0 .. MaxDeliveries
    BY <1>1, <2>1 DEF HealAssumption
  <2>3. issues' = [issues EXCEPT ![i] = n + 1]
    BY <1>1, <2>1
  <2> QED
    BY <1>1, <1>2, <2>2, <2>3, ExceptSeq
<1>4. GoalsGo
  BY <1>1, <1>2, NewGoalTyped, GoalsGrow
<1> QED
  BY <1>1, <1>3, <1>4, RowsStay, ComesToAnEnd, TriggerStepKeeps

\* The verdict of a goal that ends is one it had.
LEMMA VerdictFits ==
  ASSUME HealInv, NEW g, NEW status \in {"COMPLETED", "FAILED"}, NEW told \in BOOLEAN,
         Ended(g, status, told), UNCHANGED attempts
  PROVE  settles' \subseteq Settle /\ \A s \in settles' : SettleFits(s)'
<1>1. /\ GoalsGo /\ g \in DOMAIN goals /\ DOMAIN goals' = DOMAIN goals
      /\ status \in goals'[g].was
  BY GoalEnds
<1>2. PICK new : new = [goal |-> g, end |-> goals[g].ends + 1, status |-> status, attempt |-> 0]
  OBVIOUS
<1>3. settles' \subseteq settles \cup {new}
  BY <1>2 DEF Ended
<1>4. new \in Settle
  <2>1. g \in Nat /\ goals[g].ends + 1 \in Nat
    BY <1>1, GoalsTyped
  <2> QED
    BY <1>2, <2>1 DEF Settle
<1>5. SettleFits(new)'
  BY <1>1, <1>2 DEF SettleFits
<1> QED
  BY <1>1, <1>3, <1>4, <1>5, RowsStay DEF HealInv, HealTypeOK

\* The ends that trigger hears nothing of.
LEMMA UntriggeredEnds ==
  ASSUME NEW g, EndsUntriggered(g)
  PROVE  /\ \E status \in {"COMPLETED", "FAILED"}, told \in BOOLEAN : Ended(g, status, told)
         /\ UNCHANGED <<attempts, issues, triggers, history>>
  BY DEF EndsUntriggered, Finishes, EndsUnheard

LEMMA UntriggeredKeeps ==
  ASSUME HealInv, NEW g, EndsUntriggered(g) PROVE HealInv'
<1>1. /\ \E status \in {"COMPLETED", "FAILED"}, told \in BOOLEAN : Ended(g, status, told)
      /\ UNCHANGED <<attempts, history>> /\ issues' = issues /\ triggers' = triggers
  BY UntriggeredEnds
<1>2. GoalsGo
  BY <1>1, GoalEnds
<1>3. settles' \subseteq Settle /\ \A s \in settles' : SettleFits(s)'
  BY <1>1, VerdictFits
<1>4. /\ issues' \in Seq(0 .. MaxDeliveries) /\ reports' \in [Bugs -> Nat]
      /\ lost' \in [Bugs -> Nat] /\ faults' \in 0 .. MaxFaults
  BY <1>1 DEF history, HealInv, HealTypeOK
<1> QED
  BY <1>1, <1>2, <1>3, <1>4, RowsStay, ComesToAnEnd, HealKeeps

Reported(g, error) ==
  [goal |-> g, end |-> goals[g].ends + 1, bug |-> error, pc |-> "depth",
   status |-> "simulated", issue |-> 0, attempt |-> 0, fix |-> 0, known |-> 0]

LEMMA ReportedFits ==
  ASSUME HealInv, NEW g, NEW error \in Bugs, NEW told \in BOOLEAN, Ended(g, "FAILED", told),
         NEW new, new = Reported(g, error)
  PROVE  /\ new \in Trigger /\ new.goal = g /\ new.end = goals[g].ends + 1
         /\ new.bug = error /\ new.pc = "depth"
         /\ TriggerFits(new)' /\ \A t \in triggers : ~ (t.goal = new.goal /\ t.end = new.end)
<1>1. /\ g \in DOMAIN goals /\ DOMAIN goals' = DOMAIN goals
      /\ goals'[g].ends = goals[g].ends + 1
  BY GoalEnds
<1>2. g \in Nat /\ goals[g].ends \in Nat
  BY <1>1, GoalsTyped
<1>3. /\ new \in Trigger /\ new.goal = g /\ new.end = goals[g].ends + 1
      /\ new.bug = error /\ new.pc = "depth"
  BY <1>2 DEF Reported, Trigger
<1>4. TriggerFits(new)'
  <2>1. new.goal \in DOMAIN goals' /\ new.end <= goals'[new.goal].ends
    BY <1>1, <1>2, <1>3
  <2> QED
    BY <1>3, <2>1 DEF TriggerFits, Owning
<1>5. ASSUME NEW t \in triggers, t.goal = new.goal PROVE t.end # new.end
  <2>1. t.end \in Nat /\ t.end <= goals[g].ends
    BY <1>3, <1>5 DEF HealInv, HealTypeOK, Trigger, TriggerFits
  <2> QED
    BY <1>2, <1>3, <2>1
<1> QED
  BY <1>3, <1>4, <1>5

LEMMA FailsKeeps ==
  ASSUME HealInv, NEW g, NEW error \in Bugs \cup {External}, Fails(g, error)
  PROVE  HealInv'
<1>1. PICK told \in BOOLEAN :
        /\ Ended(g, "FAILED", told) /\ UNCHANGED attempts
        /\ issues' = issues /\ lost' = lost /\ faults' = faults
  BY DEF Fails
<1>2. GoalsGo
  BY <1>1, GoalEnds
<1>3. settles' \subseteq Settle /\ \A s \in settles' : SettleFits(s)'
  BY <1>1, VerdictFits
<1>4. /\ issues' \in Seq(0 .. MaxDeliveries) /\ lost' \in [Bugs -> Nat]
      /\ faults' \in 0 .. MaxFaults /\ reports \in [Bugs -> Nat]
  BY <1>1 DEF HealInv, HealTypeOK
<1>5. CASE error \in Bugs
  <2>1. PICK new : new = Reported(g, error)
    OBVIOUS
  <2>2. triggers' = triggers \cup {new}
    BY <1>5, <2>1 DEF Fails, IsBug, Reported
  <2>3. /\ new \in Trigger /\ new.pc = "depth" /\ TriggerFits(new)'
        /\ \A t \in triggers : ~ (t.goal = new.goal /\ t.end = new.end)
    BY <1>1, <1>5, <2>1, ReportedFits
  <2>4. triggers' \subseteq Trigger /\ IsFiniteSet(triggers')
    BY <2>2, <2>3, FS_AddElement DEF HealInv, HealTypeOK
  <2>5. TriggersApart'
    <3>1. TriggersApart
      BY DEF HealInv
    <3>2. \A t, u \in triggers' : t.goal = u.goal /\ t.end = u.end => t = u
      BY <2>2, <2>3, <3>1 DEF TriggersApart
    <3>3. new.pc \notin Owning
      BY <2>3 DEF Owning
    <3>4. \A t, u \in triggers' :
            t.pc \in Owning /\ u.pc \in Owning /\ t.attempt = u.attempt => t = u
      BY <2>2, <3>1, <3>3 DEF TriggersApart
    <3> QED
      BY <3>2, <3>4 DEF TriggersApart
  <2>6. \A t \in triggers' : TriggerFits(t)'
    BY <1>1, <1>2, <2>2, <2>3, RowsStay
  <2>7. reports' \in [Bugs -> Nat]
    <3>1. PICK n \in Nat : n = reports[error] + (IF MayBeHealed(g) THEN 1 ELSE 0)
      BY <1>4, <1>5
    <3>2. reports' = [reports EXCEPT ![error] = n]
      BY <1>5, <3>1 DEF Fails, IsBug
    <3> QED
      BY <1>4, <3>2
  <2> QED
    BY <1>1, <1>2, <1>3, <1>4, <2>4, <2>5, <2>6, <2>7, RowsStay, HealKeeps
<1>6. CASE error \notin Bugs
  <2>1. triggers' = triggers /\ reports' = reports
    BY <1>6 DEF Fails, IsBug
  <2> QED
    BY <1>1, <1>2, <1>3, <1>4, <2>1, RowsStay, ComesToAnEnd, HealKeeps
<1> QED
  BY <1>5, <1>6

-----------------------------------------------------------------------------
(* Self-heal: coroutines of trigger *)

\* The fields of a coroutine.
LEMMA TriggerTyped ==
  ASSUME NEW t \in Trigger
  PROVE  /\ t.goal \in Nat /\ t.end \in Nat /\ t.bug \in Bugs
         /\ t.pc \in {"depth", "look", "bump", "record", "number", "spawn", "link", "abandon"}
         /\ t.status \in {"filed", "simulated"} /\ t.issue \in Nat
         /\ t.attempt \in Nat /\ t.fix \in Nat /\ t.known \in Nat
         /\ t = [goal |-> t.goal, end |-> t.end, bug |-> t.bug, pc |-> t.pc, status |-> t.status,
                 issue |-> t.issue, attempt |-> t.attempt, fix |-> t.fix, known |-> t.known]
  BY DEF Trigger

LEMMA ATrigger ==
  ASSUME HealInv, NEW t \in triggers
  PROVE  t \in Trigger /\ TriggerFits(t)
  BY DEF HealInv, HealTypeOK

LEMMA CheckDepthKeeps ==
  ASSUME HealInv, NEW t \in triggers, CheckDepth(t) PROVE HealInv'
<1>1. /\ t.pc = "depth" /\ UNCHANGED <<goals, attempts, settles, history>> /\ issues' = issues
      /\ issues \in Seq(0 .. MaxDeliveries)
  BY DEF CheckDepth, tables, HealInv, HealTypeOK
<1>2. GoalsGo
  BY <1>1, GoalsStay
<1>3. CASE MayBeHealed(t.goal)
  <2>1. PICK u : u = [t EXCEPT !.pc = "look"]
    OBVIOUS
  <2>2. /\ u \in Trigger /\ u.goal = t.goal /\ u.end = t.end /\ u.pc = "look"
    BY <2>1, ATrigger, TriggerTyped DEF Trigger
  <2>3. Goto(t, u)
    BY <1>3, <2>1 DEF CheckDepth
  <2>4. u.pc \notin Owning
    BY <2>2 DEF Owning
  <2>5. /\ triggers' \subseteq Trigger /\ IsFiniteSet(triggers') /\ TriggersApart'
        /\ \A v \in triggers' : v = u \/ (v \in triggers /\ v # t)
    BY <2>2, <2>3, <2>4, GoesOn
  <2>6. TriggerFits(u)'
    <3>1. TriggerFits(t)' /\ MayBeHealed(u.goal)'
      BY <1>1, <1>2, <1>3, <2>2, RowsStay DEF MayBeHealed
    <3> QED
      BY <2>2, <2>4, <3>1 DEF TriggerFits
  <2> QED
    BY <1>1, <1>2, <2>5, <2>6, RowsStay, TriggerStepKeeps
<1>4. CASE ~ MayBeHealed(t.goal)
  <2>1. triggers' \subseteq triggers
    BY <1>4 DEF CheckDepth, Ends
  <2> QED
    BY <1>1, <1>2, <2>1, ComesToAnEnd, RowsStay, TriggerStepKeeps
<1> QED
  BY <1>3, <1>4

LEMMA LiveRows ==
  ASSUME HealInv, NEW b
  PROVE  Live(b) = {a \in DOMAIN attempts : attempts[a].bug = b}
<1>1. \A row \in Attempt : row.status \in {"filed", "simulated"}
  BY DEF Attempt
<1> QED
  BY <1>1, AttemptsTyped DEF Live

LEMMA FindDuplicateKeeps ==
  ASSUME HealInv, NEW t \in triggers, FindDuplicate(t) PROVE HealInv'
<1>1. /\ t.pc = "look" /\ UNCHANGED <<goals, attempts, settles, history>> /\ issues' = issues
      /\ issues \in Seq(0 .. MaxDeliveries)
  BY DEF FindDuplicate, tables, HealInv, HealTypeOK
<1>2. GoalsGo
  BY <1>1, GoalsStay
<1>3. PICK k : k = Max(Live(t.bug))
  OBVIOUS
<1>4. k \in DOMAIN attempts /\ attempts[k].bug = t.bug
  <2>1. Live(t.bug) \in SUBSET DOMAIN attempts /\ Live(t.bug) # {}
    BY LiveRows DEF FindDuplicate
  <2>2. k \in Live(t.bug)
    BY <1>3, <2>1, LargestOf
  <2> QED
    BY <2>2, LiveRows
<1>5. PICK u : u = [t EXCEPT !.pc = "bump", !.attempt = k]
  OBVIOUS
<1>6. /\ u \in Trigger /\ u.goal = t.goal /\ u.end = t.end /\ u.pc = "bump"
      /\ u.bug = t.bug /\ u.attempt = k
  <2>1. k \in Nat
    BY <1>4, AttemptsTyped
  <2> QED
    BY <1>5, <2>1, ATrigger, TriggerTyped DEF Trigger
<1>7. Goto(t, u)
  BY <1>3, <1>5 DEF FindDuplicate
<1>8. u.pc \notin Owning
  BY <1>6 DEF Owning
<1>9. /\ triggers' \subseteq Trigger /\ IsFiniteSet(triggers') /\ TriggersApart'
      /\ \A v \in triggers' : v = u \/ (v \in triggers /\ v # t)
  BY <1>6, <1>7, <1>8, GoesOn
<1>10. TriggerFits(u)'
  <2>1. TriggerFits(t)' /\ u.attempt \in DOMAIN attempts' /\ attempts'[u.attempt].bug = u.bug
    BY <1>1, <1>2, <1>4, <1>6, RowsStay
  <2> QED
    BY <1>1, <1>6, <1>8, <2>1 DEF TriggerFits, MayBeHealed
<1> QED
  BY <1>1, <1>2, <1>9, <1>10, RowsStay, TriggerStepKeeps

LEMMA FileIssueKeeps ==
  ASSUME HealInv, HealAssumption, NEW t \in triggers, FileIssue(t) PROVE HealInv'
<1>1. /\ t.pc = "look" /\ UNCHANGED <<goals, attempts, settles, history>>
      /\ issues \in Seq(0 .. MaxDeliveries) /\ Len(issues) \in Nat
  BY LenProperties DEF FileIssue, tables, HealInv, HealTypeOK
<1>2. GoalsGo
  BY <1>1, GoalsStay
<1>3. issues' \in Seq(0 .. MaxDeliveries)
  <2>1. issues' = Append(issues, 0) \/ issues' = issues
    BY DEF FileIssue
  <2>2. 0 \in 0 .. MaxDeliveries
    BY DEF HealAssumption
  <2> QED
    BY <1>1, <2>1, <2>2, AppendProperties
<1>4. PICK next : next = [t EXCEPT !.pc = "record", !.known = Len(attempts)]
  OBVIOUS
<1>5. /\ next \in Trigger /\ next.goal = t.goal /\ next.end = t.end /\ next.pc = "record"
      /\ next.bug = t.bug /\ next.known = Len(attempts)
  BY <1>4, ATrigger, TriggerTyped, AttemptsTyped DEF Trigger
<1>6. PICK u : /\ Goto(t, u)
               /\ u = next \/ u = [next EXCEPT !.status = "filed", !.issue = Len(issues) + 1]
  BY <1>4 DEF FileIssue
<1>7. /\ u \in Trigger /\ u.goal = t.goal /\ u.end = t.end /\ u.pc = "record"
      /\ u.bug = t.bug /\ u.known = Len(attempts)
  <2>1. Len(issues) + 1 \in Nat
    BY <1>1
  <2> QED
    BY <1>5, <1>6, <2>1, TriggerTyped DEF Trigger
<1>8. u.pc \notin Owning
  BY <1>7 DEF Owning
<1>9. /\ triggers' \subseteq Trigger /\ IsFiniteSet(triggers') /\ TriggersApart'
      /\ \A v \in triggers' : v = u \/ (v \in triggers /\ v # t)
  BY <1>6, <1>7, <1>8, GoesOn
<1>10. TriggerFits(u)'
  <2>1. TriggerFits(t)'
    BY <1>1, <1>2, RowsStay
  <2>2. \A a \in DOMAIN attempts' : attempts'[a].bug # u.bug
    BY <1>1, <1>7, LiveRows DEF FileIssue
  <2>3. u.known <= Len(attempts')
    BY <1>1, <1>7, AttemptsTyped
  <2> QED
    BY <1>1, <1>7, <1>8, <2>1, <2>2, <2>3 DEF TriggerFits, MayBeHealed
<1> QED
  BY <1>1, <1>2, <1>3, <1>9, <1>10, RowsStay, TriggerStepKeeps

\* The row of a coroutine, and the row a step of it leaves.
LEMMA ARow ==
  ASSUME HealInv, NEW k \in DOMAIN attempts
  PROVE  /\ attempts[k] \in Attempt /\ FixFits(attempts[k]) /\ RowEarned(attempts[k])
         /\ k \in Nat
  BY AttemptsTyped DEF HealInv, RowsFitGoals

LEMMA RowTyped ==
  ASSUME NEW row \in Attempt
  PROVE  /\ row.bug \in Bugs /\ row.goal \in Nat /\ row.status \in {"filed", "simulated"}
         /\ row.issue \in Nat /\ row.fix \in Nat
         /\ row.outcome \in {"none", "fixed", "failed", "abandoned"}
         /\ row.count \in Nat /\ row.known \in Nat
         /\ row = [bug |-> row.bug, goal |-> row.goal, status |-> row.status, issue |-> row.issue,
                   fix |-> row.fix, outcome |-> row.outcome, count |-> row.count,
                   known |-> row.known]
  BY DEF Attempt

LEMMA BumpRecurrenceKeeps ==
  ASSUME HealInv, NEW t \in triggers, BumpRecurrence(t) PROVE HealInv'
<1>1. /\ t.pc = "bump" /\ UNCHANGED <<goals, settles, history>> /\ issues' = issues
      /\ issues \in Seq(0 .. MaxDeliveries)
  BY DEF BumpRecurrence, HealInv, HealTypeOK
<1>2. GoalsGo
  BY <1>1, GoalsStay
<1>3. PICK k \in DOMAIN attempts : k = t.attempt
  BY <1>1, ATrigger DEF TriggerFits
<1>4. PICK row \in Attempt : row = attempts[k]
  BY ARow
<1>5. PICK new : new = [row EXCEPT !.count = @ + 1]
  OBVIOUS
<1>6. /\ new \in Attempt /\ new.bug = row.bug /\ new.known = row.known
      /\ new.fix = row.fix /\ new.outcome = row.outcome
  BY <1>5, RowTyped DEF Attempt
<1>7. FixFits(new) /\ RowEarned(new)
  BY <1>4, <1>6, ARow DEF FixFits, RowEarned
<1>8. attempts' = [attempts EXCEPT ![k] = new]
  BY <1>3, <1>4, <1>5, AttemptsTyped DEF BumpRecurrence
<1>9. /\ AttemptsGo /\ RowsFitGoals' /\ DuplicatesOverlap'
      /\ \A v \in triggers : TriggerFits(v)'
      /\ \A s \in settles : SettleFits(s)'
  <2>1. \A v \in triggers : v.pc \in Owning /\ v.attempt = k => new.fix = 0 /\ new.outcome = "none"
    BY <1>4, <1>6 DEF HealInv, TriggerFits
  <2> QED
    BY <1>1, <1>4, <1>6, <1>7, <1>8, <2>1, RowChanges
<1>10. triggers' \subseteq triggers
  BY DEF BumpRecurrence, Ends
<1> QED
  BY <1>1, <1>2, <1>9, <1>10, ComesToAnEnd, TriggerStepKeeps

LEMMA RecordAttemptKeeps ==
  ASSUME HealInv, NEW t \in triggers, RecordAttempt(t) PROVE HealInv'
<1>1. /\ t.pc = "record" /\ UNCHANGED <<goals, settles, history>> /\ issues' = issues
      /\ issues \in Seq(0 .. MaxDeliveries)
  BY DEF RecordAttempt, HealInv, HealTypeOK
<1>2. GoalsGo
  BY <1>1, GoalsStay
<1>3. PICK row : row = [bug |-> t.bug, goal |-> t.goal, status |-> t.status, issue |-> 0,
                        fix |-> 0, outcome |-> "none", count |-> 1, known |-> t.known]
  OBVIOUS
<1>4. /\ row \in Attempt /\ row.bug = t.bug /\ row.known = t.known /\ row.fix = 0
      /\ row.outcome = "none"
  BY <1>3, ATrigger, TriggerTyped DEF Attempt
<1>5. attempts' = Append(attempts, row)
  BY <1>3 DEF RecordAttempt
<1>6. /\ attempts' \in Seq(Attempt) /\ Len(attempts') = Len(attempts) + 1
      /\ \A a \in 1 .. Len(attempts) : attempts'[a] = attempts[a]
      /\ attempts'[Len(attempts) + 1] = row
  BY <1>4, <1>5, AttemptsTyped, AppendProperties
<1>7. PICK k \in Nat : k = Len(attempts) + 1
  BY AttemptsTyped
<1>8. /\ DOMAIN attempts' = 1 .. k /\ DOMAIN attempts = 1 .. k - 1 /\ k >= 1
      /\ Len(attempts) \in Nat
      /\ \A a \in 1 .. k : a \in DOMAIN attempts \/ a = k
      /\ \A a \in DOMAIN attempts : attempts'[a] = attempts[a] /\ a < k /\ a \in 1 .. k
      /\ attempts'[k] = row
  BY <1>6, <1>7, AttemptsTyped, LenProperties
<1>9. AttemptsGo
  BY <1>6, <1>7, <1>8 DEF AttemptsGo
<1>10. RowsFitGoals'
  <2> SUFFICES ASSUME NEW a \in 1 .. k 
               PROVE  (FixFits(attempts[a]) /\ RowEarned(attempts[a]))'
    BY <1>8 DEF RowsFitGoals
  <2>1. CASE a = k
    BY <1>4, <1>8, <2>1 DEF FixFits, RowEarned
  <2>2. CASE a \in DOMAIN attempts
    <3>1. PICK old \in Attempt : old = attempts[a] /\ FixFits(old) /\ RowEarned(old)
      BY <2>2, ARow
    <3>2. FixFits(old)' /\ RowEarned(old)'
      BY <1>2, <3>1, RowStays
    <3>3. attempts'[a] = old
      BY <1>8, <2>2, <3>1
    <3> QED
      BY <3>2, <3>3 DEF FixFits, RowEarned
  <2> QED
    BY <1>8, <2>1, <2>2
<1>11. DuplicatesOverlap'
  <2> SUFFICES ASSUME NEW a \in 1 .. k, NEW c \in 1 .. k, a < c,
                      attempts'[a].bug = attempts'[c].bug
               PROVE  attempts'[c].known < a
    BY <1>8 DEF DuplicatesOverlap
  <2>1. a \in DOMAIN attempts
    BY <1>8
  <2>2. CASE c \in DOMAIN attempts
    BY <1>8, <2>1, <2>2 DEF HealInv, DuplicatesOverlap
  <2>3. CASE c = k
    BY <1>1, <1>4, <1>8, <2>1, <2>3, ATrigger DEF TriggerFits
  <2> QED
    BY <1>8, <2>2, <2>3
<1>12. \A v \in triggers : TriggerFits(v)'
  <2>1. ASSUME NEW v \in triggers, v.pc \in Owning
        PROVE  attempts'[v.attempt].fix = 0 /\ attempts'[v.attempt].outcome = "none"
    <3>1. /\ v.attempt \in DOMAIN attempts /\ attempts[v.attempt].fix = 0
          /\ attempts[v.attempt].outcome = "none"
      BY <2>1, ATrigger DEF TriggerFits
    <3> QED
      BY <1>8, <3>1
  <2> QED
    BY <1>2, <1>9, <2>1, TriggerStays
<1>13. \A s \in settles : SettleFits(s)'
  <2>1. ASSUME NEW s \in settles, s.attempt # 0
        PROVE  attempts'[s.attempt].fix = attempts[s.attempt].fix
    BY <1>8, <2>1 DEF HealInv, SettleFits
  <2> QED
    BY <1>2, <1>9, <2>1, SettleStays
<1>14. PICK u : u = [t EXCEPT !.pc = IF t.issue = 0 THEN "spawn" ELSE "number", !.attempt = k]
  OBVIOUS
<1>15. /\ u \in Trigger /\ u.goal = t.goal /\ u.end = t.end
       /\ u.pc = "spawn" \/ u.pc = "number"
       /\ u.bug = t.bug /\ u.attempt = k
  <2>1. t.pc = "record" /\ t \in Trigger /\ k \in Nat
    BY <1>1, ATrigger
  <2>2. CASE t.issue = 0
    BY <1>14, <2>1, <2>2, TriggerTyped DEF Trigger
  <2>3. CASE t.issue # 0
    BY <1>14, <2>1, <2>3, TriggerTyped DEF Trigger
  <2> QED
    BY <2>2, <2>3
<1>16. Goto(t, u)
  BY <1>7, <1>14 DEF RecordAttempt
<1>17. /\ triggers' \subseteq Trigger /\ IsFiniteSet(triggers') /\ TriggersApart'
       /\ \A v \in triggers' : v = u \/ (v \in triggers /\ v # t)
  <2>1. \A v \in triggers : v.pc \in Owning => v.attempt # u.attempt
    BY <1>8, <1>15, ATrigger DEF TriggerFits
  <2> QED
    BY <1>15, <1>16, <2>1, GoesOn
<1>18. TriggerFits(u)'
  <2>1. TriggerFits(t)'
    BY <1>12
  <2> QED
    BY <1>4, <1>8, <1>15, <2>1 DEF TriggerFits
<1> QED
  BY <1>1, <1>2, <1>9, <1>10, <1>11, <1>12, <1>13, <1>17, <1>18, TriggerStepKeeps

LEMMA WriteNumberKeeps ==
  ASSUME HealInv, NEW t \in triggers, WriteNumber(t) PROVE HealInv'
<1>1. /\ t.pc = "number" /\ UNCHANGED <<goals, settles, history>> /\ issues' = issues
      /\ issues \in Seq(0 .. MaxDeliveries)
  BY DEF WriteNumber, HealInv, HealTypeOK
<1>2. GoalsGo
  BY <1>1, GoalsStay
<1>3. PICK k \in DOMAIN attempts : /\ k = t.attempt /\ attempts[k].fix = 0
                                   /\ attempts[k].outcome = "none"
  BY <1>1, ATrigger DEF TriggerFits, Owning
<1>4. PICK row \in Attempt : row = attempts[k]
  BY ARow
<1>5. PICK new : new = [row EXCEPT !.issue = t.issue]
  OBVIOUS
<1>6. /\ new \in Attempt /\ new.bug = row.bug /\ new.known = row.known
      /\ new.fix = 0 /\ new.outcome = "none"
  BY <1>3, <1>4, <1>5, ATrigger, TriggerTyped, RowTyped DEF Attempt
<1>7. FixFits(new) /\ RowEarned(new)
  BY <1>6 DEF FixFits, RowEarned
<1>8. attempts' = [attempts EXCEPT ![k] = new]
  BY <1>3, <1>4, <1>5, AttemptsTyped DEF WriteNumber
<1>9. /\ AttemptsGo /\ RowsFitGoals' /\ DuplicatesOverlap'
      /\ \A v \in triggers : TriggerFits(v)'
      /\ \A s \in settles : SettleFits(s)'
  BY <1>1, <1>3, <1>4, <1>6, <1>7, <1>8, RowChanges
<1>10. PICK u : u = [t EXCEPT !.pc = "spawn"]
  OBVIOUS
<1>11. /\ u \in Trigger /\ u.goal = t.goal /\ u.end = t.end /\ u.pc = "spawn"
       /\ u.attempt = t.attempt
  BY <1>10, ATrigger, TriggerTyped DEF Trigger
<1>12. Goto(t, u)
  BY <1>10 DEF WriteNumber
<1>13. /\ triggers' \subseteq Trigger /\ IsFiniteSet(triggers') /\ TriggersApart'
       /\ \A v \in triggers' : v = u \/ (v \in triggers /\ v # t)
  BY <1>1, <1>11, <1>12, GoesOn DEF Owning
<1>14. TriggerFits(u)'
  BY <1>1, <1>9, <1>11 DEF TriggerFits, Owning
<1> QED
  BY <1>1, <1>2, <1>9, <1>13, <1>14, TriggerStepKeeps

LEMMA SpawnFixKeeps ==
  ASSUME HealInv, NEW t \in triggers, SpawnFix(t) PROVE HealInv'
<1>1. /\ t.pc = "spawn" /\ UNCHANGED <<attempts, settles, history>> /\ issues' = issues
      /\ issues \in Seq(0 .. MaxDeliveries)
  BY DEF SpawnFix, HealInv, HealTypeOK
<1>2. PICK depth \in Nat : Create(NewGoal(depth, 0))
  <2>1. t.goal \in DOMAIN goals /\ goals[t.goal].depth \in Nat
    BY ATrigger, GoalsTyped DEF TriggerFits, Goal
  <2> QED
    BY <2>1 DEF SpawnFix
<1>3. GoalsGo /\ Len(goals') = Len(goals) + 1
  BY <1>2, NewGoalTyped, GoalsGrow
<1>4. PICK u : u = [t EXCEPT !.pc = "link", !.fix = Len(goals) + 1]
  OBVIOUS
<1>5. /\ u \in Trigger /\ u.goal = t.goal /\ u.end = t.end /\ u.pc = "link"
      /\ u.attempt = t.attempt /\ u.fix = Len(goals) + 1
  <2>1. Len(goals) + 1 \in Nat
    BY GoalsTyped
  <2> QED
    BY <1>4, <2>1, ATrigger, TriggerTyped DEF Trigger
<1>6. Goto(t, u)
  BY <1>4 DEF SpawnFix
<1>7. /\ triggers' \subseteq Trigger /\ IsFiniteSet(triggers') /\ TriggersApart'
      /\ \A v \in triggers' : v = u \/ (v \in triggers /\ v # t)
  BY <1>1, <1>5, <1>6, GoesOn DEF Owning
<1>8. u.fix \in DOMAIN goals'
  BY <1>3, <1>5, GoalsTyped, LenProperties DEF GoalsGo
<1>9. TriggerFits(u)'
  <2>1. TriggerFits(t)'
    BY <1>1, <1>3, RowsStay
  <2> QED
    BY <1>1, <1>5, <1>8, <2>1 DEF TriggerFits, Owning
<1> QED
  BY <1>1, <1>3, <1>7, <1>9, RowsStay, TriggerStepKeeps

\* The owner of a row writes it and ends.
LEMMA OwnerEnds ==
  ASSUME HealInv, NEW t \in triggers, t.pc \in Owning, UNCHANGED <<goals, settles>>,
         NEW new \in Attempt, new.bug = attempts[t.attempt].bug,
         new.known = attempts[t.attempt].known, FixFits(new), RowEarned(new),
         attempts' = [attempts EXCEPT ![t.attempt] = new], Ends(t)
  PROVE  /\ AttemptsGo /\ RowsFitGoals' /\ DuplicatesOverlap'
         /\ \A v \in triggers' : TriggerFits(v)'
         /\ \A s \in settles : SettleFits(s)'
<1>1. PICK k \in DOMAIN attempts : k = t.attempt /\ attempts[k].fix = 0
  BY ATrigger DEF TriggerFits
<1>2. \A v \in triggers' : v \in triggers /\ v # t
  BY DEF Ends
<1>3. \A v \in triggers' : ~ (v.pc \in Owning /\ v.attempt = k)
  BY <1>1, <1>2 DEF HealInv, TriggersApart
<1>4. \A s \in settles : s.attempt # k
  <2>1. \A s \in settles : SettleFits(s)
    BY DEF HealInv
  <2>2. 0 \notin DOMAIN goals /\ k # 0
    BY GoalsTyped, AttemptsTyped
  <2> QED
    BY <1>1, <2>1, <2>2 DEF SettleFits
<1> QED
  BY <1>1, <1>2, <1>3, <1>4, RowChanges

LEMMA LinkFixKeeps ==
  ASSUME HealInv, NEW t \in triggers, LinkFix(t) PROVE HealInv'
<1>1. /\ t.pc = "link" /\ UNCHANGED <<goals, settles, history>> /\ issues' = issues
      /\ issues \in Seq(0 .. MaxDeliveries) /\ Ends(t)
  BY DEF LinkFix, HealInv, HealTypeOK
<1>2. GoalsGo
  BY <1>1, GoalsStay
<1>3. PICK k \in DOMAIN attempts : /\ k = t.attempt /\ attempts[k].fix = 0
                                   /\ attempts[k].outcome = "none" /\ t.fix \in DOMAIN goals
  BY <1>1, ATrigger DEF TriggerFits, Owning
<1>4. PICK row \in Attempt : row = attempts[k]
  BY ARow
<1>5. PICK new : new = [row EXCEPT !.fix = t.fix]
  OBVIOUS
<1>6. /\ new \in Attempt /\ new.bug = row.bug /\ new.known = row.known
      /\ new.fix = t.fix /\ new.outcome = "none"
  BY <1>3, <1>4, <1>5, ATrigger, TriggerTyped, RowTyped DEF Attempt
<1>7. FixFits(new) /\ RowEarned(new)
  BY <1>3, <1>6 DEF FixFits, RowEarned
<1>8. attempts' = [attempts EXCEPT ![k] = new]
  BY <1>3, <1>4, <1>5, AttemptsTyped DEF LinkFix
<1>9. /\ AttemptsGo /\ RowsFitGoals' /\ DuplicatesOverlap'
      /\ \A v \in triggers' : TriggerFits(v)'
      /\ \A s \in settles : SettleFits(s)'
  BY <1>1, <1>3, <1>4, <1>6, <1>7, <1>8, OwnerEnds DEF Owning
<1>10. triggers' \subseteq triggers
  BY <1>1 DEF Ends
<1> QED
  BY <1>1, <1>2, <1>9, <1>10, ComesToAnEnd, TriggerStepKeeps

LEMMA AbandonAttemptKeeps ==
  ASSUME HealInv, NEW t \in triggers, AbandonAttempt(t) PROVE HealInv'
<1>1. /\ t.pc = "abandon" /\ UNCHANGED <<goals, settles, history>> /\ issues' = issues
      /\ issues \in Seq(0 .. MaxDeliveries) /\ Ends(t)
  BY DEF AbandonAttempt, HealInv, HealTypeOK
<1>2. GoalsGo
  BY <1>1, GoalsStay
<1>3. PICK k \in DOMAIN attempts : k = t.attempt /\ attempts[k].fix = 0
  BY <1>1, ATrigger DEF TriggerFits, Owning
<1>4. PICK row \in Attempt : row = attempts[k]
  BY ARow
<1>5. PICK new : new = [row EXCEPT !.outcome = "abandoned"]
  OBVIOUS
<1>6. /\ new \in Attempt /\ new.bug = row.bug /\ new.known = row.known
      /\ new.fix = 0 /\ new.outcome = "abandoned"
  BY <1>3, <1>4, <1>5, RowTyped DEF Attempt
<1>7. FixFits(new) /\ RowEarned(new)
  BY <1>6 DEF FixFits, RowEarned
<1>8. attempts' = [attempts EXCEPT ![k] = new]
  BY <1>3, <1>4, <1>5, AttemptsTyped DEF AbandonAttempt
<1>9. /\ AttemptsGo /\ RowsFitGoals' /\ DuplicatesOverlap'
      /\ \A v \in triggers' : TriggerFits(v)'
      /\ \A s \in settles : SettleFits(s)'
  BY <1>1, <1>3, <1>4, <1>6, <1>7, <1>8, OwnerEnds DEF Owning
<1>10. triggers' \subseteq triggers
  BY <1>1 DEF Ends
<1> QED
  BY <1>1, <1>2, <1>9, <1>10, ComesToAnEnd, TriggerStepKeeps

LEMMA DatabaseErrorKeeps ==
  ASSUME HealInv, HealAssumption, NEW t \in triggers, DatabaseError(t) PROVE HealInv'
<1>1. /\ UNCHANGED <<goals, attempts, settles, reports>> /\ issues' = issues
      /\ issues \in Seq(0 .. MaxDeliveries) /\ settles \subseteq Settle
      /\ reports \in [Bugs -> Nat] /\ lost \in [Bugs -> Nat]
  BY DEF DatabaseError, tables, HealInv, HealTypeOK
<1>2. GoalsGo
  BY <1>1, GoalsStay
<1>3. faults' \in 0 .. MaxFaults
  BY DEF DatabaseError, HealInv, HealTypeOK, HealAssumption
<1>4. CASE t.pc \in {"spawn", "link"}
  <2>1. PICK u : u = [t EXCEPT !.pc = "abandon"]
    OBVIOUS
  <2>2. /\ u \in Trigger /\ u.goal = t.goal /\ u.end = t.end /\ u.pc = "abandon"
        /\ u.attempt = t.attempt
    BY <2>1, ATrigger, TriggerTyped DEF Trigger
  <2>3. Goto(t, u) /\ lost' = lost
    BY <1>4, <2>1 DEF DatabaseError
  <2>4. t.pc \in Owning
    BY <1>4 DEF Owning
  <2>5. /\ triggers' \subseteq Trigger /\ IsFiniteSet(triggers') /\ TriggersApart'
        /\ \A v \in triggers' : v = u \/ (v \in triggers /\ v # t)
    BY <2>2, <2>3, <2>4, GoesOn
  <2>6. TriggerFits(u)'
    <3>1. TriggerFits(t)'
      BY <1>1, <1>2, RowsStay
    <3> QED
      BY <2>2, <2>4, <3>1 DEF TriggerFits
  <2> QED
    BY <1>1, <1>2, <1>3, <2>3, <2>5, <2>6, RowsStay, HealKeeps
<1>5. CASE t.pc \notin {"spawn", "link"}
  <2>1. triggers' \subseteq triggers /\ Forgotten({t})
    BY <1>5 DEF DatabaseError, Ends
  <2>2. lost' \in [Bugs -> Nat]
    BY <2>1, ForgottenTyped
  <2> QED
    BY <1>1, <1>2, <1>3, <2>1, <2>2, RowsStay, ComesToAnEnd, HealKeeps
<1> QED
  BY <1>4, <1>5

-----------------------------------------------------------------------------
(* Self-heal: verdicts, and the end of the process *)

LEMMA ASettle ==
  ASSUME HealInv, NEW s \in settles
  PROVE  /\ SettleFits(s) /\ s.goal \in Nat /\ s.end \in Nat
         /\ s.status \in {"COMPLETED", "FAILED"} /\ s.attempt \in Nat
         /\ s = [goal |-> s.goal, end |-> s.end, status |-> s.status, attempt |-> s.attempt]
<1>1. SettleFits(s) /\ s \in Settle
  BY DEF HealInv, HealTypeOK
<1> QED
  BY <1>1 DEF Settle

LEMMA FindAttemptKeeps ==
  ASSUME HealInv, NEW s \in settles, FindAttempt(s) PROVE HealInv'
<1>1. /\ UNCHANGED <<goals, attempts, history>> /\ issues' = issues /\ triggers' = triggers
      /\ settles \subseteq Settle /\ issues \in Seq(0 .. MaxDeliveries)
      /\ reports' \in [Bugs -> Nat] /\ lost' \in [Bugs -> Nat] /\ faults' \in 0 .. MaxFaults
  BY DEF FindAttempt, tables, history, HealInv, HealTypeOK
<1>2. GoalsGo
  BY <1>1, GoalsStay
<1>3. CASE FixedBy(s.goal) = {}
  <2>1. settles' \subseteq settles
    BY <1>3 DEF FindAttempt
  <2> QED
    BY <1>1, <1>2, <2>1, RowsStay, ComesToAnEnd, HealKeeps
<1>4. CASE FixedBy(s.goal) # {}
  <2>1. PICK k : k = Min(FixedBy(s.goal))
    OBVIOUS
  <2>2. k \in DOMAIN attempts /\ attempts[k].fix = s.goal
    <3>1. FixedBy(s.goal) \in SUBSET DOMAIN attempts
      BY DEF FixedBy
    <3>2. k \in FixedBy(s.goal)
      BY <1>4, <2>1, <3>1, LeastOf
    <3> QED
      BY <3>2 DEF FixedBy
  <2>3. PICK new : new = [s EXCEPT !.attempt = k]
    OBVIOUS
  <2>4. /\ new \in Settle /\ new.goal = s.goal /\ new.status = s.status /\ new.attempt = k
    <3>1. k \in Nat
      BY <2>2, AttemptsTyped
    <3> QED
      BY <2>3, <3>1, ASettle DEF Settle
  <2>5. settles' = (settles \ {s}) \cup {new}
    BY <1>4, <2>1, <2>3 DEF FindAttempt
  <2>6. SettleFits(new)'
    <3>1. SettleFits(s)'
      BY <1>1, <1>2, RowsStay
    <3> QED
      BY <1>1, <2>2, <2>4, <3>1 DEF SettleFits
  <2> QED
    BY <1>1, <1>2, <2>4, <2>5, <2>6, RowsStay, ComesToAnEnd, HealKeeps
<1> QED
  BY <1>3, <1>4

LEMMA WriteOutcomeKeeps ==
  ASSUME HealInv, NEW s \in settles, WriteOutcome(s) PROVE HealInv'
<1>1. /\ UNCHANGED <<goals, history>> /\ issues' = issues /\ triggers' = triggers
      /\ settles' \subseteq settles /\ settles \subseteq Settle
      /\ issues \in Seq(0 .. MaxDeliveries)
      /\ reports' \in [Bugs -> Nat] /\ lost' \in [Bugs -> Nat] /\ faults' \in 0 .. MaxFaults
  BY DEF WriteOutcome, history, HealInv, HealTypeOK
<1>2. GoalsGo
  BY <1>1, GoalsStay
<1>3. PICK k \in DOMAIN attempts : k = s.attempt /\ attempts[k].fix = s.goal
  BY ASettle DEF WriteOutcome, SettleFits
<1>4. PICK row \in Attempt : row = attempts[k]
  BY ARow
<1>5. PICK new : new = [row EXCEPT !.outcome = OutcomeOf(s.status)]
  OBVIOUS
<1>6. OutcomeOf(s.status) = IF s.status = "COMPLETED" THEN "fixed" ELSE "failed"
  BY DEF OutcomeOf
<1>7. /\ new \in Attempt /\ new.bug = row.bug /\ new.known = row.known
      /\ new.fix = s.goal /\ new.outcome = OutcomeOf(s.status)
  <2>1. OutcomeOf(s.status) \in {"none", "fixed", "failed", "abandoned"}
    BY <1>6
  <2> QED
    BY <1>3, <1>4, <1>5, <2>1, RowTyped DEF Attempt
<1>8. s.goal \in DOMAIN goals /\ s.status \in goals[s.goal].was /\ s.goal # 0
  BY ASettle, GoalsTyped DEF SettleFits
<1>9. FixFits(new) /\ RowEarned(new)
  <2>1. s.status = "COMPLETED" \/ s.status = "FAILED"
    BY ASettle
  <2> QED
    BY <1>6, <1>7, <1>8, <2>1 DEF FixFits, RowEarned
<1>10. attempts' = [attempts EXCEPT ![k] = new]
  BY <1>3, <1>4, <1>5, AttemptsTyped DEF WriteOutcome
<1>11. \A v \in triggers : ~ (v.pc \in Owning /\ v.attempt = k)
  BY <1>3, <1>8, ATrigger DEF TriggerFits
<1>12. /\ AttemptsGo /\ RowsFitGoals' /\ DuplicatesOverlap'
       /\ \A v \in triggers : TriggerFits(v)'
       /\ \A r \in settles : SettleFits(r)'
  BY <1>1, <1>3, <1>4, <1>7, <1>9, <1>10, <1>11, RowChanges
<1> QED
  BY <1>1, <1>2, <1>12, ComesToAnEnd, HealKeeps

LEMMA CrashKeeps ==
  ASSUME HealInv, HealAssumption, Crash PROVE HealInv'
<1>1. /\ UNCHANGED <<goals, attempts, reports>> /\ issues' = issues
      /\ triggers' = {} /\ settles' = {} /\ Forgotten(triggers)
      /\ issues \in Seq(0 .. MaxDeliveries) /\ reports \in [Bugs -> Nat]
  BY DEF Crash, tables, HealInv, HealTypeOK
<1>2. GoalsGo
  BY <1>1, GoalsStay
<1>3. faults' \in 0 .. MaxFaults
  BY DEF Crash, HealInv, HealTypeOK, HealAssumption
<1>4. lost' \in [Bugs -> Nat]
  BY <1>1, ForgottenTyped
<1> QED
  BY <1>1, <1>2, <1>3, <1>4, RowsStay, ComesToAnEnd, HealKeeps

-----------------------------------------------------------------------------
(* Self-heal: the theorems *)

LEMMA HealInvStarts ==
  ASSUME HealAssumption, HealInit PROVE HealInv
<1>1. HealTypeOK
  <2>1. goals \in Seq(Goal)
    BY NewGoalTyped DEF HealInit
  <2> QED
    BY <2>1 DEF HealInit, HealTypeOK, HealAssumption
<1>2. IsFiniteSet(triggers)
  BY FS_EmptySet DEF HealInit
<1> QED
  BY <1>1, <1>2 DEF HealInit, HealInv, TriggersApart, RowsFitGoals, DuplicatesOverlap

LEMMA HealInvKept ==
  ASSUME HealAssumption, HealInv, [HealNext]_healVars PROVE HealInv'
<1>1. CASE UserGoal
  BY <1>1, UserGoalKeeps
<1>2. CASE \E i \in DOMAIN issues : IssueOpened(i)
  BY <1>2, IssueOpenedKeeps
<1>3. CASE \E g \in DOMAIN goals : EndsUntriggered(g) \/ \E e \in Bugs \cup {External} : Fails(g, e)
  BY <1>3, UntriggeredKeeps, FailsKeeps
<1>4. CASE TriggerStep
  <2>1. PICK t \in triggers :
          \/ CheckDepth(t) \/ FindDuplicate(t) \/ FileIssue(t) \/ BumpRecurrence(t)
          \/ RecordAttempt(t) \/ WriteNumber(t) \/ SpawnFix(t) \/ LinkFix(t) \/ AbandonAttempt(t)
    BY <1>4 DEF TriggerStep
  <2> QED
    BY <2>1, CheckDepthKeeps, FindDuplicateKeeps, FileIssueKeeps, BumpRecurrenceKeeps,
       RecordAttemptKeeps, WriteNumberKeeps, SpawnFixKeeps, LinkFixKeeps, AbandonAttemptKeeps
<1>5. CASE SettleStep
  BY <1>5, FindAttemptKeeps, WriteOutcomeKeeps DEF SettleStep
<1>6. CASE \E t \in triggers : DatabaseError(t)
  BY <1>6, DatabaseErrorKeeps
<1>7. CASE Crash
  BY <1>7, CrashKeeps
<1>8. CASE UNCHANGED healVars
  <2>1. /\ UNCHANGED <<goals, attempts>> /\ issues' = issues /\ triggers' = triggers
        /\ UNCHANGED <<settles, history>> /\ issues \in Seq(0 .. MaxDeliveries)
    BY <1>8 DEF healVars, history, HealInv, HealTypeOK
  <2> QED
    BY <2>1, GoalsStay, RowsStay, ComesToAnEnd, TriggerStepKeeps
<1> QED
  BY <1>1, <1>2, <1>3, <1>4, <1>5, <1>6, <1>7, <1>8 DEF HealNext

\* In every run of self-heal: the tables and the coroutines have their types, every
\* coroutine knows rows and goals that exist, and no two of them own one row.
THEOREM HealInvHolds == ASSUME HealAssumption PROVE HealSpec => []HealInv
<1>1. HealInit => HealInv
  BY HealInvStarts
<1>2. HealInv /\ [HealNext]_healVars => HealInv'
  BY HealInvKept
<1> QED
  BY <1>1, <1>2, PTL DEF HealSpec

\* The tables of self-heal and its coroutines have their types.
THEOREM HealTypeCorrect == ASSUME HealAssumption PROVE HealSpec => []HealTypeOK
<1>1. HealInv => HealTypeOK
  BY DEF HealInv
<1> QED
  BY <1>1, HealInvHolds, PTL

\* However many coroutines of trigger run at once, and whatever errors and crashes cut
\* them short, a bug has a second row only if its look-up came before the first's insert.
THEOREM DuplicatesOverlapHolds == ASSUME HealAssumption PROVE HealSpec => []DuplicatesOverlap
<1>1. HealInv => DuplicatesOverlap
  BY DEF HealInv
<1> QED
  BY <1>1, HealInvHolds, PTL

\* An outcome is what the attempt's own fix goal came to; an abandoned one has no goal.
THEOREM OutcomeIsEarnedHolds == ASSUME HealAssumption PROVE HealSpec => []OutcomeIsEarned
<1>1. HealInv => OutcomeIsEarned
  BY DEF HealInv, RowsFitGoals, RowEarned, OutcomeIsEarned
<1> QED
  BY <1>1, HealInvHolds, PTL

-----------------------------------------------------------------------------
(* Self-heal: counting *)

CountInv == RecurrencesAreCounted /\ \A b \in Bugs : IsFiniteSet(Recurrences(b))

\* What a coroutine still has to write of a bug.
StillDue(t, b) == IF t.bug = b /\ Unrecorded(t) THEN 1 ELSE 0

LEMMA Counted ==
  ASSUME HealInv, CountInv, NEW b \in Bugs
  PROVE  /\ IsFiniteSet(Recurrences(b)) /\ Cardinality(Recurrences(b)) \in Nat
         /\ IsFiniteSet(Unwritten(b)) /\ Cardinality(Unwritten(b)) \in Nat
         /\ lost[b] \in Nat /\ reports[b] \in Nat
         /\ reports[b] = Cardinality(Recurrences(b)) + Cardinality(Unwritten(b)) + lost[b]
<1>1. IsFiniteSet(Recurrences(b)) /\ Cardinality(Recurrences(b)) \in Nat
  BY FS_CardinalityType DEF CountInv
<1>2. IsFiniteSet(Unwritten(b)) /\ Cardinality(Unwritten(b)) \in Nat
  <2>1. Unwritten(b) \in SUBSET triggers
    BY DEF Unwritten
  <2>2. IsFiniteSet(Unwritten(b))
    BY <2>1, FS_Subset DEF HealInv
  <2> QED
    BY <2>2, FS_CardinalityType
<1> QED
  BY <1>1, <1>2 DEF CountInv, RecurrencesAreCounted, HealInv, HealTypeOK

\* Goals keep their depth, so what is due does not depend on the step.
LEMMA DueStays ==
  ASSUME GoalsGo, NEW t, t.goal \in DOMAIN goals
  PROVE  (Unrecorded(t))' <=> Unrecorded(t)
  BY DEF GoalsGo, Unrecorded, MayBeHealed

LEMMA UnwrittenStays ==
  ASSUME HealInv, GoalsGo, UNCHANGED triggers, NEW b PROVE Unwritten(b)' = Unwritten(b)
<1>1. \A t \in triggers : t.goal \in DOMAIN goals
  BY ATrigger DEF TriggerFits
<1> QED
  BY <1>1, DueStays DEF Unwritten

LEMMA UnwrittenLeaves ==
  ASSUME HealInv, NEW t \in triggers, NEW b
  PROVE  /\ IsFiniteSet(Unwritten(b) \ {t}) /\ IsFiniteSet(Unwritten(b))
         /\ Cardinality(Unwritten(b) \ {t}) = Cardinality(Unwritten(b)) - StillDue(t, b)
<1>1. Unwritten(b) \in SUBSET triggers
  BY DEF Unwritten
<1>2. IsFiniteSet(Unwritten(b))
  BY <1>1, FS_Subset DEF HealInv
<1>3. Cardinality(Unwritten(b)) \in Nat
  BY <1>2, FS_CardinalityType
<1>4. /\ IsFiniteSet(Unwritten(b) \ {t})
      /\ Cardinality(Unwritten(b) \ {t}) =
           IF t \in Unwritten(b) THEN Cardinality(Unwritten(b)) - 1 ELSE Cardinality(Unwritten(b))
  BY <1>2, FS_RemoveElement
<1>5. StillDue(t, b) = IF t \in Unwritten(b) THEN 1 ELSE 0
  BY DEF StillDue, Unwritten
<1> QED
  BY <1>2, <1>3, <1>4, <1>5

LEMMA UnwrittenEnds ==
  ASSUME HealInv, GoalsGo, NEW t \in triggers, Ends(t), NEW b
  PROVE  Cardinality(Unwritten(b)') = Cardinality(Unwritten(b)) - StillDue(t, b)
<1>1. \A v \in triggers : v.goal \in DOMAIN goals
  BY ATrigger DEF TriggerFits
<1>2. Unwritten(b)' = Unwritten(b) \ {t}
  BY <1>1, DueStays DEF Unwritten, Ends
<1> QED
  BY <1>2, UnwrittenLeaves

LEMMA UnwrittenGoes ==
  ASSUME HealInv, GoalsGo, NEW t \in triggers, NEW u, u.goal = t.goal, u.end = t.end, Goto(t, u),
         NEW b
  PROVE  Cardinality(Unwritten(b)') = Cardinality(Unwritten(b)) - StillDue(t, b) + StillDue(u, b)
<1>1. \A v \in triggers' : v.goal \in DOMAIN goals /\ (v \in triggers \ {t} \/ v = u)
  BY ATrigger DEF TriggerFits, Goto
<1>2. Unwritten(b)' = {v \in triggers' : v.bug = b /\ Unrecorded(v)}
  BY <1>1, DueStays DEF Unwritten
<1>3. PICK R : R = Unwritten(b) \ {t}
  OBVIOUS
<1>4. /\ IsFiniteSet(R) /\ Cardinality(R) = Cardinality(Unwritten(b)) - StillDue(t, b)
      /\ Cardinality(R) \in Nat
  BY <1>3, UnwrittenLeaves, FS_CardinalityType
<1>5. u \notin R
  BY <1>3 DEF Unwritten, HealInv, TriggersApart
<1>6. CASE u.bug = b /\ Unrecorded(u)
  <2>1. Unwritten(b)' = R \cup {u}
    BY <1>2, <1>3, <1>6 DEF Unwritten, Goto
  <2>2. Cardinality(R \cup {u}) = Cardinality(R) + 1
    BY <1>4, <1>5, FS_AddElement
  <2>3. StillDue(u, b) = 1
    BY <1>6 DEF StillDue
  <2> QED
    BY <1>4, <2>1, <2>2, <2>3
<1>7. CASE ~ (u.bug = b /\ Unrecorded(u))
  <2>1. Unwritten(b)' = R
    BY <1>2, <1>3, <1>7 DEF Unwritten, Goto
  <2>2. StillDue(u, b) = 0
    BY <1>7 DEF StillDue
  <2> QED
    BY <1>4, <2>1, <2>2
<1> QED
  BY <1>6, <1>7

\* No row comes, and none changes its bug or its count.
CountsStay ==
  /\ DOMAIN attempts' = DOMAIN attempts
  /\ \A a \in DOMAIN attempts : /\ attempts'[a].bug = attempts[a].bug
                                /\ attempts'[a].count = attempts[a].count

LEMMA RecurrencesStay ==
  ASSUME CountsStay, NEW b PROVE Recurrences(b)' = Recurrences(b)
<1>1. RowsOf(b)' = RowsOf(b) /\ RowsOf(b) \subseteq DOMAIN attempts
  BY DEF RowsOf, CountsStay
<1> QED
  BY <1>1 DEF Recurrences, CountsStay

\* A step that counts nothing.
LEMMA CountStays ==
  ASSUME HealInv, CountInv, CountsStay, UNCHANGED <<reports, lost>>,
         \A b \in Bugs : Cardinality(Unwritten(b)') = Cardinality(Unwritten(b))
  PROVE  CountInv'
  BY RecurrencesStay DEF CountInv, RecurrencesAreCounted

Pairs(rows, b) ==
  UNION {{a} \X (1 .. rows[a].count) : a \in {c \in DOMAIN rows : rows[c].bug = b}}

LEMMA InPairs ==
  ASSUME NEW rows, NEW b, NEW r
  PROVE  r \in Pairs(rows, b) <=>
           \E a \in DOMAIN rows : /\ rows[a].bug = b
                                  /\ \E n \in 1 .. rows[a].count : r = <<a, n>>
<1>1. r \in Pairs(rows, b) <=>
        \E a \in DOMAIN rows : rows[a].bug = b /\ r \in {a} \X (1 .. rows[a].count)
  BY DEF Pairs
<1>2. ASSUME NEW a
      PROVE  r \in {a} \X (1 .. rows[a].count) <=> \E n \in 1 .. rows[a].count : r = <<a, n>>
  OBVIOUS
<1> QED
  BY <1>1, <1>2

\* One row more, or one more in a row.
LEMMA PairsGrow ==
  ASSUME NEW rows, NEW then, NEW k, NEW n \in Nat \ {0}, NEW b,
         DOMAIN then = DOMAIN rows \cup {k},
         \A a \in DOMAIN rows \ {k} : then[a].bug = rows[a].bug /\ then[a].count = rows[a].count,
         then[k].bug = b, then[k].count = n,
         k \in DOMAIN rows => rows[k].bug = b /\ rows[k].count = n - 1,
         k \notin DOMAIN rows => n = 1
  PROVE  /\ Pairs(then, b) = Pairs(rows, b) \cup {<<k, n>>} /\ <<k, n>> \notin Pairs(rows, b)
         /\ \A c : c # b => Pairs(then, c) = Pairs(rows, c)
<1>1. \A m \in 1 .. n : m = n \/ m \in 1 .. n - 1
  OBVIOUS
<1>2. n \in 1 .. n /\ n \notin 1 .. n - 1 /\ \A m \in 1 .. n - 1 : m \in 1 .. n
  OBVIOUS
<1>3. 1 .. 1 - 1 = {}
  OBVIOUS
<1>4. ASSUME NEW r PROVE r \in Pairs(then, b) <=> r \in Pairs(rows, b) \/ r = <<k, n>>
  <2>1. ASSUME r \in Pairs(then, b), r # <<k, n>> PROVE r \in Pairs(rows, b)
    <3>0. PICK a \in DOMAIN then : then[a].bug = b /\ \E m \in 1 .. then[a].count : r = <<a, m>>
      BY <2>1, InPairs
    <3>1. PICK m \in 1 .. then[a].count : then[a].bug = b /\ r = <<a, m>>
      BY <3>0
    <3>2. CASE a = k
      <4>1. m \in 1 .. n - 1
        BY <1>1, <2>1, <3>1, <3>2
      <4>2. k \in DOMAIN rows
        BY <1>3, <4>1
      <4> QED
        BY <3>1, <3>2, <4>1, <4>2, InPairs
    <3>3. CASE a # k
      BY <3>1, <3>3, InPairs
    <3> QED
      BY <3>2, <3>3
  <2>2. ASSUME r \in Pairs(rows, b) PROVE r \in Pairs(then, b)
    <3>0. PICK a \in DOMAIN rows : rows[a].bug = b /\ \E m \in 1 .. rows[a].count : r = <<a, m>>
      BY <2>2, InPairs
    <3>1. PICK m \in 1 .. rows[a].count : rows[a].bug = b /\ r = <<a, m>>
      BY <3>0
    <3>2. CASE a = k
      BY <1>2, <3>1, <3>2, InPairs
    <3>3. CASE a # k
      BY <3>1, <3>3, InPairs
    <3> QED
      BY <3>2, <3>3
  <2>3. <<k, n>> \in Pairs(then, b)
    BY <1>2, InPairs
  <2> QED
    BY <2>1, <2>2, <2>3
<1>5. <<k, n>> \notin Pairs(rows, b)
  <2> SUFFICES ASSUME <<k, n>> \in Pairs(rows, b) PROVE FALSE
    OBVIOUS
  <2>0. PICK a \in DOMAIN rows : \E m \in 1 .. rows[a].count : <<k, n>> = <<a, m>>
    BY InPairs
  <2>1. PICK m \in 1 .. rows[a].count : <<k, n>> = <<a, m>>
    BY <2>0
  <2>2. k \in DOMAIN rows /\ n \in 1 .. rows[k].count
    BY <2>1
  <2> QED
    BY <1>2, <2>2
<1>6. ASSUME NEW c, c # b PROVE Pairs(then, c) = Pairs(rows, c)
  <2>1. ASSUME NEW r PROVE r \in Pairs(then, c) <=> r \in Pairs(rows, c)
    <3>1. ASSUME r \in Pairs(then, c) PROVE r \in Pairs(rows, c)
      <4>0. PICK a \in DOMAIN then : then[a].bug = c /\ \E m \in 1 .. then[a].count : r = <<a, m>>
        BY <3>1, InPairs
      <4>1. PICK m \in 1 .. then[a].count : then[a].bug = c /\ r = <<a, m>>
        BY <4>0
      <4> QED
        BY <1>6, <4>1, InPairs
    <3>2. ASSUME r \in Pairs(rows, c) PROVE r \in Pairs(then, c)
      <4>0. PICK a \in DOMAIN rows : rows[a].bug = c /\ \E m \in 1 .. rows[a].count : r = <<a, m>>
        BY <3>2, InPairs
      <4>1. PICK m \in 1 .. rows[a].count : rows[a].bug = c /\ r = <<a, m>>
        BY <4>0
      <4> QED
        BY <1>6, <4>1, InPairs
    <3> QED
      BY <3>1, <3>2
  <2> QED
    BY <2>1
<1> QED
  BY <1>4, <1>5, <1>6

LEMMA RecurrencesArePairs ==
  ASSUME NEW b
  PROVE  Recurrences(b) = Pairs(attempts, b) /\ Recurrences(b)' = Pairs(attempts', b)
  BY DEF Recurrences, RowsOf, Pairs

\* A step that writes down one failure of the bug of the coroutine.
LEMMA OneCounted ==
  ASSUME HealInv, CountInv, NEW t \in triggers, UNCHANGED <<reports, lost>>, NEW x,
         x \notin Recurrences(t.bug), Recurrences(t.bug)' = Recurrences(t.bug) \cup {x},
         \A b \in Bugs \ {t.bug} : Recurrences(b)' = Recurrences(b),
         \A b \in Bugs : Cardinality(Unwritten(b)') =
                           Cardinality(Unwritten(b)) - (IF b = t.bug THEN 1 ELSE 0)
  PROVE  CountInv'
<1> SUFFICES ASSUME NEW b \in Bugs
             PROVE  /\ IsFiniteSet(Recurrences(b)')
                    /\ reports'[b] = Cardinality(Recurrences(b)')
                                       + Cardinality(Unwritten(b)') + lost'[b]
  BY DEF CountInv, RecurrencesAreCounted
<1>1. CASE b = t.bug
  <2>1. /\ IsFiniteSet(Recurrences(b) \cup {x})
        /\ Cardinality(Recurrences(b) \cup {x}) = Cardinality(Recurrences(b)) + 1
    BY <1>1, Counted, FS_AddElement
  <2>2. Cardinality(Unwritten(b)') = Cardinality(Unwritten(b)) - 1
    BY <1>1
  <2>3. Recurrences(b)' = Recurrences(b) \cup {x} /\ reports' = reports /\ lost' = lost
    BY <1>1
  <2> QED
    BY <2>1, <2>2, <2>3, Counted
<1>2. CASE b # t.bug
  <2>1. Cardinality(Unwritten(b)') = Cardinality(Unwritten(b))
    BY <1>2, Counted
  <2>2. Recurrences(b)' = Recurrences(b) /\ reports' = reports /\ lost' = lost
    BY <1>2
  <2> QED
    BY <2>1, <2>2, Counted
<1> QED
  BY <1>1, <1>2

LEMMA BumpCounts ==
  ASSUME HealInv, CountInv, NEW t \in triggers, BumpRecurrence(t) PROVE CountInv'
<1>1. t.pc = "bump" /\ UNCHANGED <<reports, lost>> /\ Ends(t) /\ GoalsGo
  BY GoalsStay DEF BumpRecurrence, history
<1>2. PICK k \in DOMAIN attempts : k = t.attempt /\ attempts[k].bug = t.bug
  BY <1>1, ATrigger DEF TriggerFits
<1>3. PICK row \in Attempt : row = attempts[k]
  BY ARow
<1>4. PICK new : new = [row EXCEPT !.count = @ + 1]
  OBVIOUS
<1>5. new.bug = t.bug /\ new.count = row.count + 1 /\ row.count \in Nat
  BY <1>2, <1>3, <1>4, RowTyped
<1>6. attempts' = [attempts EXCEPT ![k] = new]
  BY <1>2, <1>3, <1>4, AttemptsTyped DEF BumpRecurrence
<1>7. PICK n \in Nat \ {0} : n = row.count + 1
  BY <1>5
<1>8. /\ DOMAIN attempts' = DOMAIN attempts \cup {k} /\ attempts'[k] = new
      /\ \A a \in DOMAIN attempts \ {k} : attempts'[a] = attempts[a]
  BY <1>6, AttemptsTyped
<1>9. /\ Pairs(attempts', t.bug) = Pairs(attempts, t.bug) \cup {<<k, n>>}
      /\ <<k, n>> \notin Pairs(attempts, t.bug)
      /\ \A b : b # t.bug => Pairs(attempts', b) = Pairs(attempts, b)
  <2>1. attempts[k].bug = t.bug /\ attempts[k].count = n - 1
    BY <1>2, <1>3, <1>5, <1>7
  <2>2. attempts'[k].bug = t.bug /\ attempts'[k].count = n
    BY <1>5, <1>7, <1>8
  <2> QED
    BY <1>8, <2>1, <2>2, PairsGrow
<1>10. \A b \in Bugs : StillDue(t, b) = IF b = t.bug THEN 1 ELSE 0
  BY <1>1, ATrigger DEF StillDue, Unrecorded, TriggerFits
<1>11. \A b \in Bugs : Cardinality(Unwritten(b)') =
                         Cardinality(Unwritten(b)) - (IF b = t.bug THEN 1 ELSE 0)
  BY <1>1, <1>10, UnwrittenEnds
<1> QED
  BY <1>1, <1>9, <1>11, RecurrencesArePairs, OneCounted

LEMMA RecordCounts ==
  ASSUME HealInv, CountInv, NEW t \in triggers, RecordAttempt(t) PROVE CountInv'
<1>1. t.pc = "record" /\ UNCHANGED <<reports, lost>> /\ GoalsGo
  BY GoalsStay DEF RecordAttempt, history
<1>2. PICK row : row = [bug |-> t.bug, goal |-> t.goal, status |-> t.status, issue |-> 0,
                        fix |-> 0, outcome |-> "none", count |-> 1, known |-> t.known]
  OBVIOUS
<1>3. row \in Attempt /\ row.bug = t.bug /\ row.count = 1
  BY <1>2, ATrigger, TriggerTyped DEF Attempt
<1>4. attempts' = Append(attempts, row)
  BY <1>2 DEF RecordAttempt
<1>5. /\ attempts' \in Seq(Attempt) /\ Len(attempts') = Len(attempts) + 1
      /\ \A a \in 1 .. Len(attempts) : attempts'[a] = attempts[a]
      /\ attempts'[Len(attempts) + 1] = row
  BY <1>3, <1>4, AttemptsTyped, AppendProperties
<1>6. PICK k \in Nat : k = Len(attempts) + 1
  BY AttemptsTyped
<1>7. /\ DOMAIN attempts' = DOMAIN attempts \cup {k} /\ k \notin DOMAIN attempts
      /\ attempts'[k] = row /\ \A a \in DOMAIN attempts : attempts'[a] = attempts[a]
  BY <1>5, <1>6, AttemptsTyped, LenProperties
<1>8. /\ Pairs(attempts', t.bug) = Pairs(attempts, t.bug) \cup {<<k, 1>>}
      /\ <<k, 1>> \notin Pairs(attempts, t.bug)
      /\ \A b : b # t.bug => Pairs(attempts', b) = Pairs(attempts, b)
  <2>1. PICK one \in Nat \ {0} : one = 1
    OBVIOUS
  <2>2. attempts'[k].bug = t.bug /\ attempts'[k].count = one
    BY <1>3, <1>7, <2>1
  <2>3. \A a \in DOMAIN attempts \ {k} : /\ attempts'[a].bug = attempts[a].bug
                                          /\ attempts'[a].count = attempts[a].count
    BY <1>7
  <2>4. /\ Pairs(attempts', t.bug) = Pairs(attempts, t.bug) \cup {<<k, one>>}
        /\ <<k, one>> \notin Pairs(attempts, t.bug)
        /\ \A b : b # t.bug => Pairs(attempts', b) = Pairs(attempts, b)
    BY <1>7, <2>1, <2>2, <2>3, PairsGrow
  <2> QED
    BY <2>1, <2>4
<1>9. PICK u : u = [t EXCEPT !.pc = IF t.issue = 0 THEN "spawn" ELSE "number", !.attempt = k]
  OBVIOUS
<1>10. u.goal = t.goal /\ u.end = t.end /\ u.pc \in {"spawn", "number"} /\ u.bug = t.bug
  <2>1. t \in Trigger /\ k \in Nat
    BY ATrigger
  <2>2. CASE t.issue = 0
    BY <1>9, <2>1, <2>2, TriggerTyped
  <2>3. CASE t.issue # 0
    BY <1>9, <2>1, <2>3, TriggerTyped
  <2> QED
    BY <2>2, <2>3
<1>11. Goto(t, u)
  BY <1>6, <1>9 DEF RecordAttempt
<1>12. \A b \in Bugs : StillDue(t, b) = (IF b = t.bug THEN 1 ELSE 0) /\ StillDue(u, b) = 0
  BY <1>1, <1>10, ATrigger DEF StillDue, Unrecorded, TriggerFits
<1>13. \A b \in Bugs : Cardinality(Unwritten(b)') =
                         Cardinality(Unwritten(b)) - (IF b = t.bug THEN 1 ELSE 0)
  <2> SUFFICES ASSUME NEW b \in Bugs
               PROVE  Cardinality(Unwritten(b)') =
                        Cardinality(Unwritten(b)) - (IF b = t.bug THEN 1 ELSE 0)
    OBVIOUS
  <2>1. Cardinality(Unwritten(b)') = Cardinality(Unwritten(b)) - StillDue(t, b) + StillDue(u, b)
    BY <1>1, <1>10, <1>11, UnwrittenGoes
  <2> QED
    BY <1>12, <2>1, Counted
<1> QED
  BY <1>1, <1>8, <1>13, RecurrencesArePairs, OneCounted

\* A step of a coroutine that has nothing more, or as much, to write.
LEMMA GoesOnCounts ==
  ASSUME HealInv, CountInv, GoalsGo, CountsStay, UNCHANGED <<reports, lost>>,
         NEW t \in triggers, NEW u, u.goal = t.goal, u.end = t.end, u.bug = t.bug, Goto(t, u),
         Unrecorded(u) <=> Unrecorded(t)
  PROVE  CountInv'
<1>1. \A b \in Bugs : StillDue(u, b) = StillDue(t, b) /\ StillDue(t, b) \in {0, 1}
  BY DEF StillDue
<1>2. ASSUME NEW b \in Bugs PROVE Cardinality(Unwritten(b)') = Cardinality(Unwritten(b))
  <2>1. Cardinality(Unwritten(b)') = Cardinality(Unwritten(b)) - StillDue(t, b) + StillDue(u, b)
    BY UnwrittenGoes
  <2> QED
    BY <1>1, <2>1, Counted
<1> QED
  BY <1>2, CountStays

LEMMA EndsCounts ==
  ASSUME HealInv, CountInv, GoalsGo, CountsStay, UNCHANGED <<reports, lost>>,
         NEW t \in triggers, Ends(t), ~ Unrecorded(t)
  PROVE  CountInv'
<1>1. \A b \in Bugs : StillDue(t, b) = 0
  BY DEF StillDue
<1>2. ASSUME NEW b \in Bugs PROVE Cardinality(Unwritten(b)') = Cardinality(Unwritten(b))
  <2>1. Cardinality(Unwritten(b)') = Cardinality(Unwritten(b)) - StillDue(t, b)
    BY UnwrittenEnds
  <2> QED
    BY <1>1, <2>1, Counted
<1> QED
  BY <1>2, CountStays

LEMMA OthersCount ==
  ASSUME HealInv, CountInv, GoalsGo, CountsStay, UNCHANGED <<triggers, reports, lost>>
  PROVE  CountInv'
<1>1. \A b \in Bugs : Unwritten(b)' = Unwritten(b)
  BY UnwrittenStays
<1> QED
  BY <1>1, CountStays

LEMMA CheckDepthCounts ==
  ASSUME HealInv, CountInv, NEW t \in triggers, CheckDepth(t) PROVE CountInv'
<1>1. t.pc = "depth" /\ GoalsGo /\ CountsStay /\ UNCHANGED <<reports, lost>>
  BY GoalsStay DEF CheckDepth, tables, history, CountsStay
<1>2. CASE MayBeHealed(t.goal)
  <2>1. PICK u : u = [t EXCEPT !.pc = "look"]
    OBVIOUS
  <2>2. u.goal = t.goal /\ u.end = t.end /\ u.pc = "look" /\ u.bug = t.bug
    BY <2>1, ATrigger, TriggerTyped
  <2>3. Goto(t, u)
    BY <1>2, <2>1 DEF CheckDepth
  <2>4. Unrecorded(u) <=> Unrecorded(t)
    BY <1>1, <2>2 DEF Unrecorded
  <2> QED
    BY <1>1, <2>2, <2>3, <2>4, GoesOnCounts
<1>3. CASE ~ MayBeHealed(t.goal)
  BY <1>1, <1>3, EndsCounts DEF CheckDepth, Unrecorded
<1> QED
  BY <1>2, <1>3

LEMMA FindDuplicateCounts ==
  ASSUME HealInv, CountInv, NEW t \in triggers, FindDuplicate(t) PROVE CountInv'
<1>1. t.pc = "look" /\ GoalsGo /\ CountsStay /\ UNCHANGED <<reports, lost>>
  BY GoalsStay DEF FindDuplicate, tables, history, CountsStay
<1>2. PICK u : u = [t EXCEPT !.pc = "bump", !.attempt = Max(Live(t.bug))]
  OBVIOUS
<1>3. u.goal = t.goal /\ u.end = t.end /\ u.pc = "bump" /\ u.bug = t.bug
  BY <1>2, ATrigger, TriggerTyped
<1>4. Goto(t, u) /\ (Unrecorded(u) <=> Unrecorded(t))
  BY <1>1, <1>2, <1>3 DEF FindDuplicate, Unrecorded
<1> QED
  BY <1>1, <1>3, <1>4, GoesOnCounts

LEMMA FileIssueCounts ==
  ASSUME HealInv, CountInv, NEW t \in triggers, FileIssue(t) PROVE CountInv'
<1>1. t.pc = "look" /\ GoalsGo /\ CountsStay /\ UNCHANGED <<reports, lost>>
  BY GoalsStay DEF FileIssue, tables, history, CountsStay
<1>2. PICK next : next = [t EXCEPT !.pc = "record", !.known = Len(attempts)]
  OBVIOUS
<1>3. /\ next \in Trigger /\ next.goal = t.goal /\ next.end = t.end /\ next.pc = "record"
      /\ next.bug = t.bug
  BY <1>2, ATrigger, TriggerTyped, AttemptsTyped DEF Trigger
<1>4. PICK u : /\ Goto(t, u)
               /\ u = next \/ u = [next EXCEPT !.status = "filed", !.issue = Len(issues) + 1]
  BY <1>2 DEF FileIssue
<1>5. u.goal = t.goal /\ u.end = t.end /\ u.pc = "record" /\ u.bug = t.bug
  BY <1>3, <1>4, TriggerTyped
<1>6. Unrecorded(u) <=> Unrecorded(t)
  BY <1>1, <1>5 DEF Unrecorded
<1> QED
  BY <1>1, <1>4, <1>5, <1>6, GoesOnCounts

\* A row keeps its bug and its count whatever else of it is written.
LEMMA CountsKept ==
  ASSUME HealInv, NEW k, NEW new, k \in DOMAIN attempts =>
           new.bug = attempts[k].bug /\ new.count = attempts[k].count,
         attempts' = [attempts EXCEPT ![k] = new]
  PROVE  CountsStay
  BY AttemptsTyped DEF CountsStay

LEMMA WriteNumberCounts ==
  ASSUME HealInv, CountInv, NEW t \in triggers, WriteNumber(t) PROVE CountInv'
<1>1. t.pc = "number" /\ GoalsGo /\ UNCHANGED <<reports, lost>>
  BY GoalsStay DEF WriteNumber, history
<1>2. PICK new : new = [attempts[t.attempt] EXCEPT !.issue = t.issue]
  OBVIOUS
<1>3. CountsStay
  <2>1. attempts' = [attempts EXCEPT ![t.attempt] = new]
    BY <1>2 DEF WriteNumber
  <2>2. ASSUME t.attempt \in DOMAIN attempts
        PROVE  new.bug = attempts[t.attempt].bug /\ new.count = attempts[t.attempt].count
    BY <1>2, <2>2, ARow, RowTyped
  <2> QED
    BY <2>1, <2>2, CountsKept
<1>4. PICK u : u = [t EXCEPT !.pc = "spawn"]
  OBVIOUS
<1>5. u.goal = t.goal /\ u.end = t.end /\ u.pc = "spawn" /\ u.bug = t.bug
  BY <1>4, ATrigger, TriggerTyped
<1>6. Goto(t, u) /\ (Unrecorded(u) <=> Unrecorded(t))
  BY <1>1, <1>4, <1>5 DEF WriteNumber, Unrecorded
<1> QED
  BY <1>1, <1>3, <1>5, <1>6, GoesOnCounts

LEMMA SpawnFixCounts ==
  ASSUME HealInv, CountInv, NEW t \in triggers, SpawnFix(t) PROVE CountInv'
<1>1. t.pc = "spawn" /\ CountsStay /\ UNCHANGED <<reports, lost>>
  BY DEF SpawnFix, history, CountsStay
<1>2. GoalsGo
  <2>1. t.goal \in DOMAIN goals /\ goals[t.goal].depth + 1 \in Nat
    BY ATrigger, GoalsTyped DEF TriggerFits, Goal
  <2> QED
    BY <2>1, NewGoalTyped, GoalsGrow DEF SpawnFix
<1>3. PICK u : u = [t EXCEPT !.pc = "link", !.fix = Len(goals) + 1]
  OBVIOUS
<1>4. u.goal = t.goal /\ u.end = t.end /\ u.pc = "link" /\ u.bug = t.bug
  BY <1>3, ATrigger, TriggerTyped
<1>5. Goto(t, u) /\ (Unrecorded(u) <=> Unrecorded(t))
  BY <1>1, <1>3, <1>4 DEF SpawnFix, Unrecorded
<1> QED
  BY <1>1, <1>2, <1>4, <1>5, GoesOnCounts

LEMMA LinkFixCounts ==
  ASSUME HealInv, CountInv, NEW t \in triggers, LinkFix(t) PROVE CountInv'
<1>1. t.pc = "link" /\ GoalsGo /\ UNCHANGED <<reports, lost>> /\ Ends(t)
  BY GoalsStay DEF LinkFix, history
<1>2. PICK new : new = [attempts[t.attempt] EXCEPT !.fix = t.fix]
  OBVIOUS
<1>3. CountsStay
  <2>1. attempts' = [attempts EXCEPT ![t.attempt] = new]
    BY <1>2 DEF LinkFix
  <2>2. ASSUME t.attempt \in DOMAIN attempts
        PROVE  new.bug = attempts[t.attempt].bug /\ new.count = attempts[t.attempt].count
    BY <1>2, <2>2, ARow, RowTyped
  <2> QED
    BY <2>1, <2>2, CountsKept
<1> QED
  BY <1>1, <1>3, EndsCounts DEF Unrecorded

LEMMA AbandonCounts ==
  ASSUME HealInv, CountInv, NEW t \in triggers, AbandonAttempt(t) PROVE CountInv'
<1>1. t.pc = "abandon" /\ GoalsGo /\ UNCHANGED <<reports, lost>> /\ Ends(t)
  BY GoalsStay DEF AbandonAttempt, history
<1>2. PICK new : new = [attempts[t.attempt] EXCEPT !.outcome = "abandoned"]
  OBVIOUS
<1>3. CountsStay
  <2>1. attempts' = [attempts EXCEPT ![t.attempt] = new]
    BY <1>2 DEF AbandonAttempt
  <2>2. ASSUME t.attempt \in DOMAIN attempts
        PROVE  new.bug = attempts[t.attempt].bug /\ new.count = attempts[t.attempt].count
    BY <1>2, <2>2, ARow, RowTyped
  <2> QED
    BY <2>1, <2>2, CountsKept
<1> QED
  BY <1>1, <1>3, EndsCounts DEF Unrecorded

LEMMA WriteOutcomeCounts ==
  ASSUME HealInv, CountInv, NEW s \in settles, WriteOutcome(s) PROVE CountInv'
<1>1. GoalsGo /\ UNCHANGED <<triggers, reports, lost>>
  BY GoalsStay DEF WriteOutcome, history
<1>2. PICK new : new = [attempts[s.attempt] EXCEPT !.outcome = OutcomeOf(s.status)]
  OBVIOUS
<1>3. CountsStay
  <2>1. attempts' = [attempts EXCEPT ![s.attempt] = new]
    BY <1>2 DEF WriteOutcome
  <2>2. ASSUME s.attempt \in DOMAIN attempts
        PROVE  new.bug = attempts[s.attempt].bug /\ new.count = attempts[s.attempt].count
    BY <1>2, <2>2, ARow, RowTyped
  <2> QED
    BY <2>1, <2>2, CountsKept
<1> QED
  BY <1>1, <1>3, OthersCount

\* A failure that may be healed is reported and is due from then on.
LEMMA FailsCounts ==
  ASSUME HealInv, CountInv, NEW g, NEW error \in Bugs \cup {External}, Fails(g, error)
  PROVE  CountInv'
<1>1. PICK told \in BOOLEAN : Ended(g, "FAILED", told) /\ CountsStay /\ lost' = lost
  BY DEF Fails, CountsStay
<1>2. GoalsGo
  BY <1>1, GoalEnds
<1>3. CASE error \notin Bugs
  <2>1. UNCHANGED <<triggers, reports, lost>>
    BY <1>3 DEF Fails, IsBug
  <2> QED
    BY <1>1, <1>2, <2>1, OthersCount
<1>4. CASE error \in Bugs
  <2>1. PICK new : new = Reported(g, error)
    OBVIOUS
  <2>2. triggers' = triggers \cup {new}
    BY <1>4, <2>1 DEF Fails, IsBug, Reported
  <2>3. /\ new.pc = "depth" /\ new.bug = error /\ new.goal = g
        /\ \A t \in triggers : ~ (t.goal = new.goal /\ t.end = new.end)
    BY <1>1, <1>4, <2>1, ReportedFits
  <2>4. g \in DOMAIN goals
    BY <1>1, GoalEnds
  <2>5. \A t \in triggers' : Unrecorded(t)' <=> Unrecorded(t)
    <3>1. \A t \in triggers' : t.goal \in DOMAIN goals
      BY <2>2, <2>3, <2>4, ATrigger DEF TriggerFits
    <3> QED
      BY <1>2, <3>1, DueStays
  <2>6. reports' = [reports EXCEPT ![error] = @ + (IF MayBeHealed(g) THEN 1 ELSE 0)]
    BY <1>4 DEF Fails, IsBug
  <2>7. Unrecorded(new) <=> MayBeHealed(g)
    BY <2>3 DEF Unrecorded
  <2>8. new \notin triggers
    BY <2>3
  <2> SUFFICES ASSUME NEW b \in Bugs
               PROVE  /\ IsFiniteSet(Recurrences(b)')
                      /\ reports'[b] = Cardinality(Recurrences(b)')
                                         + Cardinality(Unwritten(b)') + lost'[b]
    BY DEF CountInv, RecurrencesAreCounted
  <2>9. Recurrences(b)' = Recurrences(b)
    BY <1>1, RecurrencesStay
  <2>10. CASE b = error /\ MayBeHealed(g)
    <3>1. Unwritten(b)' = Unwritten(b) \cup {new} /\ new \notin Unwritten(b)
      BY <2>2, <2>3, <2>5, <2>7, <2>8, <2>10 DEF Unwritten
    <3>2. Cardinality(Unwritten(b) \cup {new}) = Cardinality(Unwritten(b)) + 1
      BY <3>1, Counted, FS_AddElement
    <3>3. reports'[b] = reports[b] + 1
      BY <2>6, <2>10 DEF HealInv, HealTypeOK
    <3> QED
      BY <1>1, <2>9, <3>1, <3>2, <3>3, Counted
  <2>11. CASE ~ (b = error /\ MayBeHealed(g))
    <3>1. Unwritten(b)' = Unwritten(b)
      BY <2>2, <2>3, <2>5, <2>7, <2>11 DEF Unwritten
    <3>2. reports'[b] = reports[b]
      BY <2>6, <2>11 DEF HealInv, HealTypeOK
    <3> QED
      BY <1>1, <2>9, <3>1, <3>2, Counted
  <2> QED
    BY <2>10, <2>11
<1> QED
  BY <1>3, <1>4

\* What a coroutine takes with it when an error or a crash ends it, is swallowed.
LEMMA DatabaseErrorCounts ==
  ASSUME HealInv, CountInv, NEW t \in triggers, DatabaseError(t) PROVE CountInv'
<1>1. GoalsGo /\ CountsStay /\ reports' = reports
  BY GoalsStay DEF DatabaseError, tables, CountsStay
<1>2. CASE t.pc \in {"spawn", "link"}
  <2>1. PICK u : u = [t EXCEPT !.pc = "abandon"]
    OBVIOUS
  <2>2. u.goal = t.goal /\ u.end = t.end /\ u.pc = "abandon" /\ u.bug = t.bug
    BY <2>1, ATrigger, TriggerTyped
  <2>3. Goto(t, u) /\ lost' = lost
    BY <1>2, <2>1 DEF DatabaseError
  <2>4. Unrecorded(u) <=> Unrecorded(t)
    BY <1>2, <2>2 DEF Unrecorded
  <2> QED
    BY <1>1, <2>2, <2>3, <2>4, GoesOnCounts
<1>3. CASE t.pc \notin {"spawn", "link"}
  <2>1. Ends(t) /\ Forgotten({t})
    BY <1>3 DEF DatabaseError
  <2> SUFFICES ASSUME NEW b \in Bugs
               PROVE  /\ IsFiniteSet(Recurrences(b)')
                      /\ reports'[b] = Cardinality(Recurrences(b)')
                                         + Cardinality(Unwritten(b)') + lost'[b]
    BY DEF CountInv, RecurrencesAreCounted
  <2>2. Recurrences(b)' = Recurrences(b)
    BY <1>1, RecurrencesStay
  <2>3. Cardinality(Unwritten(b)') = Cardinality(Unwritten(b)) - StillDue(t, b)
    BY <1>1, <2>1, UnwrittenEnds
  <2>4. lost'[b] = lost[b] + StillDue(t, b)
    <3>1. lost'[b] = lost[b] + Cardinality({v \in {t} : v.bug = b /\ Unrecorded(v)})
      BY <2>1 DEF Forgotten
    <3>2. CASE t.bug = b /\ Unrecorded(t)
      <4>1. {v \in {t} : v.bug = b /\ Unrecorded(v)} = {t} /\ StillDue(t, b) = 1
        BY <3>2 DEF StillDue
      <4> QED
        BY <3>1, <4>1, FS_Singleton
    <3>3. CASE ~ (t.bug = b /\ Unrecorded(t))
      <4>1. {v \in {t} : v.bug = b /\ Unrecorded(v)} = {} /\ StillDue(t, b) = 0
        BY <3>3 DEF StillDue
      <4> QED
        BY <3>1, <4>1, FS_EmptySet
    <3> QED
      BY <3>2, <3>3
  <2>5. StillDue(t, b) \in {0, 1}
    BY DEF StillDue
  <2> QED
    BY <1>1, <2>2, <2>3, <2>4, <2>5, Counted
<1> QED
  BY <1>2, <1>3

LEMMA CrashCounts ==
  ASSUME HealInv, CountInv, Crash PROVE CountInv'
<1>1. CountsStay /\ reports' = reports /\ triggers' = {} /\ Forgotten(triggers)
  BY DEF Crash, tables, CountsStay
<1> SUFFICES ASSUME NEW b \in Bugs
             PROVE  /\ IsFiniteSet(Recurrences(b)')
                    /\ reports'[b] = Cardinality(Recurrences(b)')
                                       + Cardinality(Unwritten(b)') + lost'[b]
  BY DEF CountInv, RecurrencesAreCounted
<1>2. Recurrences(b)' = Recurrences(b)
  BY <1>1, RecurrencesStay
<1>3. Unwritten(b)' = {}
  BY <1>1 DEF Unwritten
<1>4. Cardinality(Unwritten(b)') = 0
  BY <1>3, FS_EmptySet
<1>5. lost'[b] = lost[b] + Cardinality(Unwritten(b))
  BY <1>1 DEF Forgotten, Unwritten
<1> QED
  BY <1>1, <1>2, <1>4, <1>5, Counted

LEMMA CountInvStarts ==
  ASSUME HealInit PROVE CountInv
<1> SUFFICES ASSUME NEW b \in Bugs
             PROVE  /\ IsFiniteSet(Recurrences(b))
                    /\ reports[b] = Cardinality(Recurrences(b))
                                      + Cardinality(Unwritten(b)) + lost[b]
  BY DEF CountInv, RecurrencesAreCounted
<1>1. RowsOf(b) = {} /\ Unwritten(b) = {}
  BY DEF HealInit, RowsOf, Unwritten
<1>2. Recurrences(b) = {}
  BY <1>1 DEF Recurrences
<1>3. reports[b] = 0 /\ lost[b] = 0
  BY DEF HealInit
<1> QED
  BY <1>1, <1>2, <1>3, FS_EmptySet

LEMMA CountInvKept ==
  ASSUME HealInv, CountInv, [HealNext]_healVars PROVE CountInv'
<1>1. CASE UserGoal
  <2>1. GoalsGo /\ CountsStay /\ UNCHANGED <<triggers, reports, lost>>
    BY <1>1, NewGoalTyped, GoalsGrow DEF UserGoal, tasks, history, CountsStay
  <2> QED
    BY <2>1, OthersCount
<1>2. CASE \E i \in DOMAIN issues : IssueOpened(i)
  <2>1. PICK i \in Nat : IssueOpened(i)
    <3>1. issues \in Seq(0 .. MaxDeliveries)
      BY DEF HealInv, HealTypeOK
    <3>2. \A i \in DOMAIN issues : i \in Nat
      BY <3>1, LenProperties
    <3> QED
      BY <1>2, <3>2
  <2>2. GoalsGo /\ CountsStay /\ UNCHANGED <<triggers, reports, lost>>
    BY <2>1, NewGoalTyped, GoalsGrow DEF IssueOpened, tasks, history, CountsStay
  <2> QED
    BY <2>2, OthersCount
<1>3. CASE \E g \in DOMAIN goals : EndsUntriggered(g) \/ \E e \in Bugs \cup {External} : Fails(g, e)
  <2>1. PICK g \in DOMAIN goals : EndsUntriggered(g) \/ \E e \in Bugs \cup {External} : Fails(g, e)
    BY <1>3
  <2>2. CASE EndsUntriggered(g)
    <3>1. GoalsGo /\ CountsStay /\ UNCHANGED <<triggers, reports, lost>>
      BY <2>2, UntriggeredEnds, GoalEnds DEF history, CountsStay
    <3> QED
      BY <3>1, OthersCount
  <2>3. CASE \E e \in Bugs \cup {External} : Fails(g, e)
    BY <2>3, FailsCounts
  <2> QED
    BY <2>1, <2>2, <2>3
<1>4. CASE TriggerStep
  <2>1. PICK t \in triggers :
          \/ CheckDepth(t) \/ FindDuplicate(t) \/ FileIssue(t) \/ BumpRecurrence(t)
          \/ RecordAttempt(t) \/ WriteNumber(t) \/ SpawnFix(t) \/ LinkFix(t) \/ AbandonAttempt(t)
    BY <1>4 DEF TriggerStep
  <2> QED
    BY <2>1, CheckDepthCounts, FindDuplicateCounts, FileIssueCounts, BumpCounts,
       RecordCounts, WriteNumberCounts, SpawnFixCounts, LinkFixCounts, AbandonCounts
<1>5. CASE SettleStep
  <2>1. PICK s \in settles : FindAttempt(s) \/ WriteOutcome(s)
    BY <1>5 DEF SettleStep
  <2>2. CASE FindAttempt(s)
    <3>1. GoalsGo /\ CountsStay /\ UNCHANGED <<triggers, reports, lost>>
      BY <2>2, GoalsStay DEF FindAttempt, tables, history, CountsStay
    <3> QED
      BY <3>1, OthersCount
  <2> QED
    BY <2>1, <2>2, WriteOutcomeCounts
<1>6. CASE \E t \in triggers : DatabaseError(t)
  BY <1>6, DatabaseErrorCounts
<1>7. CASE Crash
  BY <1>7, CrashCounts
<1>8. CASE UNCHANGED healVars
  <2>1. GoalsGo /\ CountsStay /\ UNCHANGED <<triggers, reports, lost>>
    BY <1>8, GoalsStay DEF healVars, CountsStay
  <2> QED
    BY <2>1, OthersCount
<1> QED
  BY <1>1, <1>2, <1>3, <1>4, <1>5, <1>6, <1>7, <1>8 DEF HealNext

\* No failure of a goal that may be healed goes uncounted or is counted twice: the rows of
\* its bug, what coroutines still have to write, and what errors and crashes swallowed add
\* up to the failures reported.
THEOREM RecurrencesAreCountedHolds ==
  ASSUME HealAssumption PROVE HealSpec => []RecurrencesAreCounted
<1>1. HealInit => CountInv
  BY CountInvStarts
<1>2. HealInv /\ CountInv /\ [HealNext]_healVars => CountInv'
  BY CountInvKept
<1>3. CountInv => RecurrencesAreCounted
  BY DEF CountInv
<1> QED
  BY <1>1, <1>2, <1>3, HealInvHolds, PTL DEF HealSpec
=============================================================================
