--------------------------- MODULE ToolLedgerProofs ---------------------------
(***************************************************************************)
(* Theorems about ToolLedger: what the gate lets through was approved, what *)
(* a later run is told is true, and runs that do not overlap complete a     *)
(* call once; for every set of calls, of spellings and of runs.             *)
(***************************************************************************)
EXTENDS ToolLedgerProperties, SequenceTheorems, FiniteSetTheorems, TLAPS

RunState == [pc : Pc, call : Calls \cup {None}, key : WaitKey, turns : Nat]

\* The steps at which a run has a call in hand.
Busy == {"create", "gate", "file", "refuse", "unlog", "act", "settle", "settleFailed", "park"}

Approved(a) == \E i \in RequestsFor(a) : asked[i].decision = "approve"
Refused(a) == \E i \in RequestsFor(a) : asked[i].decision = "deny" \/ asked[i].expired

Permitted(c) == ActionOf[c] \in Irreversible => Approved(ActionOf[c])

\* What a run that got this far may rely on.
Fits(st) ==
  /\ st.pc \in Busy => st.call \in Calls
  /\ st.pc \in {"act", "settle"} => Permitted(st.call)
  /\ st.pc = "refuse" => Refused(ActionOf[st.call])
  /\ st.pc = "settle" => performed[st.call] > 0

\* What is recorded of a call, and what it did.
Truthful(c) ==
  /\ performed[c] > 0 => Permitted(c)
  /\ ledger[c] = "ok" => performed[c] > 0
  /\ ledger[c] = "refused" => Refused(ActionOf[c])

GateInv ==
  /\ TypeOK
  /\ \A r \in Runs : Fits(run[r])
  /\ \A c \in Calls : Truthful(c)

-----------------------------------------------------------------------------
(* The requests *)

\* A set of naturals with an upper bound has a largest element.
LEMMA LargestExists ==
  ASSUME NEW n \in Nat, NEW T \in SUBSET (1 .. n), T # {}
  PROVE  \E i \in T : \A j \in T : j <= i
<1> SUFFICES ASSUME \A i \in T : \E j \in T : i < j PROVE FALSE
  OBVIOUS
<1> DEFINE Below == {k \in 1 .. n : \E j \in T : k <= j}
           next == [k \in Below |-> k + 1]
<1>1. IsFiniteSet(Below)
  <2>1. IsFiniteSet(1 .. n) /\ Below \in SUBSET (1 .. n)
    BY FS_Interval
  <2> QED
    BY <2>1, FS_Subset
<1>2. ASSUME NEW k \in Below PROVE k \in Nat /\ k + 1 \in Below
  <2>1. PICK j \in T : k <= j
    OBVIOUS
  <2>2. PICK m \in T : j < m
    OBVIOUS
  <2>3. k \in 1 .. n /\ m \in 1 .. n /\ j \in 1 .. n
    OBVIOUS
  <2>4. k + 1 \in 1 .. n /\ k + 1 <= m
    BY <2>1, <2>2, <2>3
  <2> QED
    BY <2>4
<1>3. 1 \in Below
  <2>1. PICK j \in T : TRUE
    OBVIOUS
  <2>2. j \in 1 .. n
    OBVIOUS
  <2> QED
    BY <2>2
<1> HIDE DEF Below
<1>4. next \in Injection(Below, Below)
  <2>1. next \in [Below -> Below]
    BY <1>2
  <2>2. ASSUME NEW a \in Below, NEW b \in Below, next[a] = next[b] PROVE a = b
    BY <1>2, <2>2
  <2> HIDE DEF next
  <2> QED
    BY <2>1, <2>2 DEF Injection, IsInjective
<1>5. next \in Surjection(Below, Below)
  BY <1>1, <1>4, FS_Injection
<1>6. PICK k \in Below : next[k] = 1
  BY <1>3, <1>5 DEF Surjection
<1> QED
  BY <1>6 DEF Below

LEMMA NewestIsRequest ==
  ASSUME TypeOK, NEW a, RequestsFor(a) # {}
  PROVE  Newest(a) \in RequestsFor(a)
<1>1. Len(asked) \in Nat /\ RequestsFor(a) \in SUBSET (1 .. Len(asked))
  BY DEF TypeOK, RequestsFor
<1>2. \E i \in RequestsFor(a) : \A j \in RequestsFor(a) : j <= i
  BY <1>1, LargestExists
<1> QED
  BY <1>2 DEF Newest

\* A request is never withdrawn, its decision never revised, its time never given back.
RequestsStand ==
  \A i \in DOMAIN asked :
    /\ i \in DOMAIN asked'
    /\ asked'[i].action = asked[i].action
    /\ asked[i].decision # None => asked'[i].decision = asked[i].decision
    /\ asked[i].expired => asked'[i].expired

LEMMA AnswersStand ==
  ASSUME RequestsStand, CallAssumption, NEW a
  PROVE  (Approved(a) => Approved(a)') /\ (Refused(a) => Refused(a)')
  BY DEF RequestsStand, Approved, Refused, RequestsFor

\* An answer the gate found is the answer of a request that was made.
LEMMA GateAnswers ==
  ASSUME TypeOK, CallAssumption, NEW a, RequestsFor(a) # {}
  PROVE  /\ Newest(a) \in DOMAIN asked
         /\ DecisionOf(Newest(a)) = "approve" => Approved(a)
         /\ DecisionOf(Newest(a)) = "deny" => Refused(a)
  BY NewestIsRequest DEF DecisionOf, Approved, Refused, RequestsFor, CallAssumption

-----------------------------------------------------------------------------
(* Runs *)

\* What a run may rely on stays true of a run that stays where it is.
LEMMA RunStays ==
  ASSUME RequestsStand, CallAssumption, TypeOK, NEW st \in RunState, Fits(st),
         performed' \in [Calls -> Nat], \A c \in Calls : performed[c] <= performed'[c]
  PROVE  Fits(st)'
<1>1. st.pc \in {"act", "settle"} => Permitted(st.call)'
  BY AnswersStand DEF Fits, Permitted
<1>2. st.pc = "refuse" => Refused(ActionOf[st.call])'
  BY AnswersStand DEF Fits
<1>3. st.pc = "settle" => performed'[st.call] > 0
  BY DEF Fits, TypeOK, Busy
<1> QED
  BY <1>1, <1>2, <1>3 DEF Fits

LEMMA CallStays ==
  ASSUME RequestsStand, CallAssumption, TypeOK, NEW c \in Calls, Truthful(c),
         performed'[c] = performed[c], ledger'[c] \in {ledger[c], "none", "PENDING", "FAILED"}
  PROVE  Truthful(c)'
<1>1. (Permitted(c) => Permitted(c)') /\ (Refused(ActionOf[c]) => Refused(ActionOf[c])')
  BY AnswersStand DEF Permitted
<1> QED
  BY <1>1 DEF Truthful, TypeOK

\* A step of one run.
LEMMA MoveKeeps ==
  ASSUME GateInv, CallAssumption, NEW r \in Runs, NEW new \in RunState,
         run' = [run EXCEPT ![r] = new], Fits(new)',
         RequestsStand, performed' \in [Calls -> Nat],
         \A c \in Calls : performed[c] <= performed'[c] /\ Truthful(c)'
  PROVE  /\ run' \in [Runs -> RunState]
         /\ \A q \in Runs : Fits(run[q])'
         /\ \A c \in Calls : Truthful(c)'
<1>1. run' \in [Runs -> RunState]
  BY DEF GateInv, TypeOK, RunState
<1>2. ASSUME NEW q \in Runs PROVE Fits(run[q])'
  <2>1. CASE q = r
    BY <2>1 DEF GateInv, TypeOK
  <2>2. CASE q # r
    <3>1. run'[q] = run[q] /\ run[q] \in RunState /\ Fits(run[q])
      BY <2>2 DEF GateInv, TypeOK, RunState
    <3> DEFINE st == run[q]
    <3>2. \A x \in RunState : Fits(x) => Fits(x)'
      BY RunStays DEF GateInv
    <3> QED
      BY <3>1, <3>2
  <2> QED
    BY <2>1, <2>2
<1> QED
  BY <1>1, <1>2

\* A run that only moves on, its call in hand as before.
LEMMA GotoIs ==
  ASSUME TypeOK, NEW r \in Runs, NEW pc \in Pc, Goto(r, pc)
  PROVE  \E new \in RunState : /\ run' = [run EXCEPT ![r] = new]
                               /\ new.pc = pc /\ new.call = run[r].call
<1> DEFINE new == [run[r] EXCEPT !.pc = pc]
<1>1. new \in RunState /\ new.pc = pc /\ new.call = run[r].call
  BY DEF TypeOK, RunState
<1>2. run' = [run EXCEPT ![r] = new]
  BY DEF Goto
<1> QED
  BY <1>1, <1>2

LEMMA GotoParkIs ==
  ASSUME TypeOK, NEW r \in Runs, NEW key \in WaitKey, GotoPark(r, key)
  PROVE  \E new \in RunState : /\ run' = [run EXCEPT ![r] = new]
                               /\ new.pc = "unlog" /\ new.call = run[r].call
<1> DEFINE new == [run[r] EXCEPT !.pc = "unlog", !.key = key]
<1>1. new \in RunState /\ new.pc = "unlog" /\ new.call = run[r].call
  BY DEF TypeOK, RunState, Pc
<1>2. run' = [run EXCEPT ![r] = new]
  BY DEF GotoPark
<1> QED
  BY <1>1, <1>2

LEMMA CallInHand ==
  ASSUME GateInv, NEW r \in Runs, run[r].pc \in Busy
  PROVE  run[r].call \in Calls
  BY DEF GateInv, Fits

\* Nothing but the run changes.
LEMMA StoreStays ==
  ASSUME GateInv, CallAssumption, UNCHANGED <<store, performed>>
  PROVE  /\ RequestsStand /\ performed' \in [Calls -> Nat]
         /\ \A c \in Calls : performed[c] <= performed'[c] /\ Truthful(c)'
<1>1. RequestsStand
  BY DEF RequestsStand, store
<1>2. performed' \in [Calls -> Nat] /\ \A c \in Calls : performed[c] <= performed'[c]
  BY DEF GateInv, TypeOK
<1>3. \A c \in Calls : Truthful(c)'
  BY <1>1, CallStays DEF GateInv, store
<1> QED
  BY <1>1, <1>2, <1>3

\* A step of one run that leaves the tables and the world alone.
LEMMA SilentKeeps ==
  ASSUME GateInv, CallAssumption, NEW r \in Runs, NEW new \in RunState,
         run' = [run EXCEPT ![r] = new], Fits(new)', UNCHANGED <<store, handler, ghosts>>
  PROVE  GateInv'
<1>1. /\ run' \in [Runs -> RunState]
      /\ \A q \in Runs : Fits(run[q])'
      /\ \A c \in Calls : Truthful(c)'
  BY StoreStays, MoveKeeps DEF ghosts
<1>2. TypeOK'
  BY <1>1 DEF GateInv, TypeOK, RunState, store, ghosts
<1> QED
  BY <1>1, <1>2 DEF GateInv

LEMMA CallToolKeeps ==
  ASSUME GateInv, CallAssumption, NEW r \in Runs, NEW c \in Calls, CallTool(r, c)
  PROVE  GateInv'
<1> DEFINE replayed == ledger[c] \in {"ok", "refused"}
           inHand == IF replayed THEN None ELSE c
           step == IF replayed THEN "model" ELSE "create"
           turns == run[r].turns + 1
           next == [run[r] EXCEPT !.turns = turns, !.call = inHand, !.pc = step]
<1>1. run[r] \in RunState /\ turns \in Nat
  BY DEF GateInv, TypeOK, RunState
<1>2. next \in RunState /\ next.pc \in {"model", "create"} /\ (next.pc = "create" => next.call = c)
  <2>1. /\ inHand \in Calls \cup {None} /\ step \in {"model", "create"}
        /\ step = "create" => inHand = c
    OBVIOUS
  <2> HIDE DEF inHand, step, turns
  <2>2. step \in Pc
    BY <2>1 DEF Pc
  <2> QED
    <3>1. PICK st \in RunState, n \in Nat : st = run[r] /\ n = turns
      BY <1>1
    <3>2. next = [st EXCEPT !.turns = n, !.call = inHand, !.pc = step]
      BY <3>1
    <3> HIDE DEF next
    <3>3. next \in RunState /\ next.call = inHand /\ next.pc = step
      BY <2>1, <2>2, <3>2 DEF RunState
    <3> QED
      BY <2>1, <3>3
<1>3. run' = [run EXCEPT ![r] = next] /\ UNCHANGED <<store, handler, ghosts>>
  BY DEF CallTool
<1> HIDE DEF next
<1>4. PICK new \in RunState : new = next
  BY <1>2
<1>5. Fits(new)'
  BY <1>2, <1>4 DEF Fits, Busy
<1> QED
  BY <1>3, <1>4, <1>5, SilentKeeps

\* The steps that only move the run on: to where it may be.
LEMMA GotoKeeps ==
  ASSUME GateInv, CallAssumption, NEW r \in Runs, NEW pc \in Pc \ {"settle"}, Goto(r, pc),
         UNCHANGED <<store, handler, ghosts>>, run[r].pc \in Busy,
         pc = "act" => Permitted(run[r].call), pc = "refuse" => Refused(ActionOf[run[r].call])
  PROVE  GateInv'
<1>1. RequestsStand /\ run[r].call \in Calls
  BY StoreStays, CallInHand DEF ghosts
<1>2. /\ Permitted(run[r].call) => \A c \in Calls : c = run[r].call => Permitted(c)'
      /\ Refused(ActionOf[run[r].call]) =>
           \A c \in Calls : c = run[r].call => Refused(ActionOf[c])'
  BY <1>1, AnswersStand DEF Permitted
<1>3. PICK new \in RunState : /\ run' = [run EXCEPT ![r] = new]
                              /\ new.pc = pc /\ new.call = run[r].call
  BY GotoIs DEF GateInv
<1>4. Fits(new)'
  BY <1>1, <1>2, <1>3 DEF Fits
<1> QED
  BY <1>3, <1>4, SilentKeeps

LEMMA GotoParkKeeps ==
  ASSUME GateInv, CallAssumption, NEW r \in Runs, NEW key \in WaitKey, GotoPark(r, key),
         UNCHANGED <<store, handler, ghosts>>, run[r].pc \in Busy
  PROVE  GateInv'
<1>1. PICK new \in RunState : /\ run' = [run EXCEPT ![r] = new]
                              /\ new.pc = "unlog" /\ new.call = run[r].call
  BY GotoParkIs DEF GateInv
<1>2. Fits(new)'
  BY <1>1, CallInHand DEF Fits
<1> QED
  BY <1>1, <1>2, SilentKeeps

\* Where the gate sends a run, and on whose word.
LEMMA CheckGoes ==
  ASSUME GateInv, CallAssumption, NEW r \in Runs, Check(r)
  PROVE  LET c == run[r].call IN
         \/ Goto(r, "act") /\ Permitted(c)
         \/ Goto(r, "file")
         \/ Goto(r, "refuse") /\ Refused(ActionOf[c])
         \/ \E key \in WaitKey : GotoPark(r, key)
<1> DEFINE c == run[r].call
           a == ActionOf[c]
<1>1. CASE a \notin Irreversible /\ Goto(r, "act")
  BY <1>1 DEF Permitted
<1>2. CASE a \in Irreversible /\ ~ owned /\ GotoPark(r, Orphan)
  BY <1>2 DEF WaitKey
<1>3. CASE a \in Irreversible /\ owned /\ RequestsFor(a) = {} /\ Goto(r, "file")
  BY <1>3
<1>4. CASE /\ a \in Irreversible /\ owned /\ RequestsFor(a) # {}
           /\ CASE DecisionOf(Newest(a)) = "approve" -> Goto(r, "act")
                [] DecisionOf(Newest(a)) = "deny"    -> Goto(r, "refuse")
                [] OTHER                             -> GotoPark(r, Newest(a))
  <2>1. /\ Newest(a) \in DOMAIN asked
        /\ DecisionOf(Newest(a)) = "approve" => Permitted(c)
        /\ DecisionOf(Newest(a)) = "deny" => Refused(a)
    BY <1>4, GateAnswers DEF Permitted, GateInv
  <2>2. Newest(a) \in WaitKey
    BY <2>1 DEF GateInv, TypeOK, WaitKey
  <2> QED
    BY <1>4, <2>1, <2>2
<1> QED
  BY <1>1, <1>2, <1>3, <1>4 DEF Check

LEMMA CheckKeeps ==
  ASSUME GateInv, CallAssumption, NEW r \in Runs, Check(r)
  PROVE  GateInv'
<1> DEFINE c == run[r].call
           a == ActionOf[c]
<1>1. run[r].pc \in Busy /\ UNCHANGED <<store, handler, ghosts>>
  BY DEF Check, At, Busy
<1>2. \/ Goto(r, "act") /\ Permitted(c)
      \/ Goto(r, "file")
      \/ Goto(r, "refuse") /\ Refused(a)
      \/ \E key \in WaitKey : GotoPark(r, key)
  BY CheckGoes
<1>3. CASE Goto(r, "act") /\ Permitted(c)
  BY <1>1, <1>3, GotoKeeps DEF Pc
<1>4. CASE Goto(r, "file")
  BY <1>1, <1>4, GotoKeeps DEF Pc
<1>5. CASE Goto(r, "refuse") /\ Refused(a)
  BY <1>1, <1>5, GotoKeeps DEF Pc
<1>6. CASE \E key \in WaitKey : GotoPark(r, key)
  BY <1>1, <1>6, GotoParkKeeps
<1> QED
  BY <1>2, <1>3, <1>4, <1>5, <1>6

-----------------------------------------------------------------------------
(* The steps that write *)

\* What is left of GateInv when asked does not change and a call or none is written.
LEMMA LedgerKeeps ==
  ASSUME GateInv, CallAssumption, NEW r \in Runs, NEW new \in RunState,
         run' = [run EXCEPT ![r] = new], Fits(new)', UNCHANGED <<owned, task, asked, handler>>,
         UNCHANGED ghosts, NEW c \in Calls, NEW row \in RowState,
         ledger' = [ledger EXCEPT ![c] = row],
         row = "ok" => performed[c] > 0 \/ ledger[c] = "ok",
         row = "refused" => Refused(ActionOf[c]) \/ ledger[c] = "refused"
  PROVE  GateInv'
<1>1. RequestsStand
  BY DEF RequestsStand
<1>2. performed' = performed /\ performed' \in [Calls -> Nat]
  BY DEF ghosts, GateInv, TypeOK
<1>3. ledger' \in [Calls -> RowState]
  BY DEF GateInv, TypeOK
<1>4. ASSUME NEW x \in Calls PROVE Truthful(x)'
  <2>1. (Permitted(x) => Permitted(x)') /\ (Refused(ActionOf[x]) => Refused(ActionOf[x])')
    BY <1>1, AnswersStand DEF Permitted
  <2>2. Truthful(x)
    BY DEF GateInv
  <2>3. CASE x = c
    BY <1>2, <2>1, <2>2, <2>3 DEF Truthful, GateInv, TypeOK
  <2>4. CASE x # c
    BY <1>2, <2>1, <2>2, <2>4 DEF Truthful, GateInv, TypeOK
  <2> QED
    BY <2>3, <2>4
<1>5. \A x \in Calls : performed[x] <= performed'[x] /\ Truthful(x)'
  BY <1>2, <1>4 DEF GateInv, TypeOK
<1>6. /\ run' \in [Runs -> RunState]
      /\ \A q \in Runs : Fits(run[q])'
  BY <1>1, <1>2, <1>5, MoveKeeps
<1>7. TypeOK'
  BY <1>3, <1>6 DEF GateInv, TypeOK, RunState, ghosts
<1> QED
  BY <1>4, <1>6, <1>7 DEF GateInv

LEMMA CreateToolCallKeeps ==
  ASSUME GateInv, CallAssumption, NEW r \in Runs, CreateToolCall(r)
  PROVE  GateInv'
<1> DEFINE c == run[r].call
           row == IF ledger[c] = "none" THEN "PENDING" ELSE ledger[c]
<1>1. c \in Calls
  BY CallInHand DEF CreateToolCall, At, Busy
<1>2. /\ row \in RowState /\ (row \in {"ok", "refused"} => ledger[c] = row)
      /\ ledger' = [ledger EXCEPT ![c] = row]
  BY <1>1 DEF CreateToolCall, GateInv, TypeOK, RowState
<1>3. PICK new \in RunState : run' = [run EXCEPT ![r] = new] /\ new.pc = "gate" /\ new.call = c
  BY GotoIs DEF CreateToolCall, GateInv, Pc
<1>4. Fits(new)'
  BY <1>1, <1>3 DEF Fits
<1>5. PICK x \in Calls, y \in RowState : x = c /\ y = row
  BY <1>1, <1>2
<1> QED
  BY <1>2, <1>3, <1>4, <1>5, LedgerKeeps DEF CreateToolCall

\* The outcome of a call is written to its row, if it still has one, and the run goes on.
LEMMA SettleKeeps ==
  ASSUME GateInv, CallAssumption, NEW r \in Runs, run[r].pc \in Busy,
         NEW outcome \in {"ok", "refused", "FAILED"}, SettleCall(run[r].call, outcome),
         outcome = "ok" => performed[run[r].call] > 0,
         outcome = "refused" => Refused(ActionOf[run[r].call]),
         run' = [run EXCEPT ![r].pc = "model", ![r].call = None],
         UNCHANGED <<owned, task, asked, handler, ghosts>>
  PROVE  GateInv'
<1> DEFINE c == run[r].call
           row == IF ledger[c] = "none" THEN "none" ELSE outcome
           next == [run[r] EXCEPT !.pc = "model", !.call = None]
<1>1. c \in Calls
  BY CallInHand
<1>2. row \in RowState /\ row \in {"none", outcome} /\ ledger' = [ledger EXCEPT ![c] = row]
  BY <1>1 DEF SettleCall, GateInv, TypeOK, RowState
<1>3. run[r] \in RunState
  BY DEF GateInv, TypeOK, RunState
<1>4. next \in RunState /\ next.pc = "model" /\ run' = [run EXCEPT ![r] = next]
  BY <1>3 DEF RunState, Pc
<1> HIDE DEF next
<1>5. PICK new \in RunState : new = next
  BY <1>4
<1>6. Fits(new)'
  BY <1>4, <1>5 DEF Fits, Busy
<1>7. PICK x \in Calls, y \in RowState : x = c /\ y = row
  BY <1>1, <1>2
<1> HIDE DEF c, row
<1> QED
  BY <1>2, <1>4, <1>5, <1>6, <1>7, LedgerKeeps DEF ghosts, c

LEMMA DeleteToolCallKeeps ==
  ASSUME GateInv, CallAssumption, NEW r \in Runs, DeleteToolCall(r)
  PROVE  GateInv'
<1> DEFINE c == run[r].call
<1>1. c \in Calls
  BY CallInHand DEF DeleteToolCall, At, Busy
<1>2. PICK new \in RunState : run' = [run EXCEPT ![r] = new] /\ new.pc = "park" /\ new.call = c
  BY GotoIs DEF DeleteToolCall, GateInv, Pc
<1>3. Fits(new)'
  BY <1>1, <1>2 DEF Fits
<1>4. PICK x \in Calls : x = c
  BY <1>1
<1>5. ledger' = [ledger EXCEPT ![x] = "none"] /\ "none" \in RowState
  BY <1>4 DEF DeleteToolCall, RowState
<1> QED
  BY <1>2, <1>3, <1>5, LedgerKeeps DEF DeleteToolCall, ghosts

LEMMA RunStepKeeps ==
  ASSUME GateInv, CallAssumption, NEW r \in Runs,
         Refuse(r) \/ Settle(r) \/ SettleRaised(r)
  PROVE  GateInv'
<1>1. run[r].pc \in Busy /\ Fits(run[r])
  BY DEF GateInv, Refuse, Settle, SettleRaised, At, Busy
<1>2. CASE Refuse(r)
  <2>1. Refused(ActionOf[run[r].call])
    BY <1>1, <1>2 DEF Refuse, At, Fits
  <2> QED
    BY <1>1, <1>2, <2>1, SettleKeeps DEF Refuse
<1>3. CASE Settle(r)
  <2>1. performed[run[r].call] > 0
    BY <1>1, <1>3 DEF Settle, At, Fits
  <2> QED
    BY <1>1, <1>3, <2>1, SettleKeeps DEF Settle
<1>4. CASE SettleRaised(r)
  BY <1>1, <1>4, SettleKeeps DEF SettleRaised
<1> QED
  BY <1>2, <1>3, <1>4

\* What the tool did is added to what its call did.
LEMMA ToolKeeps ==
  ASSUME GateInv, CallAssumption, NEW r \in Runs, NEW pc \in {"settle", "settleFailed"},
         At(r, "act"), Goto(r, pc), NEW n \in {0, 1}, pc = "settle" => n = 1,
         performed' = [performed EXCEPT ![run[r].call] = @ + n],
         forgotten' \in [Calls -> Nat],
         UNCHANGED <<store, handler, overran, unheard, crashes>>
  PROVE  GateInv'
<1> DEFINE c == run[r].call
<1>1. c \in Calls /\ Permitted(c)
  BY CallInHand DEF GateInv, Fits, At, Busy
<1>2. RequestsStand
  BY DEF RequestsStand, store
<1>3. /\ performed' \in [Calls -> Nat]
      /\ performed'[c] = performed[c] + n
      /\ \A x \in Calls : x # c => performed'[x] = performed[x]
      /\ \A x \in Calls : performed[x] <= performed'[x]
  BY <1>1 DEF GateInv, TypeOK
<1>4. ASSUME NEW x \in Calls PROVE Truthful(x)'
  <2>1. (Permitted(x) => Permitted(x)') /\ (Refused(ActionOf[x]) => Refused(ActionOf[x])')
    BY <1>2, AnswersStand DEF Permitted
  <2>2. Truthful(x) /\ ledger'[x] = ledger[x] /\ performed[x] \in Nat /\ performed'[x] \in Nat
    BY <1>3 DEF GateInv, TypeOK, store
  <2>3. performed'[x] > 0 => Permitted(x)
    BY <1>1, <1>3, <2>2 DEF Truthful
  <2> QED
    BY <1>3, <2>1, <2>2, <2>3 DEF Truthful
<1>5. PICK new \in RunState : run' = [run EXCEPT ![r] = new] /\ new.pc = pc /\ new.call = c
  BY GotoIs DEF GateInv, Pc
<1>6. Fits(new)'
  <2>1. \A x \in Calls : Permitted(x) => Permitted(x)'
    BY <1>2, AnswersStand DEF Permitted
  <2>2. pc = "settle" => performed'[c] > 0
    BY <1>1, <1>3 DEF GateInv, TypeOK
  <2>3. \A x \in Calls : x = c => Permitted(x)' /\ (pc = "settle" => performed'[x] > 0)
    BY <1>1, <2>1, <2>2
  <2> HIDE DEF c
  <2> QED
    BY <1>1, <1>5, <2>3 DEF Fits
<1>7. /\ run' \in [Runs -> RunState]
      /\ \A q \in Runs : Fits(run[q])'
  BY <1>2, <1>3, <1>4, <1>5, <1>6, MoveKeeps
<1>8. TypeOK'
  BY <1>3, <1>7 DEF GateInv, TypeOK, RunState, store
<1> QED
  BY <1>4, <1>7, <1>8 DEF GateInv

LEMMA ToolStepKeeps ==
  ASSUME GateInv, CallAssumption, NEW r \in Runs, ToolStep(r)
  PROVE  GateInv'
<1>1. run[r].pc \in Busy /\ run[r].call \in Calls /\ At(r, "act")
  BY CallInHand DEF ToolStep, ToolActs, ToolRaises, ToolParks, At, Busy
<1>2. CASE ToolActs(r)
  <2>1. forgotten' \in [Calls -> Nat]
    BY <1>2 DEF ToolActs, GateInv, TypeOK
  <2> QED
    BY <1>1, <1>2, <2>1, ToolKeeps DEF ToolActs
<1>3. CASE ToolRaises(r)
  <2>1. PICK n \in {0, 1} :
          /\ performed' = [performed EXCEPT ![run[r].call] = @ + n]
          /\ forgotten' = [forgotten EXCEPT ![run[r].call] = @ + n]
    BY <1>3 DEF ToolRaises
  <2>2. forgotten' \in [Calls -> Nat]
    BY <1>1, <2>1 DEF GateInv, TypeOK
  <2> QED
    BY <1>1, <1>3, <2>1, <2>2, ToolKeeps DEF ToolRaises
<1>4. CASE ToolParks(r)
  BY <1>1, <1>4, GotoParkKeeps DEF ToolParks, WaitKey
<1> QED
  BY <1>2, <1>3, <1>4 DEF ToolStep

\* The steps of a run that write the task or the requests beside its own state.
LEMMA TaskKeeps ==
  ASSUME GateInv, CallAssumption, NEW r \in Runs, NEW new \in RunState,
         run' = [run EXCEPT ![r] = new], Fits(new)',
         task' \in [status : {"READY", "RUNNING", "WAITING", "DONE"}, key : WaitKey],
         UNCHANGED <<owned, ledger, asked, handler, ghosts>>
  PROVE  GateInv'
<1>1. RequestsStand /\ performed' = performed /\ performed' \in [Calls -> Nat]
  BY DEF RequestsStand, ghosts, GateInv, TypeOK
<1>2. \A c \in Calls : performed[c] <= performed'[c] /\ Truthful(c)'
  BY <1>1, CallStays DEF GateInv, TypeOK
<1>3. /\ run' \in [Runs -> RunState]
      /\ \A q \in Runs : Fits(run[q])'
  BY <1>1, <1>2, MoveKeeps
<1>4. TypeOK'
  BY <1>3 DEF GateInv, TypeOK, RunState, ghosts
<1> QED
  BY <1>2, <1>3, <1>4 DEF GateInv

LEMMA TaskRow == TypeOK => task.status \in {"READY", "RUNNING", "WAITING", "DONE"} /\ task.key \in WaitKey
  BY DEF TypeOK

\* The run ends, or parks, with no call in hand.
LEMMA OverIs ==
  ASSUME TypeOK, NEW r \in Runs, run' = [run EXCEPT ![r].pc = "over", ![r].call = None]
  PROVE  \E new \in RunState : run' = [run EXCEPT ![r] = new] /\ new.pc = "over"
<1> DEFINE new == [run[r] EXCEPT !.pc = "over", !.call = None]
<1>1. new \in RunState /\ new.pc = "over"
  BY DEF TypeOK, RunState, Pc
<1>2. run' = [run EXCEPT ![r] = new]
  OBVIOUS
<1> QED
  BY <1>1, <1>2

LEMMA TaskStepKeeps ==
  ASSUME GateInv, CallAssumption, NEW r \in Runs,
         Claim(r) \/ FileClashes(r) \/ Park(r) \/ EndRun(r)
  PROVE  GateInv'
<1> DEFINE TaskRows == [status : {"READY", "RUNNING", "WAITING", "DONE"}, key : WaitKey]
<1>1. \E new \in RunState : run' = [run EXCEPT ![r] = new] /\ new.pc \in {"model", "over"}
  <2>1. CASE Claim(r)
    BY <2>1, GotoIs DEF Claim, GateInv, Pc
  <2>2. CASE FileClashes(r)
    BY <2>2, OverIs DEF FileClashes, GateInv
  <2>3. CASE Park(r)
    BY <2>3, OverIs DEF Park, GateInv
  <2>4. CASE EndRun(r)
    BY <2>4, GotoIs DEF EndRun, GateInv, Pc
  <2> QED
    BY <2>1, <2>2, <2>3, <2>4
<1>2. PICK new \in RunState : run' = [run EXCEPT ![r] = new] /\ new.pc \in {"model", "over"}
  BY <1>1
<1>3. Fits(new)'
  BY <1>2 DEF Fits, Busy
<1>4. task' \in TaskRows
  <2>1. task \in TaskRows /\ run[r].key \in WaitKey /\ None \in WaitKey
    BY DEF GateInv, TypeOK, WaitKey
  <2>2. CASE Claim(r)
    BY <2>1, <2>2 DEF Claim
  <2>3. CASE FileClashes(r)
    BY <2>1, <2>3 DEF FileClashes
  <2>4. CASE Park(r)
    BY <2>1, <2>4 DEF Park
  <2>5. CASE EndRun(r)
    BY <2>1, <2>5 DEF EndRun
  <2> QED
    BY <2>2, <2>3, <2>4, <2>5
<1>5. UNCHANGED <<owned, ledger, asked, handler, ghosts>>
  BY DEF Claim, FileClashes, Park, EndRun
<1> QED
  BY <1>2, <1>3, <1>4, <1>5, TaskKeeps

-----------------------------------------------------------------------------
(* The steps that write requests *)

LEMMA FileRequestKeeps ==
  ASSUME GateInv, CallAssumption, NEW r \in Runs, FileRequest(r)
  PROVE  GateInv'
<1> DEFINE a == ActionOf[run[r].call]
           request == [action |-> a, decision |-> None, expired |-> FALSE]
<1>1. run[r].call \in Calls /\ asked \in Seq(Request)
  BY CallInHand DEF FileRequest, At, Busy, GateInv, TypeOK
<1>2. request \in Request /\ asked' = Append(asked, request)
  BY <1>1, CallAssumption DEF FileRequest, Request
<1> HIDE DEF request
<1>3. asked' \in Seq(Request) /\ Len(asked) + 1 \in Nat /\ RequestsStand
  BY <1>1, <1>2 DEF RequestsStand
<1>4. PICK new \in RunState : /\ run' = [run EXCEPT ![r] = new]
                              /\ new.pc = "unlog" /\ new.call = run[r].call
  BY <1>3, GotoParkIs DEF FileRequest, GateInv, WaitKey
<1>5. Fits(new)'
  BY <1>1, <1>4 DEF Fits
<1>6. performed' = performed /\ performed' \in [Calls -> Nat]
  BY DEF FileRequest, ghosts, GateInv, TypeOK
<1>7. \A c \in Calls : performed[c] <= performed'[c] /\ Truthful(c)'
  BY <1>3, <1>6, CallStays DEF FileRequest, GateInv, TypeOK
<1>8. /\ run' \in [Runs -> RunState]
      /\ \A q \in Runs : Fits(run[q])'
  BY <1>3, <1>4, <1>5, <1>6, <1>7, MoveKeeps
<1>9. TypeOK'
  BY <1>3, <1>8 DEF FileRequest, GateInv, TypeOK, RunState, ghosts
<1> QED
  BY <1>7, <1>8, <1>9 DEF GateInv

\* A step of nobody's run.
LEMMA OutsideKeeps ==
  ASSUME GateInv, CallAssumption, TypeOK', RequestsStand,
         UNCHANGED <<ledger, run, performed>>
  PROVE  GateInv'
<1>1. performed' \in [Calls -> Nat] /\ \A c \in Calls : performed[c] <= performed'[c]
  BY DEF GateInv, TypeOK
<1>2. \A c \in Calls : Truthful(c)'
  BY CallStays DEF GateInv
<1>3. ASSUME NEW q \in Runs PROVE Fits(run[q])'
  <2>1. run'[q] = run[q] /\ run[q] \in RunState /\ Fits(run[q])
    BY DEF GateInv, TypeOK, RunState
  <2>2. \A x \in RunState : Fits(x) => Fits(x)'
    BY <1>1, RunStays DEF GateInv
  <2> QED
    BY <2>1, <2>2
<1> QED
  BY <1>2, <1>3 DEF GateInv

\* A request is answered or runs out of time.
LEMMA WriteRequest ==
  ASSUME TypeOK, NEW i \in DOMAIN asked, NEW request \in Request,
         asked' = [asked EXCEPT ![i] = request], request.action = asked[i].action,
         asked[i].decision # None => request.decision = asked[i].decision,
         asked[i].expired => request.expired
  PROVE  asked' \in Seq(Request) /\ RequestsStand
<1>1. asked \in Seq(Request) /\ i \in 1 .. Len(asked)
  BY DEF TypeOK
<1>2. /\ asked' \in Seq(Request) /\ Len(asked') = Len(asked)
      /\ \A j \in 1 .. Len(asked) : asked'[j] = IF j = i THEN request ELSE asked[j]
  BY <1>1, ExceptSeq, SMT
<1> QED
  BY <1>1, <1>2 DEF RequestsStand

LEMMA DecideKeeps ==
  ASSUME GateInv, CallAssumption, NEW i \in DOMAIN asked, NEW d \in {"approve", "deny"},
         Decide(i, d)
  PROVE  GateInv'
<1> DEFINE decision == IF asked[i].decision = None THEN d ELSE asked[i].decision
           request == [asked[i] EXCEPT !.decision = decision]
<1>1. asked \in Seq(Request) /\ asked[i] \in Request /\ i \in Nat
  BY DEF GateInv, TypeOK
<1>2. decision \in {"approve", "deny", None} /\ (asked[i].decision # None => decision = asked[i].decision)
  BY <1>1 DEF Request
<1>3. asked' = [asked EXCEPT ![i] = request]
  BY DEF Decide
<1> HIDE DEF decision
<1>4. /\ request \in Request /\ request.action = asked[i].action
      /\ request.decision = decision /\ request.expired = asked[i].expired
  BY <1>1, <1>2 DEF Request
<1>5. asked' \in Seq(Request) /\ RequestsStand
  BY <1>2, <1>3, <1>4, WriteRequest DEF GateInv
<1>6. TypeOK'
  BY <1>1, <1>5 DEF Decide, GateInv, TypeOK
<1> QED
  BY <1>5, <1>6, OutsideKeeps DEF Decide

LEMMA ExpireKeeps ==
  ASSUME GateInv, CallAssumption, NEW i \in DOMAIN asked, Expire(i)
  PROVE  GateInv'
<1> DEFINE request == [asked[i] EXCEPT !.expired = TRUE]
<1>1. asked \in Seq(Request) /\ asked[i] \in Request
  BY DEF GateInv, TypeOK
<1>2. asked' = [asked EXCEPT ![i] = request]
  BY DEF Expire
<1>3. /\ request \in Request /\ request.action = asked[i].action
      /\ request.decision = asked[i].decision /\ request.expired
  BY <1>1 DEF Request
<1>4. asked' \in Seq(Request) /\ RequestsStand
  BY <1>2, <1>3, WriteRequest DEF GateInv
<1>5. TypeOK'
  BY <1>4 DEF Expire, GateInv, TypeOK, ghosts
<1> QED
  BY <1>4, <1>5, OutsideKeeps DEF Expire, ghosts

-----------------------------------------------------------------------------
(* The handler, and the world *)

LEMMA WorldKeeps ==
  ASSUME GateInv, CallAssumption, Resume \/ Grant \/ LoseLease
  PROVE  GateInv'
<1>1. UNCHANGED <<owned, ledger, asked, run, performed, forgotten, crashes>>
  BY DEF Resume, Grant, LoseLease, ghosts
<1>2. /\ task' \in [status : {"READY", "RUNNING", "WAITING", "DONE"}, key : WaitKey]
      /\ handler' \in [pc : {"idle", "resume"}, request : Nat]
      /\ {overran', unheard'} \subseteq BOOLEAN
  <2>1. None \in WaitKey /\ task \in [status : {"READY", "RUNNING", "WAITING", "DONE"}, key : WaitKey]
    BY DEF WaitKey, GateInv, TypeOK
  <2>2. CASE Resume
    BY <2>1, <2>2 DEF Resume, Idle, ghosts, GateInv, TypeOK
  <2>3. CASE Grant
    BY <2>1, <2>3 DEF Grant, ghosts, GateInv, TypeOK
  <2>4. CASE LoseLease
    BY <2>1, <2>4 DEF LoseLease, GateInv, TypeOK
  <2> QED
    BY <2>2, <2>3, <2>4
<1>3. TypeOK'
  BY <1>1, <1>2 DEF GateInv, TypeOK
<1>4. RequestsStand
  BY <1>1 DEF RequestsStand
<1> QED
  BY <1>1, <1>3, <1>4, OutsideKeeps

Settling(c) == {r \in Runs : At(r, "settle") /\ run[r].call = c}

LEMMA SettlingFinite ==
  ASSUME BoundAssumption, NEW c
  PROVE  Cardinality(Settling(c)) \in Nat /\ (Settling(c) # {} => Cardinality(Settling(c)) > 0)
<1>1. IsFiniteSet(Runs)
  BY FS_Interval DEF BoundAssumption, Runs
<1>2. IsFiniteSet(Settling(c))
  BY <1>1, FS_Subset DEF Settling
<1> QED
  BY <1>2, FS_CardinalityType, FS_EmptySet

LEMMA CrashKeeps ==
  ASSUME GateInv, CallAssumption, BoundAssumption, Crash
  PROVE  GateInv'
<1>1. UNCHANGED <<owned, ledger, asked, performed, overran>>
  BY DEF Crash
<1>2. RequestsStand
  BY <1>1 DEF RequestsStand
<1>3. ASSUME NEW q \in Runs
      PROVE  run'[q] \in RunState /\ (run'[q] = run[q] \/ run'[q].pc = "over")
  <2>1. run[q] \in RunState
    BY DEF GateInv, TypeOK, RunState
  <2>2. /\ [run[q] EXCEPT !.pc = "over", !.call = None] \in RunState
        /\ [run[q] EXCEPT !.pc = "over", !.call = None].pc = "over"
    BY <2>1 DEF RunState, Pc
  <2> QED
    BY <2>1, <2>2 DEF Crash
<1>4. run' \in [Runs -> RunState]
  BY <1>3 DEF Crash
<1>5. forgotten' \in [Calls -> Nat]
  <2>1. forgotten' = [c \in Calls |-> forgotten[c] + Cardinality(Settling(c))]
    BY DEF Crash, Settling
  <2> QED
    BY <2>1, SettlingFinite DEF GateInv, TypeOK
<1>6. TypeOK'
  <2>1. handler' \in [pc : {"idle", "resume"}, request : Nat]
    BY DEF Crash, Idle
  <2>2. task' \in [status : {"READY", "RUNNING", "WAITING", "DONE"}, key : WaitKey]
    BY DEF Crash, GateInv, TypeOK
  <2>3. crashes' \in Nat
    <3>1. crashes' = crashes + 1
      BY DEF Crash
    <3> QED
      BY <3>1 DEF GateInv, TypeOK
  <2>4. unheard' \in BOOLEAN
    BY Zenon DEF Crash
  <2> QED
    BY <1>1, <1>4, <1>5, <2>1, <2>2, <2>3, <2>4 DEF GateInv, TypeOK, RunState
<1>7. performed' \in [Calls -> Nat] /\ \A c \in Calls : performed[c] <= performed'[c]
  BY <1>1 DEF GateInv, TypeOK
<1>8. \A c \in Calls : Truthful(c)'
  BY <1>1, <1>2, CallStays DEF GateInv
<1>9. ASSUME NEW q \in Runs PROVE Fits(run[q])'
  <2>1. CASE run'[q].pc = "over"
    BY <2>1 DEF Fits, Busy
  <2>2. CASE run'[q] = run[q]
    <3>1. run[q] \in RunState /\ Fits(run[q])
      BY DEF GateInv, TypeOK, RunState
    <3>2. \A x \in RunState : Fits(x) => Fits(x)'
      BY <1>2, <1>7, RunStays DEF GateInv
    <3> QED
      BY <2>2, <3>1, <3>2
  <2> QED
    BY <1>3, <2>1, <2>2
<1> QED
  BY <1>6, <1>8, <1>9 DEF GateInv

-----------------------------------------------------------------------------
LEMMA GateInit == CallAssumption /\ Init => GateInv
<1> SUFFICES ASSUME CallAssumption, Init PROVE GateInv
  OBVIOUS
<1> USE DEF Init
<1>1. TypeOK
  <2>1. asked \in Seq(Request)
    OBVIOUS
  <2>2. run \in [Runs -> RunState]
    BY DEF RunState, Pc, WaitKey
  <2>3. /\ task \in [status : {"READY", "RUNNING", "WAITING", "DONE"}, key : WaitKey]
        /\ handler \in [pc : {"idle", "resume"}, request : Nat]
        /\ owned \in BOOLEAN /\ {overran, unheard} \subseteq BOOLEAN
    BY DEF Idle, WaitKey
  <2>4. /\ ledger \in [Calls -> RowState]
        /\ performed \in [Calls -> Nat] /\ forgotten \in [Calls -> Nat] /\ crashes \in Nat
    BY DEF RowState
  <2> HIDE DEF Init
  <2> QED
    BY <2>1, <2>2, <2>3, <2>4 DEF TypeOK, RunState
<1>2. \A r \in Runs : Fits(run[r])
  BY DEF Fits, Busy
<1>3. \A c \in Calls : Truthful(c)
  BY DEF Truthful
<1> QED
  BY <1>1, <1>2, <1>3 DEF GateInv

LEMMA GateStep == GateInv /\ [Next]_vars => GateInv'
<1> SUFFICES ASSUME GateInv, [Next]_vars PROVE GateInv'
  OBVIOUS
<1> USE CallAssumption, BoundAssumption
<1>1. ASSUME NEW r \in Runs, RunStep(r) PROVE GateInv'
  <2>1. CASE Check(r)
    BY <2>1, CheckKeeps
  <2>2. CASE CreateToolCall(r) \/ DeleteToolCall(r)
    BY <2>2, CreateToolCallKeeps, DeleteToolCallKeeps
  <2>3. CASE FileRequest(r)
    BY <2>3, FileRequestKeeps
  <2>4. CASE FileClashes(r) \/ Park(r)
    BY <2>4, TaskStepKeeps
  <2>5. CASE Refuse(r) \/ Settle(r) \/ SettleRaised(r)
    BY <2>5, RunStepKeeps
  <2> QED
    BY <1>1, <2>1, <2>2, <2>3, <2>4, <2>5 DEF RunStep
<1>2. ASSUME NEW r \in Runs, Claim(r) \/ EndRun(r) PROVE GateInv'
  BY <1>2, TaskStepKeeps
<1>3. ASSUME NEW r \in Runs, ToolStep(r) \/ \E c \in Calls : CallTool(r, c) PROVE GateInv'
  BY <1>3, ToolStepKeeps, CallToolKeeps
<1>4. ASSUME NEW i \in DOMAIN asked,
             Expire(i) \/ \E d \in {"approve", "deny"} : Decide(i, d)
      PROVE  GateInv'
  BY <1>4, ExpireKeeps, DecideKeeps
<1>5. CASE Resume \/ Grant \/ LoseLease \/ Crash
  BY <1>5, WorldKeeps, CrashKeeps
<1>6. CASE UNCHANGED vars
  <2>1. UNCHANGED <<store, run, handler, ghosts>>
    BY <1>6 DEF vars
  <2>2. TypeOK'
    BY <2>1 DEF GateInv, TypeOK, store, ghosts
  <2>3. RequestsStand
    BY <2>1 DEF RequestsStand, store
  <2> QED
    BY <2>1, <2>2, <2>3, OutsideKeeps DEF store, ghosts
<1> QED
  BY <1>1, <1>2, <1>3, <1>4, <1>5, <1>6 DEF Next

\* The table, the requests and the runs past the gate agree in every state.
THEOREM GateInvHolds == Spec => []GateInv
  BY GateInit, GateStep, CallAssumption, PTL DEF Spec

\* Every variable keeps its type.
THEOREM TypeCorrect == Spec => []TypeOK
  BY GateInvHolds, PTL DEF GateInv

\* An irreversible action took effect only if somebody approved exactly that
\* action (tools/approval.py), whatever the runs, the spellings and the crashes.
THEOREM ApprovedFirstHolds == Spec => []ApprovedFirst
<1>1. GateInv => ApprovedFirst
  BY DEF GateInv, Truthful, Permitted, Approved, ApprovedFirst
<1> QED
  BY <1>1, GateInvHolds, PTL

\* What a later run is told in the tool's place did happen
\* (_execute_tool_idempotent of agent_runner.py).
THEOREM ReplayIsTrueHolds == Spec => []ReplayIsTrue
<1>1. GateInv => ReplayIsTrue
  BY DEF GateInv, Truthful, Refused, ReplayIsTrue
<1> QED
  BY <1>1, GateInvHolds, PTL

-----------------------------------------------------------------------------
(* One run at a time *)

\* What a run that works alone knows of the row of its call.
HasRow(st) ==
  /\ st.pc = "create" => ledger[st.call] \notin {"ok", "refused"}
  /\ st.pc \in Busy \ {"create", "park"} => ledger[st.call] \in {"PENDING", "FAILED"}

\* The call took effect, and that is on record or about to be.
OnRecord(c) == ledger[c] = "ok" \/ \E r \in Runs : At(r, "settle") /\ run[r].call = c

Counted(c) == performed[c] <= forgotten[c] + (IF OnRecord(c) THEN 1 ELSE 0)

Alone ==
  /\ \A r \in Runs : Alive(r) => task.status = "RUNNING"
  /\ \A r, q \in Runs : Alive(r) /\ Alive(q) => r = q
  /\ \A r \in Runs : HasRow(run[r])
  /\ \A c \in Calls : Counted(c)

SoloInv == ~ overran => Alone

\* Nothing is done or forgotten, and what was on record stays on record.
LEMMA CountStays ==
  ASSUME GateInv, Alone, UNCHANGED <<performed, forgotten>>,
         \A c \in Calls : OnRecord(c) => OnRecord(c)'
  PROVE  \A c \in Calls : Counted(c)'
  BY DEF Alone, Counted, GateInv, TypeOK

\* The run that moves is, or becomes, the only one.
LEMMA AloneMoves ==
  ASSUME GateInv, Alone, NEW r \in Runs, NEW new \in RunState, run' = [run EXCEPT ![r] = new],
         Alive(r) \/ task.status = "READY",
         new.pc \in Pc \ {"waiting", "over"} => task'.status = "RUNNING",
         HasRow(new)', \A c \in Calls : Counted(c)'
  PROVE  Alone'
<1>1. \A q \in Runs : q # r => ~ Alive(q)
  BY DEF Alone
<1>2. run'[r] = new /\ \A q \in Runs : q # r => run'[q] = run[q] /\ run[q] \in RunState
  BY DEF GateInv, TypeOK, RunState
<1>3. \A q \in Runs : q # r => ~ Alive(q)'
  BY <1>1, <1>2 DEF Alive, At
<1>4. \A q \in Runs : Alive(q)' => q = r /\ task'.status = "RUNNING"
  BY <1>2, <1>3 DEF Alive, At, RunState
<1>5. ASSUME NEW q \in Runs PROVE HasRow(run[q])'
  <2>1. CASE q = r
    BY <1>2, <2>1 DEF HasRow
  <2>2. CASE q # r
    BY <1>2, <1>3, <2>2 DEF HasRow, Alive, At, Busy
  <2> QED
    BY <2>1, <2>2
<1> QED
  BY <1>4, <1>5 DEF Alone

\* The run moves between steps that leave no trace in the count.
LEMMA UncountedMove ==
  ASSUME GateInv, Alone, NEW r \in Runs, NEW new \in RunState, run' = [run EXCEPT ![r] = new],
         ~ At(r, "settle"), UNCHANGED <<performed, forgotten>>,
         \A c \in Calls : ledger[c] = "ok" => ledger'[c] = "ok"
  PROVE  \A c \in Calls : Counted(c)'
<1>1. \A q \in Runs : At(q, "settle") => run'[q] = run[q]
  BY DEF GateInv, TypeOK, At
<1>2. \A c \in Calls : OnRecord(c) => OnRecord(c)'
  BY <1>1 DEF OnRecord, At
<1> QED
  BY <1>2, CountStays

LEMMA AliveAt ==
  ASSUME NEW r \in Runs, run[r].pc \in Busy \cup {"model"}
  PROVE  Alive(r)
  BY DEF Alive, At, Busy

\* The steps of a run that write neither the ledger nor the task.
LEMMA SilentAlone ==
  ASSUME GateInv, Alone, NEW r \in Runs, NEW new \in RunState, run' = [run EXCEPT ![r] = new],
         Alive(r), ~ At(r, "settle"), HasRow(new),
         UNCHANGED <<task, ledger, performed, forgotten>>
  PROVE  Alone'
<1>1. \A c \in Calls : Counted(c)'
  BY UncountedMove
<1>2. task'.status = "RUNNING" /\ HasRow(new)'
  BY DEF Alone, HasRow
<1> QED
  BY <1>1, <1>2, AloneMoves

LEMMA CallToolAlone ==
  ASSUME GateInv, CallAssumption, Alone, NEW r \in Runs, NEW c \in Calls, CallTool(r, c)
  PROVE  Alone'
<1> DEFINE replayed == ledger[c] \in {"ok", "refused"}
           inHand == IF replayed THEN None ELSE c
           step == IF replayed THEN "model" ELSE "create"
           turns == run[r].turns + 1
           next == [run[r] EXCEPT !.turns = turns, !.call = inHand, !.pc = step]
<1>1. PICK st \in RunState, n \in Nat : st = run[r] /\ n = turns
  BY DEF GateInv, TypeOK, RunState
<1>2. run' = [run EXCEPT ![r] = next] /\ UNCHANGED <<store, handler, ghosts>>
  BY DEF CallTool
<1>3. /\ inHand \in Calls \cup {None} /\ step \in {"model", "create"}
      /\ step = "create" => inHand = c /\ ledger[c] \notin {"ok", "refused"}
  OBVIOUS
<1> HIDE DEF inHand, step, turns
<1>4. next = [st EXCEPT !.turns = n, !.call = inHand, !.pc = step]
  BY <1>1
<1> HIDE DEF next
<1>5. next \in RunState /\ next.call = inHand /\ next.pc = step
  BY <1>3, <1>4 DEF RunState, Pc
<1>6. PICK new \in RunState : new = next
  BY <1>5
<1>7. HasRow(new)
  BY <1>3, <1>5, <1>6 DEF HasRow, Busy
<1>8. Alive(r) /\ ~ At(r, "settle")
  BY DEF CallTool, Alive, At
<1> QED
  BY <1>2, <1>6, <1>7, <1>8, SilentAlone DEF store, ghosts

\* From the row's creation to its deletion the run goes from step to step.
LEMMA GotoAlone ==
  ASSUME GateInv, Alone, NEW r \in Runs, run[r].pc \in Busy \ {"create", "park", "settle"},
         \/ \E pc \in Busy \ {"create", "park"} : Goto(r, pc)
         \/ \E key \in WaitKey : GotoPark(r, key),
         UNCHANGED <<task, ledger, performed, forgotten>>
  PROVE  Alone'
<1>1. PICK new \in RunState : /\ run' = [run EXCEPT ![r] = new] /\ new.call = run[r].call
                              /\ new.pc \in Busy \ {"create", "park"}
  BY GotoIs, GotoParkIs DEF GateInv, Busy, Pc
<1>2. HasRow(new)
  BY <1>1 DEF Alone, HasRow
<1>3. Alive(r) /\ ~ At(r, "settle")
  BY AliveAt DEF At
<1> QED
  BY <1>1, <1>2, <1>3, SilentAlone

LEMMA CreateToolCallAlone ==
  ASSUME GateInv, Alone, NEW r \in Runs, CreateToolCall(r)
  PROVE  Alone'
<1>1. PICK c \in Calls : c = run[r].call
  BY CallInHand DEF CreateToolCall, At, Busy
<1>2. PICK new \in RunState : run' = [run EXCEPT ![r] = new] /\ new.pc = "gate" /\ new.call = c
  BY <1>1, GotoIs DEF CreateToolCall, GateInv, Pc
<1>3. /\ ledger' = [ledger EXCEPT ![c] = IF ledger[c] = "none" THEN "PENDING" ELSE ledger[c]]
      /\ UNCHANGED <<task, performed, forgotten>> /\ At(r, "create")
  BY <1>1 DEF CreateToolCall, ghosts
<1>4. ledger[c] \in RowState \ {"ok", "refused"}
  BY <1>1, <1>3 DEF Alone, HasRow, At, GateInv, TypeOK
<1>5. HasRow(new)' /\ \A x \in Calls : ledger[x] = "ok" => ledger'[x] = "ok"
  BY <1>2, <1>3, <1>4 DEF HasRow, RowState, GateInv, TypeOK
<1>6. Alive(r) /\ ~ At(r, "settle")
  BY <1>3 DEF Alive, At
<1>7. \A x \in Calls : Counted(x)'
  BY <1>2, <1>3, <1>5, <1>6, UncountedMove
<1>8. task'.status = "RUNNING"
  BY <1>3, <1>6 DEF Alone
<1> QED
  BY <1>2, <1>5, <1>6, <1>7, <1>8, AloneMoves

\* The row of the call in hand is not one that counts, and may be overwritten.
LEMMA OverwriteAlone ==
  ASSUME GateInv, Alone, NEW r \in Runs, run[r].pc \in Busy \ {"create", "park", "settle"},
         NEW new \in RunState, run' = [run EXCEPT ![r] = new], new.pc \in {"model", "park"},
         NEW row, ledger' = [ledger EXCEPT ![run[r].call] = row],
         UNCHANGED <<task, performed, forgotten>>
  PROVE  Alone'
<1>1. PICK c \in Calls : c = run[r].call
  BY CallInHand
<1>2. ledger[c] # "ok"
  BY <1>1 DEF Alone, HasRow
<1>3. \A x \in Calls : ledger[x] = "ok" => ledger'[x] = "ok"
  BY <1>1, <1>2 DEF GateInv, TypeOK
<1>4. Alive(r) /\ ~ At(r, "settle")
  BY AliveAt DEF At
<1>5. \A x \in Calls : Counted(x)'
  BY <1>3, <1>4, UncountedMove
<1>6. HasRow(new)' /\ task'.status = "RUNNING"
  BY <1>4 DEF HasRow, Alone, Busy
<1> QED
  BY <1>4, <1>5, <1>6, AloneMoves

LEMMA NextOf ==
  ASSUME TypeOK, NEW r \in Runs, run' = [run EXCEPT ![r].pc = "model", ![r].call = None]
  PROVE  \E new \in RunState : run' = [run EXCEPT ![r] = new] /\ new.pc = "model"
<1> DEFINE new == [run[r] EXCEPT !.pc = "model", !.call = None]
<1>1. new \in RunState /\ new.pc = "model"
  BY DEF TypeOK, RunState, Pc
<1>2. run' = [run EXCEPT ![r] = new]
  OBVIOUS
<1> QED
  BY <1>1, <1>2

LEMMA SettleAlone ==
  ASSUME GateInv, CallAssumption, Alone, NEW r \in Runs, Settle(r)
  PROVE  Alone'
<1>1. PICK c \in Calls : c = run[r].call
  BY CallInHand DEF Settle, At, Busy
<1>2. PICK new \in RunState : run' = [run EXCEPT ![r] = new] /\ new.pc = "model"
  BY NextOf DEF Settle, GateInv
<1>3. At(r, "settle") /\ Alive(r) /\ ledger[c] \in {"PENDING", "FAILED"}
  BY <1>1 DEF Settle, At, Alive, Alone, HasRow, Busy
<1>4. /\ ledger' = [ledger EXCEPT ![c] = "ok"]
      /\ UNCHANGED <<task, performed, forgotten>>
  BY <1>1, <1>3 DEF Settle, SettleCall, ghosts
<1>5. ASSUME NEW x \in Calls, OnRecord(x) PROVE OnRecord(x)'
  <2>1. ledger'[c] = "ok" /\ (ledger[x] = "ok" => ledger'[x] = "ok")
    BY <1>3, <1>4 DEF GateInv, TypeOK
  <2>2. \A q \in Runs : At(q, "settle") => q = r
    BY <1>3 DEF Alone, Alive, At
  <2> QED
    BY <1>1, <1>5, <2>1, <2>2 DEF OnRecord
<1>6. \A x \in Calls : Counted(x)'
  BY <1>4, <1>5, CountStays
<1>7. HasRow(new)' /\ task'.status = "RUNNING"
  BY <1>2, <1>3, <1>4 DEF HasRow, Alone, Busy
<1> QED
  BY <1>2, <1>3, <1>6, <1>7, AloneMoves

\* The tool answers or raises: a call that was not on record is done at most once more.
LEMMA ToolAlone ==
  ASSUME GateInv, CallAssumption, Alone, NEW r \in Runs, ToolActs(r) \/ ToolRaises(r)
  PROVE  Alone'
<1>1. PICK c \in Calls : c = run[r].call
  BY CallInHand DEF ToolActs, ToolRaises, At, Busy
<1>2. At(r, "act") /\ Alive(r) /\ ledger[c] \in {"PENDING", "FAILED"}
  BY <1>1 DEF ToolActs, ToolRaises, At, Alive, Alone, HasRow, Busy
<1>3. UNCHANGED <<task, ledger>>
  BY DEF ToolActs, ToolRaises, store
<1>4. PICK new \in RunState : /\ run' = [run EXCEPT ![r] = new] /\ new.call = c
                              /\ new.pc \in {"settle", "settleFailed"}
                              /\ ToolActs(r) => new.pc = "settle"
  <2>1. CASE ToolActs(r)
    BY <1>1, <2>1, GotoIs DEF ToolActs, GateInv, Pc
  <2>2. CASE ToolRaises(r) /\ ~ ToolActs(r)
    BY <1>1, <2>2, GotoIs DEF ToolRaises, GateInv, Pc
  <2> QED
    BY <2>1, <2>2
<1>5. run'[r] = new /\ \A q \in Runs : q # r => run'[q] = run[q]
  BY <1>4 DEF GateInv, TypeOK
<1>6. ~ OnRecord(c)
  <2>1. \A q \in Runs : ~ At(q, "settle")
    BY <1>2 DEF Alone, Alive, At
  <2> QED
    BY <1>2, <2>1 DEF OnRecord
<1>7. \A x \in Calls : OnRecord(x) => OnRecord(x)'
  BY <1>2, <1>3, <1>5 DEF OnRecord, At
<1>8. ASSUME NEW x \in Calls PROVE Counted(x)'
  <2>1. /\ performed[x] \in Nat /\ forgotten[x] \in Nat /\ Counted(x)
        /\ performed \in [Calls -> Nat] /\ forgotten \in [Calls -> Nat]
    BY DEF GateInv, TypeOK, Alone
  <2>2. CASE x # c
    <3>1. performed'[x] = performed[x] /\ forgotten'[x] = forgotten[x]
      BY <1>1, <2>1, <2>2 DEF ToolActs, ToolRaises
    <3> QED
      BY <1>7, <2>1, <3>1 DEF Counted
  <2>3. CASE x = c /\ ToolActs(r)
    <3>1. performed'[c] = performed[c] + 1 /\ forgotten'[c] = forgotten[c]
      BY <1>1, <2>1, <2>3 DEF ToolActs
    <3>2. OnRecord(c)'
      BY <1>4, <1>5, <2>3 DEF OnRecord, At
    <3> QED
      BY <1>6, <2>1, <2>3, <3>1, <3>2 DEF Counted
  <2>4. CASE x = c /\ ToolRaises(r)
    <3>1. PICK n \in {0, 1} : /\ performed'[c] = performed[c] + n
                              /\ forgotten'[c] = forgotten[c] + n
      BY <1>1, <2>1, <2>4 DEF ToolRaises
    <3> QED
      BY <1>7, <2>1, <2>4, <3>1 DEF Counted
  <2> QED
    BY <2>2, <2>3, <2>4
<1>9. HasRow(new)' /\ task'.status = "RUNNING"
  BY <1>2, <1>3, <1>4 DEF HasRow, Alone
<1> QED
  BY <1>2, <1>4, <1>8, <1>9, AloneMoves

\* A run begins, or ends and leaves the task to no one.
LEMMA ClaimAlone ==
  ASSUME GateInv, Alone, NEW r \in Runs, Claim(r)
  PROVE  Alone'
<1>1. PICK new \in RunState : run' = [run EXCEPT ![r] = new] /\ new.pc = "model"
  BY GotoIs DEF Claim, GateInv, Pc
<1>2. /\ ~ At(r, "settle") /\ task.status = "READY" /\ task'.status = "RUNNING"
      /\ UNCHANGED <<ledger, performed, forgotten>>
  BY DEF Claim, At, ghosts
<1>3. \A x \in Calls : Counted(x)'
  BY <1>1, <1>2, UncountedMove
<1>4. HasRow(new)'
  BY <1>1 DEF HasRow, Busy
<1> QED
  BY <1>1, <1>2, <1>3, <1>4, AloneMoves

LEMMA OverAlone ==
  ASSUME GateInv, Alone, NEW r \in Runs, FileClashes(r) \/ Park(r) \/ EndRun(r)
  PROVE  Alone'
<1>1. PICK new \in RunState : run' = [run EXCEPT ![r] = new] /\ new.pc = "over"
  BY OverIs, GotoIs DEF FileClashes, Park, EndRun, GateInv, Pc
<1>2. /\ ~ At(r, "settle") /\ Alive(r)
      /\ UNCHANGED <<ledger, performed, forgotten>>
  BY DEF FileClashes, Park, EndRun, At, Alive, ghosts
<1>3. \A x \in Calls : Counted(x)'
  BY <1>1, <1>2, UncountedMove
<1>4. HasRow(new)'
  BY <1>1 DEF HasRow, Busy
<1> QED
  BY <1>1, <1>2, <1>3, <1>4, AloneMoves

\* A step of nobody's run that takes the task from nobody.
LEMMA OutsideAlone ==
  ASSUME Alone, UNCHANGED <<run, ledger, performed, forgotten>>,
         task.status = "RUNNING" => task'.status = "RUNNING"
  PROVE  Alone'
  BY DEF Alone, Alive, At, HasRow, Counted, OnRecord

LEMMA CrashAlone ==
  ASSUME GateInv, BoundAssumption, Alone, Crash
  PROVE  Alone'
<1>1. \A q \in Runs : ~ Alive(q)'
  <2>1. ASSUME NEW q \in Runs PROVE run'[q].pc \in {"waiting", "over"}
    <3>1. [run[q] EXCEPT !.pc = "over", !.call = None].pc = "over"
      BY DEF GateInv, TypeOK
    <3> QED
      BY <3>1 DEF Crash, Alive, At
  <2> QED
    BY <2>1 DEF Alive, At
<1>2. \A q \in Runs : HasRow(run[q])'
  BY <1>1 DEF HasRow, Alive, At, Busy
<1>3. ASSUME NEW c \in Calls PROVE Counted(c)'
  <2>1. /\ ledger'[c] = ledger[c] /\ performed'[c] = performed[c]
        /\ forgotten'[c] = forgotten[c] + Cardinality(Settling(c))
    BY DEF Crash, Settling
  <2>2. /\ performed[c] \in Nat /\ forgotten[c] \in Nat /\ Counted(c)
        /\ Cardinality(Settling(c)) \in Nat
        /\ Settling(c) # {} => Cardinality(Settling(c)) > 0
    BY SettlingFinite DEF GateInv, TypeOK, Alone
  <2>3. OnRecord(c) <=> ledger[c] = "ok" \/ Settling(c) # {}
    BY DEF OnRecord, Settling
  <2>4. ledger[c] = "ok" => OnRecord(c)'
    BY <2>1 DEF OnRecord
  <2> QED
    BY <2>1, <2>2, <2>3, <2>4 DEF Counted
<1> QED
  BY <1>1, <1>2, <1>3 DEF Alone

LEMMA AloneStep ==
  ASSUME GateInv, Alone, [Next]_vars, ~ overran'
  PROVE  Alone'
<1> USE CallAssumption, BoundAssumption
<1>1. ASSUME NEW r \in Runs, RunStep(r) PROVE Alone'
  <2>1. CASE Check(r)
    <3>1. run[r].pc = "gate" /\ UNCHANGED <<task, ledger, performed, forgotten>>
      BY <2>1 DEF Check, At, store, ghosts
    <3>2. \/ \E pc \in Busy \ {"create", "park"} : Goto(r, pc)
          \/ \E key \in WaitKey : GotoPark(r, key)
      BY <2>1, CheckGoes DEF Busy
    <3> QED
      BY <3>1, <3>2, GotoAlone DEF Busy
  <2>2. CASE CreateToolCall(r)
    BY <2>2, CreateToolCallAlone
  <2>3. CASE FileRequest(r)
    <3>1. run[r].pc = "file" /\ UNCHANGED <<task, ledger, performed, forgotten>>
      BY <2>3 DEF FileRequest, At, ghosts
    <3>2. \E key \in WaitKey : GotoPark(r, key)
      BY <2>3 DEF FileRequest, WaitKey, GateInv, TypeOK
    <3> QED
      BY <3>1, <3>2, GotoAlone DEF Busy
  <2>4. CASE FileClashes(r) \/ Park(r)
    BY <2>4, OverAlone
  <2>5. CASE Refuse(r) \/ SettleRaised(r) \/ DeleteToolCall(r)
    <3>1. run[r].pc \in Busy \ {"create", "park", "settle"}
      BY <2>5 DEF Refuse, SettleRaised, DeleteToolCall, At, Busy
    <3>2. PICK new \in RunState : run' = [run EXCEPT ![r] = new] /\ new.pc \in {"model", "park"}
      BY <2>5, NextOf, GotoIs DEF Refuse, SettleRaised, DeleteToolCall, GateInv, Pc
    <3>3. \E row : ledger' = [ledger EXCEPT ![run[r].call] = row]
      BY <2>5 DEF Refuse, SettleRaised, DeleteToolCall, SettleCall
    <3>4. UNCHANGED <<task, performed, forgotten>>
      BY <2>5 DEF Refuse, SettleRaised, DeleteToolCall, ghosts
    <3> QED
      BY <3>1, <3>2, <3>3, <3>4, OverwriteAlone
  <2>6. CASE Settle(r)
    BY <2>6, SettleAlone
  <2> QED
    BY <1>1, <2>1, <2>2, <2>3, <2>4, <2>5, <2>6 DEF RunStep
<1>2. ASSUME NEW r \in Runs, Claim(r) \/ EndRun(r) PROVE Alone'
  BY <1>2, ClaimAlone, OverAlone
<1>3. ASSUME NEW r \in Runs, \E c \in Calls : CallTool(r, c) PROVE Alone'
  BY <1>3, CallToolAlone
<1>4. ASSUME NEW r \in Runs, ToolStep(r) PROVE Alone'
  <2>1. CASE ToolParks(r)
    <3>1. run[r].pc = "act" /\ UNCHANGED <<task, ledger, performed, forgotten>>
      BY <2>1 DEF ToolParks, At, store, ghosts
    <3>2. \E key \in WaitKey : GotoPark(r, key)
      BY <2>1 DEF ToolParks, WaitKey
    <3> QED
      BY <3>1, <3>2, GotoAlone DEF Busy
  <2> QED
    BY <1>4, <2>1, ToolAlone DEF ToolStep
<1>5. ASSUME NEW i \in DOMAIN asked,
             Expire(i) \/ \E d \in {"approve", "deny"} : Decide(i, d)
      PROVE  Alone'
  BY <1>5, OutsideAlone DEF Expire, Decide, ghosts
<1>6. CASE Resume \/ Grant
  BY <1>6, OutsideAlone DEF Resume, Grant, ghosts
<1>7. CASE LoseLease
  BY <1>7 DEF LoseLease
<1>8. CASE Crash
  BY <1>8, CrashAlone
<1>9. CASE UNCHANGED vars
  BY <1>9, OutsideAlone DEF vars, store, ghosts
<1> QED
  BY <1>1, <1>2, <1>3, <1>4, <1>5, <1>6, <1>7, <1>8, <1>9 DEF Next

\* A lease that ran out under a live run stays counted as such.
LEMMA OverranStays == [Next]_vars /\ overran => overran'
  BY DEF Next, vars, RunStep, ToolStep, Claim, CallTool, EndRun, CreateToolCall, Check, FileRequest,
         FileClashes, Refuse, DeleteToolCall, Park, Settle, SettleRaised, ToolActs, ToolRaises,
         ToolParks, Expire, Decide, Resume, Grant, LoseLease, Crash, ghosts

\* As long as no run outlives its lease, one run at a time works on a task.
THEOREM SoloInvHolds == Spec => []SoloInv
<1>1. Init => SoloInv
  BY DEF Init, SoloInv, Alone, Alive, At, HasRow, Busy, Counted
<1>2. GateInv /\ SoloInv /\ [Next]_vars => SoloInv'
  BY AloneStep, OverranStays DEF SoloInv
<1> QED
  BY <1>1, <1>2, GateInvHolds, PTL DEF Spec

\* What a task had completed is not repeated when it parks, fails or restarts
\* (_idempotency_key of agent_runner.py), as long as no run outlives its lease.
THEOREM CompletedOnceHolds == Spec => []CompletedOnce
<1>1. GateInv /\ SoloInv => CompletedOnce
  <2> SUFFICES ASSUME GateInv, SoloInv, ~ overran, NEW c \in Calls
               PROVE  performed[c] <= 1 + forgotten[c]
    BY DEF CompletedOnce
  <2>1. Counted(c) /\ performed[c] \in Nat /\ forgotten[c] \in Nat
    BY DEF GateInv, TypeOK, SoloInv, Alone
  <2> QED
    BY <2>1 DEF Counted
<1> QED
  BY <1>1, GateInvHolds, SoloInvHolds, PTL
=============================================================================
