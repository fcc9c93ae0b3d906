---------------------------- MODULE ViewersProofs ----------------------------
(***************************************************************************)
(* Proofs about Viewers: who watches a goal is who submitted it, and nobody *)
(* waits for an end it will not be told of.                                *)
(***************************************************************************)
EXTENDS Viewers, SequenceTheorems, TLAPS

\* A user id that a callback has found or been given is the row of its account.
CallbackFits(t) ==
  callback[t].pc \in {"write", "start"} =>
    \/ callback[t].pc = "write" /\ callback[t].user = 0
    \/ callback[t].user \in DOMAIN users /\ users[callback[t].user].sub = callback[t].sub

SessionFits(s) ==
  sessions[s].user \in DOMAIN users /\ users[sessions[s].user].sub = sessions[s].of

Accounts ==
  /\ SignInTypeOK
  /\ \A t \in Tabs : CallbackFits(t)
  /\ \A s \in DOMAIN sessions : SessionFits(s)

GoalFits == goal # NoGoal => users[goal.user].sub = goal.by

\* What a request keeps in hand between its awaits, and what its queue owes it.
Fits(st) ==
  /\ st.pc \in {"gate", "owner", "opened", "waiting", "ping"} =>
       goal # NoGoal /\ st.session \in DOMAIN sessions
  /\ st.pc = "owner" => st.user = sessions[st.session].user
  /\ st.pc \in {"opened", "waiting", "ping"} => goal.user = sessions[st.session].user
  /\ st.pc = "waiting" /\ goal.status \in Terminal =>
       \/ \E i \in DOMAIN st.queue : st.queue[i] \in Terminal
       \/ unsent # {}
       \/ st.dropped

StreamOK(st) == st \in StreamState /\ Len(st.queue) <= Capacity /\ Fits(st)

ViewersInv ==
  /\ ViewersTypeOK
  /\ Accounts
  /\ GoalFits
  /\ \A v \in Streams : Fits(stream[v])

-----------------------------------------------------------------------------
LEMMA ClosedOK == StreamOK(Closed) /\ Closed.pc = "none"
  BY ViewersAssumption DEF StreamOK, StreamState, Closed, Fits

LEMMA ViewersInit == Init => ViewersInv
<1> SUFFICES ASSUME Init PROVE ViewersInv
  OBVIOUS
<1> USE DEF Init, SignInInit
<1>1. Accounts
  BY SignInAssumption
  DEF Accounts, SignInTypeOK, Callback, NoCallback, Session, User, CallbackFits, SessionFits
<1>2. \A v \in Streams : StreamOK(stream[v])
  BY ClosedOK
<1> QED
  BY <1>1, <1>2, ViewersAssumption DEF ViewersInv, ViewersTypeOK, Accounts, GoalFits, StreamOK

-----------------------------------------------------------------------------
(* Signing in *)

UnderWay == [pc : {"look", "write", "start"}, sub : Subs, email : Emails, user : Nat]

LEMMA InHand ==
  ASSUME Accounts, NEW t \in Tabs, callback[t].pc # "none"
  PROVE  callback[t] \in UnderWay
<1>1. callback[t] \in {NoCallback} \cup UnderWay
  BY DEF Accounts, SignInTypeOK, Callback, UnderWay
<1>2. NoCallback.pc = "none"
  BY DEF NoCallback
<1> QED
  BY <1>1, <1>2

LEMMA ReassignKeeps ==
  ASSUME Accounts, NEW s \in Subs, NEW t \in Subs, Reassign(s, t)
  PROVE  Accounts'
<1> USE DEF Accounts, Reassign
<1>1. emailOf' \in [Subs -> Emails]
  BY DEF SignInTypeOK
<1>2. reassigned' \in 0 .. MaxReassigned
  BY SignInAssumption DEF SignInTypeOK
<1> QED
  BY <1>1, <1>2 DEF SignInTypeOK, CallbackFits, SessionFits

LEMMA VerifiedKeeps ==
  ASSUME Accounts, NEW t \in Tabs, NEW sub \in Subs, Verified(t, sub)
  PROVE  Accounts'
<1> DEFINE new == [pc |-> "look", sub |-> sub, email |-> emailOf[sub], user |-> 0]
<1> USE DEF Accounts, Verified, accounts
<1>1. new \in Callback /\ callback' = [callback EXCEPT ![t] = new]
  BY DEF SignInTypeOK, Callback
<1> HIDE DEF new
<1>2. SignInTypeOK'
  BY <1>1 DEF SignInTypeOK
<1>3. ASSUME NEW x \in Tabs PROVE CallbackFits(x)'
  <2>1. CASE x = t
    BY <2>1, <1>1 DEF SignInTypeOK, CallbackFits, new
  <2>2. CASE x # t
    BY <2>2, <1>1 DEF SignInTypeOK, CallbackFits
  <2> QED
    BY <2>1, <2>2
<1> QED
  BY <1>2, <1>3 DEF SessionFits

LEMMA LookKeeps ==
  ASSUME Accounts, NEW t \in Tabs, Look(t)
  PROVE  Accounts'
<1> DEFINE found == IF RowOf(callback[t]) = {} THEN 0 ELSE CHOOSE u \in RowOf(callback[t]) : TRUE
           new == [callback[t] EXCEPT !.pc = "write", !.user = found]
<1> USE DEF Accounts, accounts
<1>1. callback[t] \in UnderWay /\ callback[t].pc = "look"
  BY InHand DEF Look
<1>2. users \in Seq(User)
  BY DEF SignInTypeOK
<1>3. found = 0 \/ found \in RowOf(callback[t])
  <2>1. RowOf(callback[t]) # {} => (CHOOSE u \in RowOf(callback[t]) : TRUE) \in RowOf(callback[t])
    OBVIOUS
  <2> QED
    BY <2>1
<1> HIDE DEF found
<1>4. found = 0 \/ (found \in DOMAIN users /\ users[found].sub = callback[t].sub)
  BY <1>3 DEF RowOf
<1>5. found \in Nat
  BY <1>2, <1>4
<1> USE DEF found
<1>6. callback' = [callback EXCEPT ![t] = new]
  BY DEF Look, SignInTypeOK
<1> HIDE DEF found
<1>7. new \in Callback /\ new.pc = "write" /\ new.user = found /\ new.sub = callback[t].sub
  BY <1>1, <1>5 DEF Callback, UnderWay
<1> HIDE DEF new
<1>8. SignInTypeOK'
  BY <1>6, <1>7 DEF Look, SignInTypeOK
<1>9. ASSUME NEW x \in Tabs PROVE CallbackFits(x)'
  <2>1. CASE x = t
    BY <2>1, <1>4, <1>6, <1>7 DEF Look, SignInTypeOK, CallbackFits
  <2>2. CASE x # t
    BY <2>2, <1>6 DEF Look, SignInTypeOK, CallbackFits
  <2> QED
    BY <2>1, <2>2
<1> QED
  BY <1>8, <1>9 DEF Look, SessionFits

\* Rows are added and change their address, and never their account.
RowsStay == \A u \in DOMAIN users : u \in DOMAIN users' /\ users'[u].sub = users[u].sub

LEMMA WriteUserKeeps ==
  ASSUME Accounts, NEW t \in Tabs, WriteUser(t)
  PROVE  Accounts'
<1> DEFINE c == callback[t]
<1> USE DEF Accounts, accounts
<1>1. c \in UnderWay /\ c.pc = "write"
  BY InHand DEF WriteUser
<1>2. users \in Seq(User)
  BY DEF SignInTypeOK
<1>3. c.user # 0 => c.user \in DOMAIN users /\ users[c.user].sub = c.sub
  BY <1>1 DEF CallbackFits
<1>4. /\ users' \in Seq(User)
      /\ RowsStay
  <2>1. CASE c.user # 0
    <3>1. c.user \in DOMAIN users /\ users[c.user] \in User /\ users[c.user].sub = c.sub
      BY <2>1, <1>2, <1>3
    <3>2. [users[c.user] EXCEPT !.email = c.email] \in User
      BY <3>1, <1>1 DEF UnderWay, User
    <3>3. users' = [users EXCEPT ![c.user] = [users[c.user] EXCEPT !.email = c.email]]
      BY <2>1 DEF WriteUser
    <3>4. users' \in Seq(User) /\ Len(users') = Len(users)
      BY <1>2, <3>1, <3>2, <3>3, ExceptSeq, SMT
    <3> QED
      BY <1>2, <3>1, <3>3, <3>4 DEF RowsStay, User
  <2>2. CASE users' = users
    BY <2>2, <1>2 DEF RowsStay
  <2>3. CASE users' = Append(users, [sub |-> c.sub, email |-> c.email])
    BY <2>3, <1>1, <1>2 DEF UnderWay, User, RowsStay
  <2> QED
    BY <2>1, <2>2, <2>3 DEF WriteUser
<1>5. /\ callback' \in [Tabs -> Callback]
      /\ \A x \in Tabs : x # t => callback'[x] = callback[x]
      /\ \/ callback'[t] = NoCallback
         \/ callback'[t].user \in DOMAIN users' /\ users'[callback'[t].user].sub = callback'[t].sub
  <2>1. CASE c.user # 0
    <3>1. callback' = [callback EXCEPT ![t] = [c EXCEPT !.pc = "start"]]
      BY <2>1 DEF WriteUser, SignInTypeOK
    <3>2. [c EXCEPT !.pc = "start"] \in Callback
      BY <1>1 DEF Callback, UnderWay
    <3>3. c.user \in DOMAIN users' /\ users'[c.user].sub = c.sub
      BY <2>1, <1>3, <1>4 DEF RowsStay
    <3> QED
      BY <3>1, <3>2, <3>3, <1>1 DEF SignInTypeOK, UnderWay
  <2>2. CASE callback' = [callback EXCEPT ![t] = NoCallback]
    BY <2>2 DEF SignInTypeOK, Callback
  <2>3. CASE /\ users' = Append(users, [sub |-> c.sub, email |-> c.email])
             /\ callback' = [callback EXCEPT ![t].pc = "start", ![t].user = Len(users) + 1]
    <3>1. callback' = [callback EXCEPT ![t] = [c EXCEPT !.pc = "start", !.user = Len(users) + 1]]
      BY <2>3 DEF SignInTypeOK
    <3>2. /\ Len(users) + 1 \in Nat /\ Len(users) + 1 \in DOMAIN users'
          /\ users'[Len(users) + 1].sub = c.sub
      BY <2>3, <1>1, <1>2
    <3> QED
      BY <3>1, <3>2, <1>1 DEF SignInTypeOK, Callback, UnderWay
  <2> QED
    BY <2>1, <2>2, <2>3 DEF WriteUser
<1>6. UNCHANGED <<emailOf, reassigned, sessions>>
  BY DEF WriteUser
<1>7. SignInTypeOK'
  BY <1>4, <1>5, <1>6 DEF SignInTypeOK, RowsStay
<1>8. ASSUME NEW x \in Tabs PROVE CallbackFits(x)'
  <2>1. CASE x = t
    BY <2>1, <1>5 DEF CallbackFits, NoCallback
  <2>2. CASE x # t
    BY <2>2, <1>4, <1>5 DEF CallbackFits, RowsStay
  <2> QED
    BY <2>1, <2>2
<1> QED
  BY <1>4, <1>6, <1>7, <1>8 DEF SessionFits, RowsStay

LEMMA StartSessionKeeps ==
  ASSUME Accounts, NEW t \in Tabs, StartSession(t)
  PROVE  Accounts'
<1> DEFINE c == callback[t]
           new == [user |-> c.user, of |-> c.sub, live |-> TRUE]
<1> USE DEF Accounts, accounts
<1>1. c \in UnderWay /\ c.pc = "start"
  BY InHand DEF StartSession
<1>2. c.user \in DOMAIN users /\ users[c.user].sub = c.sub
  BY <1>1 DEF CallbackFits
<1>3. sessions \in Seq(Session) /\ sessions' = Append(sessions, new)
  BY DEF StartSession, SignInTypeOK
<1>4. new \in Session /\ new.user = c.user /\ new.of = c.sub
  BY <1>1 DEF UnderWay, Session
<1> HIDE DEF new
<1>5. /\ sessions' \in Seq(Session) /\ Len(sessions') = Len(sessions) + 1
      /\ \A s \in DOMAIN sessions' :
           (s \in DOMAIN sessions /\ sessions'[s] = sessions[s]) \/ sessions'[s] = new
  BY <1>3, <1>4
<1>6. SignInTypeOK'
  BY <1>2, <1>3, <1>4, <1>5, SignInAssumption DEF StartSession, SignInTypeOK, Callback
<1>7. ASSUME NEW x \in Tabs PROVE CallbackFits(x)'
  BY DEF StartSession, SignInTypeOK, CallbackFits, NoCallback
<1>8. ASSUME NEW s \in DOMAIN sessions' PROVE SessionFits(s)'
  BY <1>2, <1>4, <1>5 DEF StartSession, SessionFits
<1> QED
  BY <1>6, <1>7, <1>8

LEMMA SignInKeeps ==
  ASSUME ViewersInv, goal = NoGoal, SignInStep, UNCHANGED <<goal, unsent, stream, bounds>>
  PROVE  ViewersInv'
<1>1. Accounts'
  BY ReassignKeeps, VerifiedKeeps, LookKeeps, WriteUserKeeps, StartSessionKeeps
  DEF ViewersInv, SignInStep
<1>2. \A v \in Streams : Fits(stream[v])'
  BY DEF ViewersInv, Fits
<1>3. ViewersTypeOK'
  BY <1>1 DEF ViewersInv, ViewersTypeOK, Accounts, bounds
<1> QED
  BY <1>1, <1>2, <1>3 DEF ViewersInv, GoalFits

LEMMA EndSessionKeeps ==
  ASSUME ViewersInv, NEW s \in DOMAIN sessions, EndSession(s),
         UNCHANGED <<goal, unsent, stream, bounds>>
  PROVE  ViewersInv'
<1> USE DEF ViewersInv, Accounts, accounts, EndSession
<1>1. sessions \in Seq(Session) /\ sessions[s] \in Session
  BY DEF SignInTypeOK
<1>2. [sessions[s] EXCEPT !.live = FALSE] \in Session
  BY <1>1 DEF Session
<1>3. sessions' = [sessions EXCEPT ![s] = [sessions[s] EXCEPT !.live = FALSE]]
  OBVIOUS
<1>4. /\ sessions' \in Seq(Session) /\ Len(sessions') = Len(sessions)
      /\ DOMAIN sessions' = DOMAIN sessions
  BY <1>1, <1>2, <1>3, ExceptSeq, SMT
<1>5. \A x \in DOMAIN sessions :
        sessions'[x].user = sessions[x].user /\ sessions'[x].of = sessions[x].of
  BY <1>1, <1>3 DEF Session
<1>6. SignInTypeOK'
  BY <1>4, <1>5 DEF SignInTypeOK
<1>7. Accounts'
  BY <1>4, <1>5, <1>6 DEF CallbackFits, SessionFits
<1>8. \A v \in Streams : Fits(stream[v])'
  BY <1>4, <1>5 DEF Fits
<1>9. ViewersTypeOK'
  BY <1>6 DEF ViewersTypeOK, bounds
<1> QED
  BY <1>7, <1>8, <1>9 DEF GoalFits

-----------------------------------------------------------------------------
(* The goal *)

LEMMA SubmitGoalKeeps ==
  ASSUME ViewersInv, NEW s \in DOMAIN sessions, SubmitGoal(s)
  PROVE  ViewersInv'
<1> USE DEF ViewersInv, Accounts, SubmitGoal, signIn, accounts
<1>1. Loaded(s) = sessions[s].user
  BY DEF Loaded
<1>2. /\ sessions[s].user \in DOMAIN users /\ users[sessions[s].user].sub = sessions[s].of
      /\ sessions[s].of \in Subs
  <2>1. sessions \in Seq(Session)
    BY DEF SignInTypeOK
  <2>2. sessions[s] \in Session
    BY <2>1
  <2> QED
    BY <2>2 DEF SessionFits, Session
<1>3. ViewersTypeOK'
  BY <1>1, <1>2 DEF ViewersTypeOK, SignInTypeOK, bounds
<1>4. Accounts'
  BY DEF SignInTypeOK, CallbackFits, SessionFits
<1>5. GoalFits'
  BY <1>1, <1>2 DEF GoalFits
<1>6. \A v \in Streams : Fits(stream[v])'
  BY DEF Fits
<1> QED
  BY <1>3, <1>4, <1>5, <1>6

\* A status written over the row leaves it its owner.
LEMMA StatusKeeps ==
  ASSUME ViewersInv, goal # NoGoal, NEW status \in Terminal \cup {"RUNNING"},
         goal' = [goal EXCEPT !.status = status],
         unsent' \subseteq Terminal, status = "RUNNING" \/ unsent' # {},
         UNCHANGED <<signIn, stream, emitted, crashes>>, verdicts' \in 0 .. MaxVerdicts
  PROVE  ViewersInv'
<1> USE DEF ViewersInv, Accounts, signIn, accounts
<1>1. goal \in [status : Terminal \cup {"RUNNING"}, user : DOMAIN users, by : Subs]
  BY DEF ViewersTypeOK
<1>2. /\ goal' \in [status : Terminal \cup {"RUNNING"}, user : DOMAIN users, by : Subs]
      /\ goal'.status = status /\ goal'.user = goal.user /\ goal'.by = goal.by
  BY <1>1
<1>3. goal' # NoGoal
  BY <1>2 DEF NoGoal, Terminal
<1>4. ViewersTypeOK'
  BY <1>2 DEF ViewersTypeOK, SignInTypeOK
<1>5. Accounts'
  BY DEF SignInTypeOK, CallbackFits, SessionFits
<1>6. GoalFits'
  BY <1>2 DEF GoalFits
<1>7. \A v \in Streams : Fits(stream[v])'
  BY <1>2, <1>3 DEF Fits, Terminal
<1> QED
  BY <1>4, <1>5, <1>6, <1>7

LEMMA VerdictKeeps ==
  ASSUME ViewersInv, GiveVerdict \/ Replan
  PROVE  ViewersInv'
<1>1. goal # NoGoal
  BY DEF GiveVerdict, Replan, NoGoal, Terminal
<1>2. CASE GiveVerdict
  <2>1. PICK verdict \in Terminal \ unsent :
          goal' = [goal EXCEPT !.status = verdict] /\ unsent' = unsent \cup {verdict}
    BY <1>2 DEF GiveVerdict
  <2>2. verdicts' \in 0 .. MaxVerdicts /\ unsent' \subseteq Terminal
    BY <1>2, <2>1, ViewersAssumption DEF GiveVerdict, ViewersInv, ViewersTypeOK
  <2> QED
    BY <1>1, <1>2, <2>1, <2>2, StatusKeeps DEF GiveVerdict
<1>3. CASE Replan
  <2>1. verdicts' \in 0 .. MaxVerdicts /\ unsent' \subseteq Terminal
    BY <1>3 DEF Replan, bounds, ViewersInv, ViewersTypeOK
  <2> QED
    BY <1>1, <1>3, <2>1, StatusKeeps DEF Replan, bounds
<1> QED
  BY <1>2, <1>3

-----------------------------------------------------------------------------
(* What is emitted *)

\* An event is in the queue, or it did not fit; what was there stays.
LEMMA PutFacts ==
  ASSUME NEW st \in StreamState, Len(st.queue) <= Capacity, NEW item \in Item
  PROVE  LET new == Put(st, item) IN
         /\ new \in StreamState /\ Len(new.queue) <= Capacity
         /\ new.pc = st.pc /\ new.session = st.session /\ new.user = st.user
         /\ new.dropped \/ \E i \in DOMAIN new.queue : new.queue[i] = item
         /\ st.dropped => new.dropped
         /\ \A i \in DOMAIN st.queue : i \in DOMAIN new.queue /\ new.queue[i] = st.queue[i]
<1>1. st.queue \in Seq(Item)
  BY DEF StreamState
<1>2. CASE Len(st.queue) < Capacity
  <2> DEFINE longer == Append(st.queue, item)
  <2>1. /\ longer \in Seq(Item) /\ Len(longer) = Len(st.queue) + 1
        /\ longer[Len(st.queue) + 1] = item
        /\ \A i \in 1 .. Len(st.queue) : longer[i] = st.queue[i]
    BY <1>1
  <2>2. Len(longer) <= Capacity /\ Len(st.queue) + 1 \in DOMAIN longer /\ DOMAIN st.queue \subseteq DOMAIN longer
    BY <1>1, <1>2, <2>1, ViewersAssumption
  <2>3. Put(st, item) = [st EXCEPT !.queue = longer]
    BY <1>2 DEF Put
  <2> HIDE DEF longer
  <2>4. /\ Put(st, item) \in StreamState /\ Put(st, item).queue = longer
        /\ Put(st, item).pc = st.pc /\ Put(st, item).session = st.session
        /\ Put(st, item).user = st.user /\ Put(st, item).dropped = st.dropped
    BY <2>1, <2>3 DEF StreamState
  <2> QED
    BY <1>1, <2>1, <2>2, <2>4
<1>3. CASE ~ (Len(st.queue) < Capacity)
  BY <1>3 DEF Put, StreamState
<1> QED
  BY <1>2, <1>3

LEMMA EmitKeeps ==
  ASSUME ViewersInv, NEW item \in Item, Emit(item),
         unsent' = unsent \/ (item \in Terminal /\ unsent' \subseteq unsent),
         UNCHANGED <<signIn, goal, verdicts, crashes>>, emitted' \in 0 .. MaxEvents
  PROVE  ViewersInv'
<1> USE DEF ViewersInv, Accounts, signIn, accounts
<1>1. ASSUME NEW v \in Streams
      PROVE  stream'[v] \in StreamState /\ Len(stream'[v].queue) <= Capacity /\ Fits(stream[v])'
  <2>1. stream[v] \in StreamState /\ Len(stream[v].queue) <= Capacity
    BY DEF ViewersTypeOK
  <2>2. CASE ~ Subscribed(v)
    BY <2>1, <2>2 DEF Emit, Subscribed, Watching, Fits
  <2>3. CASE Subscribed(v)
    <3>1. stream'[v] = Put(stream[v], item)
      BY <2>3 DEF Emit
    <3> QED
      BY <2>1, <3>1, PutFacts DEF Fits
  <2> QED
    BY <2>2, <2>3
<1>2. ViewersTypeOK'
  BY <1>1 DEF Emit, ViewersTypeOK, SignInTypeOK
<1>3. Accounts' /\ GoalFits'
  BY DEF SignInTypeOK, CallbackFits, SessionFits, GoalFits
<1> QED
  BY <1>1, <1>2, <1>3

-----------------------------------------------------------------------------
(* GET /api/goals/{id}/stream *)

LEMMA BecomesKeeps ==
  ASSUME ViewersInv, NEW v \in Streams, NEW st, StreamOK(st), Becomes(v, st)
  PROVE  ViewersInv'
<1> USE DEF ViewersInv, Accounts, signIn, accounts, Becomes, Unmoved, bounds
<1>1. ASSUME NEW x \in Streams
      PROVE  stream'[x] \in StreamState /\ Len(stream'[x].queue) <= Capacity /\ Fits(stream[x])'
  <2>1. CASE x = v
    BY <2>1 DEF ViewersTypeOK, StreamOK, Fits
  <2>2. CASE x # v
    BY <2>2 DEF ViewersTypeOK, Fits
  <2> QED
    BY <2>1, <2>2
<1>2. ViewersTypeOK'
  BY <1>1 DEF ViewersTypeOK, SignInTypeOK
<1>3. Accounts' /\ GoalFits'
  BY DEF SignInTypeOK, CallbackFits, SessionFits, GoalFits
<1> QED
  BY <1>1, <1>2, <1>3

LEMMA StreamStepKeeps ==
  ASSUME ViewersInv, NEW v \in Streams, StreamStep(v)
  PROVE  ViewersInv'
<1> DEFINE st == stream[v]
<1>1. StreamOK(st)
  BY DEF ViewersInv, ViewersTypeOK, StreamOK
<1>2. \A pc \in {"waiting", "ping", "gone", "opened", "owner", "gate"} :
        [st EXCEPT !.pc = pc] \in StreamState
  BY <1>1 DEF StreamOK, StreamState
<1>3. ASSUME NEW s \in DOMAIN sessions, Request(v, s)
      PROVE  ViewersInv'
  <2> DEFINE new == [Closed EXCEPT !.pc = "gate", !.session = s]
  <2>1. s \in Nat
    BY DEF ViewersInv, Accounts, SignInTypeOK
  <2>2. StreamOK(new)
    <3>1. new = [Closed EXCEPT !.pc = "gate", !.session = s]
      OBVIOUS
    <3>2. Closed \in StreamState /\ Len(Closed.queue) <= Capacity
      BY ClosedOK DEF StreamOK
    <3> HIDE DEF new
    <3>3. /\ new \in StreamState /\ new.queue = Closed.queue
          /\ new.pc = "gate" /\ new.session = s
      BY <2>1, <3>1, <3>2 DEF StreamState
    <3>4. goal # NoGoal
      BY <1>3 DEF Request
    <3> QED
      BY <3>2, <3>3, <3>4 DEF StreamOK, Fits
  <2>3. Becomes(v, new)
    BY <1>3 DEF Request
  <2> HIDE DEF new
  <2> QED
    BY <2>2, <2>3, BecomesKeeps
<1>4. CASE Gate(v)
  <2> DEFINE user == Loaded(st.session)
             new == [st EXCEPT !.pc = "owner", !.user = user]
  <2>1. CASE user = 0
    BY <1>4, <2>1, ClosedOK, BecomesKeeps DEF Gate
  <2>2. CASE user # 0
    <3>1. /\ st.session \in DOMAIN sessions /\ user = sessions[st.session].user
          /\ user \in Nat /\ goal # NoGoal
      BY <1>1, <1>4, <2>2 DEF Gate, StreamOK, Fits, Loaded, ViewersInv, ViewersTypeOK, SignInTypeOK, Session
    <3> HIDE DEF user
    <3>2. StreamOK(new)
      BY <1>1, <3>1 DEF StreamOK, StreamState, Fits
    <3>3. Becomes(v, new)
      BY <1>4, <2>2 DEF Gate, user
    <3> QED
      BY <3>2, <3>3, BecomesKeeps
  <2> QED
    BY <2>1, <2>2
<1>5. CASE OpenStream(v)
  <2>1. CASE goal.user # st.user
    BY <1>5, <2>1, ClosedOK, BecomesKeeps DEF OpenStream
  <2>2. CASE goal.user = st.user
    <3>1. StreamOK([st EXCEPT !.pc = "opened"])
      BY <1>1, <1>5, <2>2 DEF OpenStream, StreamOK, StreamState, Fits
    <3> QED
      BY <1>5, <2>2, <3>1, BecomesKeeps DEF OpenStream
  <2> QED
    BY <2>1, <2>2
<1>6. CASE StartGenerator(v) \/ Ping(v)
  <2>1. CASE goal.status \in Terminal
    BY <1>6, <2>1, ClosedOK, BecomesKeeps DEF StartGenerator, Ping
  <2>2. CASE goal.status \notin Terminal
    <3>1. StreamOK([st EXCEPT !.pc = "waiting"])
      BY <1>1, <1>6, <2>2 DEF StartGenerator, Ping, StreamOK, StreamState, Fits
    <3> QED
      BY <1>6, <2>2, <3>1, BecomesKeeps DEF StartGenerator, Ping
  <2> QED
    BY <2>1, <2>2
<1>7. CASE Deliver(v)
  <2>1. st.queue \in Seq(Item) /\ st.queue # << >>
    BY <1>1, <1>7 DEF Deliver, StreamOK, StreamState
  <2>2. CASE Head(st.queue) \in Terminal
    BY <1>7, <2>2, ClosedOK, BecomesKeeps DEF Deliver
  <2>3. CASE Head(st.queue) \notin Terminal
    <3> DEFINE rest == Tail(st.queue)
    <3>1. rest \in Seq(Item) /\ Len(rest) <= Capacity
      BY <2>1, <1>1, ViewersAssumption DEF StreamOK
    <3>2. (\E i \in DOMAIN st.queue : st.queue[i] \in Terminal)
            => \E i \in DOMAIN rest : rest[i] \in Terminal
      <4> SUFFICES ASSUME NEW i \in DOMAIN st.queue, st.queue[i] \in Terminal
                   PROVE  \E j \in DOMAIN rest : rest[j] \in Terminal
        OBVIOUS
      <4>1. i # 1
        BY <2>1, <2>3
      <4>2. i - 1 \in DOMAIN rest /\ rest[i - 1] = st.queue[i]
        BY <2>1, <4>1
      <4> QED
        BY <4>2
    <3> HIDE DEF rest
    <3>3. StreamOK([st EXCEPT !.queue = rest])
      BY <1>1, <1>7, <3>1, <3>2 DEF Deliver, StreamOK, StreamState, Fits
    <3>4. Becomes(v, [st EXCEPT !.queue = rest])
      BY <1>7, <2>3 DEF Deliver, rest
    <3> QED
      BY <3>3, <3>4, BecomesKeeps
  <2> QED
    BY <2>2, <2>3
<1>8. CASE TimesOut(v)
  <2>1. StreamOK([st EXCEPT !.pc = "ping"])
    BY <1>1, <1>8 DEF TimesOut, StreamOK, StreamState, Fits
  <2> QED
    BY <1>8, <2>1, BecomesKeeps DEF TimesOut
<1>9. CASE Disconnect(v)
  <2>1. StreamOK([st EXCEPT !.pc = "gone"])
    BY <1>1, <1>2 DEF StreamOK, StreamState, Fits
  <2> QED
    BY <1>9, <2>1, ClosedOK, BecomesKeeps DEF Disconnect
<1> QED
  BY <1>3, <1>4, <1>5, <1>6, <1>7, <1>8, <1>9 DEF StreamStep, Generator

LEMMA CrashKeeps == ViewersInv /\ Crash => ViewersInv'
<1> SUFFICES ASSUME ViewersInv, Crash PROVE ViewersInv'
  OBVIOUS
<1> USE DEF ViewersInv, Accounts, accounts, Crash
<1>1. SignInTypeOK'
  BY DEF SignInTypeOK, Callback
<1>2. Accounts' /\ GoalFits'
  BY <1>1 DEF CallbackFits, NoCallback, SessionFits, GoalFits
<1>3. \A v \in Streams : stream'[v] \in StreamState /\ Len(stream'[v].queue) <= Capacity /\ Fits(stream[v])'
  BY ClosedOK DEF StreamOK, Fits
<1>4. ViewersTypeOK'
  BY <1>1, <1>3, ViewersAssumption DEF ViewersTypeOK
<1> QED
  BY <1>2, <1>3, <1>4

-----------------------------------------------------------------------------
LEMMA ViewersStep == ViewersInv /\ [Next]_vars => ViewersInv'
<1> SUFFICES ASSUME ViewersInv, [Next]_vars PROVE ViewersInv'
  OBVIOUS
<1>1. CASE goal = NoGoal /\ SignInStep /\ UNCHANGED <<goal, unsent, stream, bounds>>
  BY <1>1, SignInKeeps
<1>2. CASE SessionStep /\ UNCHANGED <<goal, unsent, stream, bounds>>
  BY <1>2, EndSessionKeeps DEF SessionStep
<1>3. CASE \E s \in DOMAIN sessions : SubmitGoal(s)
  BY <1>3, SubmitGoalKeeps
<1>4. CASE GiveVerdict \/ Replan
  BY <1>4, VerdictKeeps
<1>5. CASE EmitVerdict
  <2>1. PICK verdict \in unsent : Emit(verdict) /\ unsent' = unsent \ {verdict}
    BY <1>5 DEF EmitVerdict
  <2>2. verdict \in Item /\ verdict \in Terminal /\ emitted' \in 0 .. MaxEvents
    BY <1>5 DEF EmitVerdict, bounds, ViewersInv, ViewersTypeOK, Item
  <2> QED
    BY <1>5, <2>1, <2>2, EmitKeeps DEF EmitVerdict, bounds
<1>6. CASE EmitProgress
  <2>1. "progress" \in Item /\ emitted' \in 0 .. MaxEvents
    BY <1>6, ViewersAssumption DEF EmitProgress, ViewersInv, ViewersTypeOK, Item
  <2> QED
    BY <1>6, <2>1, EmitKeeps DEF EmitProgress
<1>7. CASE \E v \in Streams : StreamStep(v)
  BY <1>7, StreamStepKeeps
<1>8. CASE Crash
  BY <1>8, CrashKeeps
<1>9. CASE UNCHANGED vars
  BY <1>9
  DEF vars, signIn, accounts, bounds, ViewersInv, ViewersTypeOK, SignInTypeOK, Accounts,
      CallbackFits, SessionFits, GoalFits, Fits
<1> QED
  BY <1>1, <1>2, <1>3, <1>4, <1>5, <1>6, <1>7, <1>8, <1>9 DEF Next, GoalStep

\* What a callback, a session, a goal and a request hold of a user always is one
\* account, through reassigned addresses, double sign-ins and restarts
\* (upsert_user, start_session, stream_goal).
THEOREM ViewersSafe == Spec => []ViewersInv
<1> QED
  BY ViewersInit, ViewersStep, PTL DEF Spec

\* Whoever watches a goal signed in with the account that submitted it.
THEOREM OwnerTheorem == Spec => []WatchesItsOwn
<1>1. ViewersInv => WatchesItsOwn
  <2> SUFFICES ASSUME ViewersInv, NEW v \in Streams, Watching(v)
               PROVE  sessions[stream[v].session].of = goal.by
    BY DEF WatchesItsOwn
  <2>1. Fits(stream[v]) /\ stream[v].pc \in {"opened", "waiting", "ping"}
    BY DEF ViewersInv, Watching
  <2>2. /\ goal # NoGoal /\ stream[v].session \in DOMAIN sessions
        /\ goal.user = sessions[stream[v].session].user
    BY <2>1 DEF Fits
  <2> QED
    BY <2>2 DEF ViewersInv, Accounts, SessionFits, GoalFits
<1> QED
  BY ViewersSafe, <1>1, PTL

\* No stream waits for an end it will not be told of.
THEOREM EndTheorem == Spec => []NoSilentEnd
<1>1. ViewersInv => NoSilentEnd
  BY DEF ViewersInv, Fits, NoSilentEnd
<1> QED
  BY ViewersSafe, <1>1, PTL
=============================================================================
