------------------------------- MODULE Viewers -------------------------------
(***************************************************************************)
(* Who watches a goal, and how the watching ends: the bounded queues of    *)
(* events.py and the generator of api/stream.py, behind the gate of        *)
(* auth/gate.py.  The worker changes the row of the goal and then emits;   *)
(* between the two every other coroutine may run.                          *)
(***************************************************************************)
EXTENDS SignIn, FiniteSets

CONSTANTS Streams,    \* requests for the stream of the goal
          Capacity,   \* of a queue (500)
          MaxEvents,  \* bounds: events that are not about the goal's end,
          MaxVerdicts, MaxCrashes  \* verdicts, process deaths

ASSUME ViewersAssumption == Capacity \in Nat \ {0} /\ {MaxEvents, MaxVerdicts, MaxCrashes} \subseteq Nat

VARIABLES goal,      \* the row: status, and the user it belongs to
          unsent,    \* history: statuses that are stored and not emitted yet
          stream,
          emitted, verdicts, crashes

bounds == <<emitted, verdicts, crashes>>
vars == <<signIn, goal, unsent, stream, bounds>>

Terminal == {"COMPLETED", "FAILED"}

\* by: history, the Google account that submitted it.
NoGoal == [status |-> "none"]

\* An item of a queue: a status, or progress, which is every other event.
Item == Terminal \cup {"progress"}

\* opened: the generator has not run yet; gone: it never will.
StreamState ==
  [pc : {"none", "gate", "owner", "opened", "waiting", "ping", "gone"},
   session : Nat, user : Nat, queue : Seq(Item),
   dropped : BOOLEAN]  \* history: an event did not fit

Closed == [pc |-> "none", session |-> 0, user |-> 0, queue |-> << >>, dropped |-> FALSE]

Watching(v) == stream[v].pc \in {"opened", "waiting", "ping"}

Subscribed(v) == Watching(v) \/ stream[v].pc = "gone"

ViewersTypeOK ==
  /\ SignInTypeOK
  /\ goal = NoGoal \/ goal \in [status : Terminal \cup {"RUNNING"}, user : DOMAIN users, by : Subs]
  /\ unsent \subseteq Terminal
  /\ stream \in [Streams -> StreamState]
  /\ \A v \in Streams : Len(stream[v].queue) <= Capacity
  /\ emitted \in 0 .. MaxEvents /\ verdicts \in 0 .. MaxVerdicts /\ crashes \in 0 .. MaxCrashes

Init ==
  /\ SignInInit
  /\ goal = NoGoal /\ unsent = {}
  /\ stream = [v \in Streams |-> Closed]
  /\ emitted = 0 /\ verdicts = 0 /\ crashes = 0

-----------------------------------------------------------------------------
(* The goal *)

\* A bound: nobody signs in any more (who does so later changes nothing of the goal).
SubmitGoal(s) ==
  /\ goal = NoGoal /\ \A t \in Tabs : callback[t] = NoCallback
  /\ Loaded(s) # 0
  /\ goal' = [status |-> "RUNNING", user |-> Loaded(s), by |-> sessions[s].of]
  /\ UNCHANGED <<signIn, unsent, stream, bounds>>

\* update_goal_status: a verdict, also over another one.
GiveVerdict ==
  /\ goal.status \in Terminal \cup {"RUNNING"} /\ verdicts < MaxVerdicts
  /\ verdicts' = verdicts + 1
  /\ \E verdict \in Terminal \ unsent :
       goal' = [goal EXCEPT !.status = verdict] /\ unsent' = unsent \cup {verdict}
  /\ UNCHANGED <<signIn, stream, emitted, crashes>>

\* attempt_replan: whatever another task made of the goal meanwhile.
Replan ==
  /\ goal # NoGoal
  /\ goal' = [goal EXCEPT !.status = "RUNNING"]
  /\ UNCHANGED <<signIn, unsent, stream, bounds>>

Put(st, item) == IF Len(st.queue) < Capacity THEN [st EXCEPT !.queue = Append(@, item)]
                 ELSE [st EXCEPT !.dropped = TRUE]

Emit(item) == stream' = [v \in Streams |->
                           IF Subscribed(v) THEN Put(stream[v], item) ELSE stream[v]]

EmitVerdict ==
  /\ \E verdict \in unsent : Emit(verdict) /\ unsent' = unsent \ {verdict}
  /\ UNCHANGED <<signIn, goal, bounds>>

EmitProgress ==
  /\ goal.status = "RUNNING" /\ emitted < MaxEvents
  /\ emitted' = emitted + 1
  /\ Emit("progress")
  /\ UNCHANGED <<signIn, goal, unsent, verdicts, crashes>>

-----------------------------------------------------------------------------
(* GET /api/goals/{id}/stream *)

Unmoved == UNCHANGED <<signIn, goal, unsent, bounds>>

Becomes(v, st) == stream' = [stream EXCEPT ![v] = st] /\ Unmoved

\* With any cookie somebody was ever given.
Request(v, s) ==
  /\ stream[v] = Closed /\ goal # NoGoal
  /\ Becomes(v, [Closed EXCEPT !.pc = "gate", !.session = s])

\* 401, or on to the handler.
Gate(v) ==
  /\ stream[v].pc = "gate"
  /\ LET user == Loaded(stream[v].session) IN
     Becomes(v, IF user = 0 THEN Closed ELSE [stream[v] EXCEPT !.pc = "owner", !.user = user])

\* 404, or a subscription.
OpenStream(v) ==
  /\ stream[v].pc = "owner"
  /\ Becomes(v, IF goal.user # stream[v].user THEN Closed ELSE [stream[v] EXCEPT !.pc = "opened"])

\* Mutant: what was read before the subscription is good enough.
StartAnyway(v) ==
  /\ stream[v].pc = "opened"
  /\ Becomes(v, [stream[v] EXCEPT !.pc = "waiting"])

\* A goal that has ended already is replayed from its row.
StartGenerator(v) ==
  /\ stream[v].pc = "opened"
  /\ Becomes(v, IF goal.status \in Terminal THEN Closed ELSE [stream[v] EXCEPT !.pc = "waiting"])

Deliver(v) ==
  /\ stream[v].pc = "waiting" /\ stream[v].queue # << >>
  /\ Becomes(v, IF Head(stream[v].queue) \in Terminal THEN Closed
                ELSE [stream[v] EXCEPT !.queue = Tail(@)])

\* Thirty seconds without an event,
TimesOut(v) ==
  /\ stream[v].pc = "waiting" /\ stream[v].queue = << >>
  /\ Becomes(v, [stream[v] EXCEPT !.pc = "ping"])

\* Mutant: a ping is a ping.
JustPing(v) ==
  /\ stream[v].pc = "ping"
  /\ Becomes(v, [stream[v] EXCEPT !.pc = "waiting"])

\* and the row is read again.
Ping(v) ==
  /\ stream[v].pc = "ping"
  /\ Becomes(v, IF goal.status \in Terminal THEN Closed ELSE [stream[v] EXCEPT !.pc = "waiting"])

\* The generator unsubscribes, unless it never ran.
Disconnect(v) ==
  /\ Watching(v)
  /\ Becomes(v, IF stream[v].pc = "opened" THEN [stream[v] EXCEPT !.pc = "gone"] ELSE Closed)

Crash ==
  /\ crashes < MaxCrashes
  /\ crashes' = crashes + 1
  /\ callback' = [t \in Tabs |-> NoCallback]
  /\ unsent' = {}
  /\ stream' = [v \in Streams |-> Closed]
  /\ UNCHANGED <<accounts, sessions, goal, emitted, verdicts>>

Generator(v) == StartGenerator(v) \/ Deliver(v) \/ TimesOut(v) \/ Ping(v)

StreamStep(v) ==
  \/ \E s \in DOMAIN sessions : Request(v, s)
  \/ Gate(v) \/ OpenStream(v) \/ Generator(v) \/ Disconnect(v)

GoalStep ==
  \/ \E s \in DOMAIN sessions : SubmitGoal(s)
  \/ GiveVerdict \/ Replan \/ EmitVerdict \/ EmitProgress

Next ==
  \/ /\ (goal = NoGoal /\ SignInStep) \/ SessionStep
     /\ UNCHANGED <<goal, unsent, stream, bounds>>
  \/ GoalStep
  \/ \E v \in Streams : StreamStep(v)
  \/ Crash

Spec == Init /\ [][Next]_vars

\* The process runs its coroutines, and a client that stays reads what it is sent.
FairSpec == Spec /\ WF_vars(EmitVerdict) /\ \A v \in Streams : WF_vars(Generator(v))

-----------------------------------------------------------------------------
(* Properties *)

\* Whoever watches a goal signed in with the Google account that submitted it, whatever
\* became of addresses, rows and cookies in between: the owner is compared by user id
\* (stream.py), and the id goes with "sub" and never with the address (db.py).
WatchesItsOwn ==
  \A v \in Streams : Watching(v) => sessions[stream[v].session].of = goal.by

\* No stream waits for an end it will not be told of: when the goal is over, its end is
\* in the queue or about to be emitted, unless the queue was full.  "The other order loses
\* the race" (stream.py).
NoSilentEnd ==
  \A v \in Streams :
    stream[v].pc = "waiting" /\ goal.status \in Terminal =>
      \/ \E i \in DOMAIN stream[v].queue : stream[v].queue[i] \in Terminal
      \/ unsent # {}
      \/ stream[v].dropped

\* A stream on a goal that is over ends, even if its queue was full at the wrong moment.
StreamEnds ==
  \A v \in Streams : (Watching(v) /\ goal.status \in Terminal)
                       ~> (~ Watching(v) \/ goal.status \notin Terminal)
=============================================================================
