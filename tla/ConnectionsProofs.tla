--------------------------- MODULE ConnectionsProofs ---------------------------
(***************************************************************************)
(* Theorems about Connections, for every set of users and calls and any     *)
(* number of connects, refreshes and crashes: a lease is its holder's, an   *)
(* active connection can be refreshed, and no dead token is handed out.     *)
(***************************************************************************)
EXTENDS Connections, TLAPS

Issued == 1 .. github.issued

\* A connection's tokens are of one pair, which is its user's: of says whose.
RowGood(of, u) ==
  rows[u] # None => /\ rows[u].access = rows[u].refresh
                    /\ rows[u].access \in Issued /\ of[rows[u].access] = u

\* A call from the moment it has read the row: st is its state.
Holds(st) == st.pc \in {"list", "mint", "user", "wait", "redeem", "store", "mark", "release"}

\* The row is there and is no older than what the call read, and no pair that came
\* later has aged; nothing but an aged pair is redeemed.
SnapGood(of, st) ==
  /\ st.owner \in Users /\ rows[st.owner] # None
  /\ st.snap \in Row /\ st.snap.access = st.snap.refresh
  /\ st.snap.access \in Issued /\ of[st.snap.access] = st.owner
  /\ st.snap.at <= rows[st.owner].at
  /\ st.snap.at < rows[st.owner].at => rows[st.owner].access \notin aged

CallGood(of, st) ==
  /\ Holds(st) => SnapGood(of, st)
  /\ st.pc = "mint" => ~ st.asUser
  /\ st.pc = "redeem" => st.snap.access \in aged
  /\ st.pc = "store" => st.got \in Issued \ aged /\ of[st.got] = st.owner
  /\ st.pc = "release" /\ st.got # 0 => st.got \notin aged

\* The pair of a callback is in nobody else's hands until it is in the row.
CallbackGood(of, u) ==
  connecting[u].pc \in {"record", "list", "store"} =>
    /\ connecting[u].pair \in Issued \ aged /\ of[connecting[u].pair] = u
    /\ rows[u] # None => rows[u].access # connecting[u].pair
    /\ \A c \in Calls : calls[c].pc = "store" /\ calls[c].owner = u =>
         calls[c].got # connecting[u].pair

Good(of) ==
  /\ \A u \in Users : RowGood(of, u) /\ CallbackGood(of, u)
  /\ \A c \in Calls : CallGood(of, calls[c])

Owners == [Pairs -> Users \cup {None}]

PairsInv ==
  /\ github.redeemed \subseteq aged /\ aged \subseteq Issued
  /\ \E of \in Owners : Good(of)

ConnectionsInv == ConnectionsTypeOK /\ PairsInv /\ LeaseIsItsHolders /\ ActiveIsRefreshable

-----------------------------------------------------------------------------
(* What steps leave as it is *)

\* Rows stay, and a new pair in one is younger than what was read before.
RowsGoOn ==
  \A u \in Users : rows[u] # None =>
    /\ rows'[u] # None
    /\ \/ rows'[u].at = rows[u].at /\ rows'[u].access = rows[u].access
       \/ rows'[u].at = rows[u].at + 1 /\ rows'[u].access \notin aged

\* Rows keep their pairs; a connection does not become active.
RowsKept ==
  /\ rows' \in [Users -> Row \cup {None}]
  /\ \A u \in Users :
       /\ rows[u] = None <=> rows'[u] = None
       /\ rows[u] # None =>
            /\ rows'[u].access = rows[u].access /\ rows'[u].refresh = rows[u].refresh
            /\ rows'[u].at = rows[u].at
            /\ ~ rows'[u].revoked /\ rows'[u].status = "active" =>
                 ~ rows[u].revoked /\ rows[u].status = "active"

LEMMA RowsSame ==
  ASSUME ConnectionsTypeOK, UNCHANGED rows PROVE RowsKept
  BY DEF ConnectionsTypeOK, RowsKept

LEMMA CallStays ==
  ASSUME ConnectionsTypeOK, NEW of, NEW mine, NEW st \in Call, CallGood(of, st),
         UNCHANGED aged, Issued \subseteq Issued', \A p \in Issued : mine[p] = of[p], RowsGoOn
  PROVE  CallGood(mine, st)'
<1>1. CASE Holds(st)
  <2>1. SnapGood(of, st) /\ st.owner \in Users /\ rows[st.owner] # None
    BY <1>1 DEF CallGood, SnapGood
  <2>2. rows[st.owner] \in Row /\ rows[st.owner].at \in Nat /\ st.snap.at \in Nat
    BY <2>1 DEF ConnectionsTypeOK, Row, SnapGood
  <2>3. /\ rows'[st.owner] # None
        /\ \/ rows'[st.owner].at = rows[st.owner].at /\ rows'[st.owner].access = rows[st.owner].access
           \/ rows'[st.owner].at = rows[st.owner].at + 1 /\ rows'[st.owner].access \notin aged
    BY <2>1 DEF RowsGoOn
  <2>4. /\ st.snap.at <= rows'[st.owner].at
        /\ st.snap.at < rows'[st.owner].at => rows'[st.owner].access \notin aged
    BY <2>1, <2>2, <2>3 DEF SnapGood
  <2>5. SnapGood(mine, st)'
    BY <2>1, <2>3, <2>4 DEF SnapGood
  <2> QED
    BY <1>1, <2>5 DEF CallGood, Holds
<1>2. CASE ~ Holds(st)
  BY <1>2 DEF CallGood, Holds
<1> QED
  BY <1>1, <1>2

LEMMA KeptGoOn ==
  ASSUME RowsKept PROVE RowsGoOn
  BY DEF RowsKept, RowsGoOn

LEMMA RowStays ==
  ASSUME RowsKept, NEW of, NEW mine, NEW u \in Users, RowGood(of, u),
         Issued \subseteq Issued', \A p \in Issued : mine[p] = of[p]
  PROVE  RowGood(mine, u)'
  BY DEF RowsKept, RowGood

\* The lease stays with whoever refreshes.
LEMMA LeaseStays ==
  ASSUME LeaseIsItsHolders,
         \A c \in Calls : Refreshing(c)' /\ ~ calls'[c].lapsed =>
           /\ Refreshing(c) /\ ~ calls[c].lapsed /\ calls'[c].owner = calls[c].owner
           /\ rows'[calls[c].owner].lock = rows[calls[c].owner].lock
  PROVE  LeaseIsItsHolders'
  BY DEF LeaseIsItsHolders

\* A call that is about to mend the row of a redeemed pair.
Mends(c, u) == calls[c].pc \in {"store", "mark"} /\ calls[c].snap.refresh = rows[u].refresh

\* It is a call of the row's user.
LEMMA MendsItsOwn ==
  ASSUME NEW of, Good(of), NEW c \in Calls, NEW u \in Users, rows[u] # None, Mends(c, u)
  PROVE  calls[c].owner = u
<1>1. /\ calls[c].snap.access = calls[c].snap.refresh
      /\ of[calls[c].snap.access] = calls[c].owner
  BY DEF Good, CallGood, Holds, SnapGood, Mends
<1>2. rows[u].access = rows[u].refresh /\ of[rows[u].access] = u
  BY DEF Good, RowGood
<1> QED
  BY <1>1, <1>2 DEF Mends

LEMMA ActiveStays ==
  ASSUME ActiveIsRefreshable, RowsKept, github'.redeemed = github.redeemed,
         orphans \subseteq orphans',
         \A c \in Calls, u \in Users :
           rows[u] # None /\ ~ rows'[u].revoked /\ rows'[u].status = "active" /\ Mends(c, u) =>
             Mends(c, u)' \/ rows[u].refresh \in orphans'
  PROVE  ActiveIsRefreshable'
<1> SUFFICES ASSUME NEW u \in Users, rows'[u] # None, ~ rows'[u].revoked,
                    rows'[u].status = "active",
                    rows'[u].refresh \in github'.redeemed \ orphans'
             PROVE  \E c \in Calls : Mends(c, u)'
  BY DEF ActiveIsRefreshable, Connected, Mends
<1>1. /\ rows[u] # None /\ ~ rows[u].revoked /\ rows[u].status = "active"
      /\ rows[u].refresh = rows'[u].refresh
  BY DEF RowsKept
<1>2. PICK c \in Calls : Mends(c, u)
  BY <1>1 DEF ActiveIsRefreshable, Connected, Mends
<1> QED
  BY <1>1, <1>2

-----------------------------------------------------------------------------
(* A step of one call *)

\* The call moves on, other than to or from an answer of GitHub's it has to store.
LEMMA CallMoves ==
  ASSUME ConnectionsInv, NEW c \in Calls, NEW new \in Call,
         calls' = [calls EXCEPT ![c] = new],
         RowsKept, UNCHANGED <<install, connecting, world>>,
         parked' \subseteq Users \cup {Legacy},
         new.pc # "store", calls[c].pc # "store",
         calls[c].pc = "mark" => rows'[calls[c].owner].status # "active",
         \A of \in Owners : Good(of) => CallGood(of, new),
         LeaseIsItsHolders'
  PROVE  ConnectionsInv'
<1>1. calls \in [Calls -> Call] /\ calls'[c] = new /\ \A d \in Calls : d # c => calls'[d] = calls[d]
  BY DEF ConnectionsInv, ConnectionsTypeOK
<1>2. ConnectionsTypeOK'
  BY <1>1 DEF ConnectionsInv, ConnectionsTypeOK, RowsKept, world
<1>3. PICK of \in Owners : Good(of)
  BY DEF ConnectionsInv, PairsInv
<1>4. RowsGoOn /\ Issued' = Issued /\ aged' = aged
  BY KeptGoOn DEF world, Issued
<1>5. ASSUME NEW d \in Calls PROVE CallGood(of, calls[d])'
  <2>1. PICK st \in Call : st = calls'[d] /\ CallGood(of, st)
    BY <1>1, <1>3 DEF Good
  <2>2. CallGood(of, st)'
    BY <1>4, <2>1, CallStays DEF ConnectionsInv
  <2> QED
    BY <2>1, <2>2 DEF CallGood, SnapGood, Holds
<1>6. ASSUME NEW u \in Users PROVE RowGood(of, u)' /\ CallbackGood(of, u)'
  <2>1. RowGood(of, u) /\ CallbackGood(of, u)
    BY <1>3 DEF Good
  <2>2. RowGood(of, u)'
    BY <1>4, <2>1, RowStays
  <2>3. \A d \in Calls : calls'[d].pc = "store" => calls'[d] = calls[d]
    BY <1>1
  <2>4. CallbackGood(of, u)'
    BY <1>4, <2>1, <2>3 DEF CallbackGood, RowsKept, world
  <2> QED
    BY <2>2, <2>4
<1>7. PairsInv'
  <2>1. Good(of)'
    BY <1>5, <1>6 DEF Good
  <2> QED
    BY <1>3, <1>4, <2>1 DEF PairsInv, Owners, Pairs, ConnectionsInv, world
<1>8. ActiveIsRefreshable'
  <2>1. ASSUME NEW d \in Calls, NEW u \in Users, rows[u] # None, rows'[u].status = "active",
               Mends(d, u)
        PROVE  Mends(d, u)'
    <3>1. d # c
      BY <1>3, <2>1, MendsItsOwn DEF Mends
    <3> QED
      BY <1>1, <2>1, <3>1 DEF Mends, RowsKept
  <2> QED
    BY <2>1, ActiveStays DEF ConnectionsInv, world
<1> QED
  BY <1>2, <1>7, <1>8 DEF ConnectionsInv

\* Most steps of a call leave the rows alone and have nothing to do with a refresh.
LEMMA CallGoesOn ==
  ASSUME ConnectionsInv, NEW c \in Calls, NEW new \in Call,
         calls' = [calls EXCEPT ![c] = new],
         UNCHANGED <<rows, install, connecting, world>>,
         parked' \subseteq Users \cup {Legacy},
         new.pc \notin {"redeem", "store", "mark", "release"},
         calls[c].pc \notin {"store", "mark"},
         \A of \in Owners : Good(of) => CallGood(of, new)
  PROVE  ConnectionsInv'
<1>1. calls \in [Calls -> Call] /\ calls'[c] = new /\ \A d \in Calls : d # c => calls'[d] = calls[d]
  BY DEF ConnectionsInv, ConnectionsTypeOK
<1>2. RowsKept
  BY RowsSame DEF ConnectionsInv
<1>3. \A d \in Calls : Refreshing(d)' => calls'[d] = calls[d]
  BY <1>1 DEF Refreshing
<1>4. LeaseIsItsHolders'
  BY <1>3, LeaseStays DEF ConnectionsInv, Refreshing
<1> QED
  BY <1>2, <1>4, CallMoves

\* A call that holds no row owes nothing.
LEMMA OffHands ==
  ASSUME NEW of, NEW st, st.pc \in {"idle", "check", "park", "read", "done"}
  PROVE  CallGood(of, st)
  BY DEF CallGood, Holds

LEMMA IdleCall == Idle \in Call /\ Idle.pc = "idle" /\ Idle.owner = Legacy
  BY DEF Idle, Call

LEMMA CallState ==
  ASSUME ConnectionsInv, NEW c \in Calls
  PROVE  /\ calls[c] \in Call /\ calls[c].owner \in Users \cup {Legacy} /\ calls[c].asUser \in BOOLEAN
         /\ \A of \in Owners : Good(of) => CallGood(of, calls[c])
  BY DEF ConnectionsInv, ConnectionsTypeOK, Call, Good

\* The tool gets an answer, or an error.
LEMMA CallEnds ==
  ASSUME ConnectionsInv, NEW c \in Calls, NEW pair \in Nat, Return(c, pair) \/ Fail(c),
         UNCHANGED <<rows, install, connecting, world>>,
         parked' \subseteq Users \cup {Legacy}, calls[c].pc \notin {"store", "mark"}
  PROVE  ConnectionsInv'
<1>1. CASE Fail(c)
  <2>1. PICK new \in Call : new = Idle /\ new.pc = "idle"
    BY IdleCall
  <2>2. \A of \in Owners : CallGood(of, new)
    BY <2>1, OffHands
  <2>3. calls' = [calls EXCEPT ![c] = new]
    BY <1>1, <2>1 DEF Fail
  <2> QED
    BY <2>1, <2>2, <2>3, CallGoesOn
<1>2. CASE Return(c, pair)
  <2>1. PICK asUser \in BOOLEAN : asUser = calls[c].asUser
    BY CallState
  <2> DEFINE next == [Idle EXCEPT !.pc = "done", !.asUser = asUser, !.got = pair]
  <2>2. next \in Call /\ next.pc = "done"
    BY <2>1 DEF Idle, Call
  <2>3. calls' = [calls EXCEPT ![c] = next]
    BY <1>2, <2>1 DEF Return
  <2> HIDE DEF next
  <2>4. PICK new \in Call : new = next
    BY <2>2
  <2>5. \A of \in Owners : CallGood(of, new)
    BY <2>2, <2>4, OffHands
  <2> QED
    BY <2>2, <2>3, <2>4, <2>5, CallGoesOn
<1> QED
  BY <1>1, <1>2

LEMMA BeginKeeps ==
  ASSUME ConnectionsInv, ConnectionsAssumption, NEW c \in Calls, NEW asUser \in BOOLEAN,
         \/ \E u \in Users : Begin(c, u, asUser)
         \/ \E sender \in Users \cup {None} : Begin(c, OwnerForEvent(sender), asUser)
  PROVE  ConnectionsInv'
<1>1. PICK owner \in Users \cup {Legacy} : Begin(c, owner, asUser)
  <2>1. install.owner \in Users \cup {None} /\ install.members \subseteq Users
    BY DEF ConnectionsInv, ConnectionsTypeOK, Install
  <2>2. \A sender \in Users \cup {None} : OwnerForEvent(sender) \in Users \cup {Legacy}
    BY <2>1 DEF OwnerForEvent, ConnectionsAssumption
  <2> QED
    BY <2>2
<1> DEFINE next == [Idle EXCEPT !.pc = "check", !.owner = owner, !.asUser = asUser]
<1>2. next \in Call /\ next.pc = "check"
  BY DEF Idle, Call
<1>3. calls' = [calls EXCEPT ![c] = next]
  BY <1>1 DEF Begin
<1>4. calls[c].pc = "idle" /\ UNCHANGED <<rows, install, connecting, world, parked>>
  BY <1>1 DEF Begin, store
<1> HIDE DEF next
<1>5. PICK new \in Call : new = next
  BY <1>2
<1>6. parked' \subseteq Users \cup {Legacy}
  BY <1>4 DEF ConnectionsInv, ConnectionsTypeOK
<1>7. \A of \in Owners : CallGood(of, new)
  BY <1>2, <1>5, OffHands
<1> QED
  BY <1>2, <1>3, <1>4, <1>5, <1>6, <1>7, CallGoesOn

\* From one step to the next, with what the call has read.
LEMMA GotoKeeps ==
  ASSUME ConnectionsInv, NEW c \in Calls, NEW pc \in {"park", "read", "mint", "user", "wait"},
         Goto(c, pc), UNCHANGED <<store, connecting, world>>,
         calls[c].pc \in {"check", "list", "user"},
         pc \in {"mint", "user", "wait"} => calls[c].pc \in {"list", "user"},
         pc = "mint" => ~ calls[c].asUser
  PROVE  ConnectionsInv'
<1> DEFINE next == [calls[c] EXCEPT !.pc = pc]
<1>1. calls[c] \in Call
  BY CallState
<1>2. /\ next \in Call /\ next.pc = pc /\ next.snap = calls[c].snap
      /\ next.owner = calls[c].owner /\ next.asUser = calls[c].asUser
  BY <1>1 DEF Call
<1>3. calls' = [calls EXCEPT ![c] = next]
  BY DEF Goto
<1> HIDE DEF next
<1>4. PICK new \in Call : new = next
  BY <1>2
<1>5. ASSUME NEW of \in Owners, Good(of) PROVE CallGood(of, new)
  <2>1. CallGood(of, calls[c])
    BY <1>5, CallState
  <2> QED
    BY <1>2, <1>4, <2>1 DEF CallGood, Holds, SnapGood
<1>6. parked' \subseteq Users \cup {Legacy}
  BY DEF ConnectionsInv, ConnectionsTypeOK, store
<1> QED
  BY <1>2, <1>3, <1>4, <1>5, <1>6, CallGoesOn DEF store

LEMMA InstallationForKeeps ==
  ASSUME ConnectionsInv, ConnectionsAssumption, RowAssumption, NEW c \in Calls, InstallationFor(c)
  PROVE  ConnectionsInv'
<1>1. calls[c] \in Call /\ calls[c].pc = "read" /\ UNCHANGED <<store, connecting, world>>
  BY CallState DEF InstallationFor
<1>2. parked' \subseteq Users \cup {Legacy}
  BY <1>1 DEF ConnectionsInv, ConnectionsTypeOK, store
<1>3. CASE ~ Active(calls[c].owner)
  <2>1. Fail(c)
    BY <1>3 DEF InstallationFor, Fail
  <2> QED
    BY <1>1, <1>2, <2>1, CallEnds DEF store
<1>4. CASE Active(calls[c].owner)
  <2>1. PICK u \in Users : u = calls[c].owner /\ rows[u] # None /\ rows[u] \in Row
    BY <1>4 DEF Active, Connected, ConnectionsInv, ConnectionsTypeOK
  <2>2. PICK read \in Row : read = [rows[u] EXCEPT !.lock = None]
    BY <2>1 DEF Row
  <2>3. /\ read.access = rows[u].access /\ read.refresh = rows[u].refresh
        /\ read.at = rows[u].at /\ read.at \in Nat
    BY <2>1, <2>2 DEF Row
  <2> DEFINE next == [calls[c] EXCEPT !.pc = "list", !.snap = read]
  <2>4. /\ next \in Call /\ next.pc = "list" /\ next.snap = read /\ next.owner = u
    BY <1>1, <2>1 DEF Call
  <2>5. calls' = [calls EXCEPT ![c] = next]
    BY <1>4, <2>1, <2>2 DEF InstallationFor
  <2> HIDE DEF next
  <2>6. PICK new \in Call : new = next
    BY <2>4
  <2>7. ASSUME NEW of \in Owners, Good(of) PROVE CallGood(of, new)
    <3>1. RowGood(of, u)
      BY <2>7 DEF Good
    <3>2. SnapGood(of, new)
      BY <2>1, <2>3, <2>4, <2>6, <3>1 DEF RowGood, SnapGood
    <3> QED
      BY <2>4, <2>6, <3>2 DEF CallGood
  <2> QED
    BY <1>1, <1>2, <2>4, <2>5, <2>6, <2>7, CallGoesOn DEF store
<1> QED
  BY <1>3, <1>4

LEMMA AcquireKeeps ==
  ASSUME ConnectionsInv, ConnectionsAssumption, RowAssumption, NEW c \in Calls,
         AcquireRefreshLease(c)
  PROVE  ConnectionsInv'
<1>1. /\ calls[c] \in Call /\ calls[c].pc = "user" /\ calls[c].snap.access \in aged
      /\ UNCHANGED <<install, parked, connecting, world>>
  BY CallState DEF AcquireRefreshLease
<1>2. PICK u \in Users : u = calls[c].owner /\ rows[u] # None /\ rows[u] \in Row
  <2>1. PICK of \in Owners : Good(of)
    BY DEF ConnectionsInv, PairsInv
  <2>2. SnapGood(of, calls[c])
    BY <1>1, <2>1, CallState DEF CallGood, Holds
  <2> QED
    BY <2>2 DEF SnapGood, ConnectionsInv, ConnectionsTypeOK
<1>3. CASE rows[u].lock # None
  BY <1>1, <1>2, <1>3, GotoKeeps DEF AcquireRefreshLease, store
<1>4. CASE rows[u].lock = None
  <2>1. PICK row \in Row : row = [rows[u] EXCEPT !.lock = c]
    BY <1>2 DEF Row
  <2>2. /\ row.access = rows[u].access /\ row.refresh = rows[u].refresh /\ row.at = rows[u].at
        /\ row.revoked = rows[u].revoked /\ row.status = rows[u].status /\ row.lock = c
    BY <1>2, <2>1 DEF Row
  <2>3. rows' = [rows EXCEPT ![u] = row] /\ rows \in [Users -> Row \cup {None}]
    BY <1>2, <1>4, <2>1 DEF AcquireRefreshLease, ConnectionsInv, ConnectionsTypeOK
  <2>4. RowsKept
    BY <1>2, <2>2, <2>3 DEF RowsKept, RowAssumption
  <2> DEFINE next == [calls[c] EXCEPT !.pc = "redeem"]
  <2>5. /\ next \in Call /\ next.pc = "redeem" /\ next.snap = calls[c].snap
        /\ next.owner = calls[c].owner /\ next.asUser = calls[c].asUser
    BY <1>1 DEF Call
  <2>6. calls' = [calls EXCEPT ![c] = next]
    BY <1>2, <1>4 DEF AcquireRefreshLease, Goto
  <2> HIDE DEF next
  <2>7. PICK new \in Call : new = next
    BY <2>5
  <2>8. ASSUME NEW of \in Owners, Good(of) PROVE CallGood(of, new)
    <3>1. CallGood(of, calls[c])
      BY <2>8, CallState
    <3> QED
      BY <1>1, <2>5, <2>7, <3>1 DEF CallGood, Holds, SnapGood
  <2>9. LeaseIsItsHolders'
    <3>1. calls'[c] = new /\ \A d \in Calls : d # c => calls'[d] = calls[d]
      BY <2>6, <2>7 DEF ConnectionsInv, ConnectionsTypeOK
    <3>2. rows'[u].lock = c /\ \A v \in Users : v # u => rows'[v] = rows[v]
      BY <2>2, <2>3
    <3>3. ASSUME NEW d \in Calls, Refreshing(d)', ~ calls'[d].lapsed
          PROVE  rows'[calls'[d].owner].lock = d
      <4>1. CASE d = c
        BY <1>2, <2>5, <2>7, <3>1, <3>2, <4>1
      <4>2. CASE d # c
        <5>1. calls'[d] = calls[d] /\ rows[calls[d].owner].lock = d
          BY <3>1, <3>3, <4>2 DEF Refreshing, ConnectionsInv, LeaseIsItsHolders
        <5>2. calls[d].owner # u /\ calls[d].owner \in Users
          <6>1. PICK of \in Owners : Good(of)
            BY DEF ConnectionsInv, PairsInv
          <6>2. SnapGood(of, calls[d])
            BY <3>3, <5>1, <6>1 DEF Good, CallGood, Holds, Refreshing
          <6> QED
            BY <1>4, <5>1, <6>2 DEF SnapGood, ConnectionsAssumption
        <5> QED
          BY <3>2, <5>1, <5>2
      <4> QED
        BY <4>1, <4>2
    <3> QED
      BY <3>3 DEF LeaseIsItsHolders
  <2>10. parked' \subseteq Users \cup {Legacy}
    BY <1>1 DEF ConnectionsInv, ConnectionsTypeOK
  <2> QED
    BY <1>1, <2>4, <2>5, <2>6, <2>7, <2>8, <2>9, <2>10, CallMoves
<1> QED
  BY <1>3, <1>4

\* A refreshing call's row, and what is kept when the row's lease or status alone moves.
LEMMA RowAtHand ==
  ASSUME ConnectionsInv, NEW c \in Calls, Holds(calls[c])
  PROVE  /\ calls[c].owner \in Users /\ rows[calls[c].owner] # None
         /\ rows[calls[c].owner] \in Row
<1>1. PICK of \in Owners : Good(of)
  BY DEF ConnectionsInv, PairsInv
<1>2. SnapGood(of, calls[c])
  BY <1>1 DEF Good, CallGood
<1> QED
  BY <1>2 DEF SnapGood, ConnectionsInv, ConnectionsTypeOK

LEMMA RowTouched ==
  ASSUME ConnectionsInv, RowAssumption, NEW u \in Users, rows[u] # None, NEW row \in Row,
         rows' = [rows EXCEPT ![u] = row],
         row.access = rows[u].access, row.refresh = rows[u].refresh, row.at = rows[u].at,
         ~ row.revoked /\ row.status = "active" => ~ rows[u].revoked /\ rows[u].status = "active"
  PROVE  /\ RowsKept /\ rows'[u] = row
         /\ \A v \in Users : v # u => rows'[v] = rows[v]
<1>1. rows \in [Users -> Row \cup {None}]
  BY DEF ConnectionsInv, ConnectionsTypeOK
<1>2. rows' \in [Users -> Row \cup {None}]
  BY <1>1
<1>3. rows'[u] = row /\ \A v \in Users : v # u => rows'[v] = rows[v]
  BY <1>1
<1> QED
  BY <1>2, <1>3 DEF RowsKept, RowAssumption

LEMMA MarkKeeps ==
  ASSUME ConnectionsInv, RowAssumption, NEW c \in Calls, MarkNeedsReauth(c)
  PROVE  ConnectionsInv'
<1>1. /\ calls[c] \in Call /\ calls[c].pc = "mark" /\ Holds(calls[c])
      /\ UNCHANGED <<install, parked, connecting, world>>
  BY CallState DEF MarkNeedsReauth, Holds
<1>2. PICK u \in Users : u = calls[c].owner /\ rows[u] # None /\ rows[u] \in Row
  BY <1>1, RowAtHand
<1>3. PICK row \in Row : row = [rows[u] EXCEPT !.status = "needs_reauth"]
  BY <1>2 DEF Row
<1>4. /\ row.access = rows[u].access /\ row.refresh = rows[u].refresh /\ row.at = rows[u].at
      /\ row.revoked = rows[u].revoked /\ row.status = "needs_reauth" /\ row.lock = rows[u].lock
  BY <1>2, <1>3 DEF Row
<1>5. rows' = [rows EXCEPT ![u] = row]
  BY <1>2, <1>3 DEF MarkNeedsReauth
<1>6. /\ RowsKept /\ rows'[u] = row
      /\ \A v \in Users : v # u => rows'[v] = rows[v]
  BY <1>2, <1>4, <1>5, RowTouched
<1> DEFINE next == [calls[c] EXCEPT !.pc = "release", !.got = 0]
<1>7. /\ next \in Call /\ next.pc = "release" /\ next.snap = calls[c].snap /\ next.got = 0
      /\ next.owner = calls[c].owner /\ next.lapsed = calls[c].lapsed
  BY <1>1 DEF Call
<1>8. calls' = [calls EXCEPT ![c] = next]
  BY DEF MarkNeedsReauth
<1> HIDE DEF next
<1>9. PICK new \in Call : new = next
  BY <1>7
<1>10. ASSUME NEW of \in Owners, Good(of) PROVE CallGood(of, new)
  <2>1. CallGood(of, calls[c])
    BY <1>10, CallState
  <2> QED
    BY <1>1, <1>7, <1>9, <2>1 DEF CallGood, Holds, SnapGood
<1>11. LeaseIsItsHolders'
  <2>1. calls'[c] = new /\ \A d \in Calls : d # c => calls'[d] = calls[d]
    BY <1>8, <1>9 DEF ConnectionsInv, ConnectionsTypeOK
  <2>2. \A v \in Users : rows[v] # None => rows'[v].lock = rows[v].lock
    BY <1>4, <1>6
  <2>3. \A d \in Calls : Refreshing(d)' =>
          Refreshing(d) /\ calls'[d].owner = calls[d].owner /\ calls'[d].lapsed = calls[d].lapsed
    BY <1>1, <1>7, <1>9, <2>1 DEF Refreshing
  <2>4. \A d \in Calls : Refreshing(d) => calls[d].owner \in Users /\ rows[calls[d].owner] # None
    BY RowAtHand DEF Refreshing, Holds
  <2> QED
    BY <2>2, <2>3, <2>4, LeaseStays DEF ConnectionsInv
<1>12. parked' \subseteq Users \cup {Legacy}
  BY <1>1 DEF ConnectionsInv, ConnectionsTypeOK
<1>13. rows'[calls[c].owner].status # "active"
  BY <1>2, <1>4, <1>6
<1> QED
  BY <1>1, <1>6, <1>7, <1>8, <1>9, <1>10, <1>11, <1>12, <1>13, CallMoves

LEMMA ReleaseKeeps ==
  ASSUME ConnectionsInv, ConnectionsAssumption, RowAssumption, NEW c \in Calls,
         ReleaseRefreshLease(c)
  PROVE  ConnectionsInv'
<1>1. /\ calls[c] \in Call /\ calls[c].pc = "release" /\ Holds(calls[c])
      /\ UNCHANGED <<install, parked, connecting, world>>
  BY CallState DEF ReleaseRefreshLease, Holds
<1>2. PICK u \in Users : u = calls[c].owner /\ rows[u] # None /\ rows[u] \in Row
  BY <1>1, RowAtHand
<1>3. PICK row \in Row : row = [rows[u] EXCEPT !.lock = IF rows[u].lock = c THEN None
                                                       ELSE rows[u].lock]
  BY <1>2 DEF Row
<1>4. /\ row.access = rows[u].access /\ row.refresh = rows[u].refresh /\ row.at = rows[u].at
      /\ row.revoked = rows[u].revoked /\ row.status = rows[u].status
      /\ row.lock = IF rows[u].lock = c THEN None ELSE rows[u].lock
  BY <1>2, <1>3 DEF Row
<1>5. rows' = [rows EXCEPT ![u] = row]
  BY <1>2, <1>3 DEF ReleaseRefreshLease
<1>6. /\ RowsKept /\ rows'[u] = row
      /\ \A v \in Users : v # u => rows'[v] = rows[v]
  <2>1. ~ row.revoked /\ row.status = "active" => ~ rows[u].revoked /\ rows[u].status = "active"
    BY <1>4
  <2> QED
    BY <1>2, <1>4, <1>5, <2>1, RowTouched
<1>7. PICK new \in Call : /\ calls' = [calls EXCEPT ![c] = new]
                          /\ new.pc \in {"idle", "done"}
  <2>1. CASE Fail(c)
    BY <2>1, IdleCall DEF Fail
  <2>2. CASE Return(c, calls[c].got)
    <3>1. PICK asUser \in BOOLEAN, got \in Nat : asUser = calls[c].asUser /\ got = calls[c].got
      BY <1>1 DEF Call
    <3>2. [Idle EXCEPT !.pc = "done", !.asUser = asUser, !.got = got] \in Call
      BY <3>1 DEF Idle, Call
    <3>3. [Idle EXCEPT !.pc = "done", !.asUser = asUser, !.got = got].pc = "done"
      BY DEF Idle
    <3> QED
      BY <2>2, <3>1, <3>2, <3>3 DEF Return
  <2> QED
    BY <2>1, <2>2 DEF ReleaseRefreshLease
<1>8. \A of \in Owners : CallGood(of, new)
  BY <1>7, OffHands
<1>9. LeaseIsItsHolders'
  <2>1. calls'[c] = new /\ \A d \in Calls : d # c => calls'[d] = calls[d]
    BY <1>7 DEF ConnectionsInv, ConnectionsTypeOK
  <2>2. ASSUME NEW d \in Calls, Refreshing(d)', ~ calls'[d].lapsed
        PROVE  rows'[calls'[d].owner].lock = d
    <3>1. d # c /\ calls'[d] = calls[d] /\ Refreshing(d)
      BY <1>7, <2>1, <2>2 DEF Refreshing
    <3>2. rows[calls[d].owner].lock = d /\ calls[d].owner \in Users
      BY <2>2, <3>1, RowAtHand DEF ConnectionsInv, LeaseIsItsHolders, Refreshing, Holds
    <3> QED
      BY <1>4, <1>6, <3>1, <3>2
  <2> QED
    BY <2>2 DEF LeaseIsItsHolders
<1>10. parked' \subseteq Users \cup {Legacy}
  BY <1>1 DEF ConnectionsInv, ConnectionsTypeOK
<1> QED
  BY <1>1, <1>6, <1>7, <1>8, <1>9, <1>10, CallMoves

\* The steps of a call that leave GitHub and the pair of the row alone.
LEMMA CallKeeps ==
  ASSUME ConnectionsInv, ConnectionsAssumption, RowAssumption, NEW c \in Calls,
         CallStep(c), ~ Redeem(c), ~ StoreRefreshed(c)
  PROVE  ConnectionsInv'
<1>1. calls[c] \in Call /\ \A of \in Owners : Good(of) => CallGood(of, calls[c])
  BY CallState
<1>2. 0 \in Nat /\ parked \subseteq Users \cup {Legacy} /\ calls[c].owner \in Users \cup {Legacy}
  BY CallState DEF ConnectionsInv, ConnectionsTypeOK
<1>3. CASE CredentialCheck(c)
  BY <1>3, GotoKeeps DEF CredentialCheck
<1>4. CASE Park(c)
  <2>1. Fail(c) /\ parked' \subseteq Users \cup {Legacy}
    BY <1>2, <1>4 DEF Park, Fail
  <2> QED
    BY <1>2, <1>4, <2>1, CallEnds DEF Park
<1>5. CASE InstallationFor(c)
  BY <1>5, InstallationForKeeps
<1>6. CASE RepoAllowed(c)
  <2>1. calls[c].pc = "list" /\ UNCHANGED <<store, connecting, world>>
    BY <1>6 DEF RepoAllowed
  <2>2. CASE Goto(c, IF calls[c].asUser THEN "user" ELSE "mint")
    BY <2>1, <2>2, GotoKeeps
  <2>3. CASE Fail(c)
    BY <1>2, <2>1, <2>3, CallEnds DEF store
  <2> QED
    BY <1>6, <2>2, <2>3 DEF RepoAllowed
<1>7. CASE InstallationToken(c)
  BY <1>2, <1>7, CallEnds DEF InstallationToken, store
<1>8. ASSUME calls[c].pc \in {"user", "wait"} PROVE rows[calls[c].owner].access \in Nat /\ calls[c].snap.access \in Nat
  <2>1. PICK of \in Owners : Good(of)
    BY DEF ConnectionsInv, PairsInv
  <2>2. calls[c].snap \in Row
    BY <1>1, <1>8, <2>1 DEF CallGood, Holds, SnapGood
  <2>3. rows[calls[c].owner] \in Row
    BY <1>8, RowAtHand DEF Holds
  <2> QED
    BY <2>2, <2>3 DEF Row, Pairs
<1>9. CASE StillFresh(c)
  BY <1>2, <1>8, <1>9, CallEnds DEF StillFresh, store
<1>10. CASE AcquireRefreshLease(c)
  BY <1>10, AcquireKeeps
<1>11. CASE ReadTheWinners(c)
  BY <1>2, <1>8, <1>11, CallEnds DEF ReadTheWinners, store
<1>12. CASE TimesOutWaiting(c)
  BY <1>2, <1>12, CallEnds DEF TimesOutWaiting, store
<1>13. CASE MarkNeedsReauth(c)
  BY <1>13, MarkKeeps
<1>14. CASE ReleaseRefreshLease(c)
  BY <1>14, ReleaseKeeps
<1>15. CASE End(c)
  <2>1. Fail(c)
    BY <1>15 DEF End, Fail
  <2> QED
    BY <1>2, <1>15, <2>1, CallEnds DEF End, store
<1> QED
  BY <1>3, <1>4, <1>5, <1>6, <1>7, <1>9, <1>10, <1>11, <1>12, <1>13, <1>14, <1>15 DEF CallStep

-----------------------------------------------------------------------------
(* GitHub issues a pair *)

\* The new pair is u's, and nobody's else; it has not aged.
LEMMA IssuePair ==
  ASSUME ConnectionsInv, ConnectionsAssumption, NEW spent, Issue(spent),
         NEW of \in Owners, NEW u \in Users
  PROVE  /\ github'.issued = github.issued + 1 /\ github'.redeemed = github.redeemed \cup spent
         /\ github'.issued \in 0 .. MaxTokens /\ github.issued + 1 \in Nat \ {0}
         /\ Issued' = Issued \cup {github.issued + 1} /\ github.issued + 1 \notin Issued
         /\ \E mine \in Owners : /\ mine[github.issued + 1] = u
                                 /\ \A p \in Issued : mine[p] = of[p]
<1>1. github.issued \in Nat /\ github.issued < MaxTokens /\ MaxTokens \in Nat
  BY DEF ConnectionsInv, ConnectionsTypeOK, ConnectionsAssumption, Issue
<1>2. PICK new \in Pairs : new = github.issued + 1
  BY <1>1 DEF Pairs
<1>3. new \notin Issued /\ Issued \subseteq Pairs
  BY <1>1, <1>2 DEF Issued, Pairs
<1>4. [of EXCEPT ![new] = u] \in Owners
  BY DEF Owners
<1>5. [of EXCEPT ![new] = u][new] = u /\ \A p \in Issued : [of EXCEPT ![new] = u][p] = of[p]
  BY <1>2, <1>3 DEF Owners
<1>6. github'.issued = github.issued + 1 /\ github'.redeemed = github.redeemed \cup spent
  BY DEF Issue
<1>7. Issued' = Issued \cup {github.issued + 1}
  BY <1>1, <1>6 DEF Issued
<1>8. \E mine \in Owners : mine[github.issued + 1] = u /\ \A p \in Issued : mine[p] = of[p]
  BY <1>2, <1>4, <1>5
<1> QED
  BY <1>1, <1>2, <1>3, <1>6, <1>7, <1>8

LEMMA RedeemKeeps ==
  ASSUME ConnectionsInv, ConnectionsAssumption, NEW c \in Calls, Redeem(c)
  PROVE  ConnectionsInv'
<1>1. /\ calls[c] \in Call /\ calls[c].pc = "redeem" /\ Holds(calls[c])
      /\ UNCHANGED <<rows, install, parked, connecting, aged, orphans, connects, crashes>>
  BY CallState DEF Redeem, Holds, store
<1>2. PICK u \in Users : u = calls[c].owner /\ rows[u] # None
  BY <1>1, RowAtHand
<1>3. PICK new \in Call :
        /\ calls' = [calls EXCEPT ![c] = new]
        /\ new.snap = calls[c].snap /\ new.owner = calls[c].owner /\ new.lapsed = calls[c].lapsed
        /\ \/ new.pc = "store" /\ Issue({calls[c].snap.refresh}) /\ new.got = github.issued + 1
           \/ new.pc = "mark" /\ (Issue({calls[c].snap.refresh}) \/ UNCHANGED github)
  <2>1. CASE /\ Issue({calls[c].snap.refresh})
             /\ calls' = [calls EXCEPT ![c].pc = "store", ![c].got = github.issued + 1]
    <3>1. PICK got \in Nat : got = github.issued + 1
      BY DEF ConnectionsInv, ConnectionsTypeOK
    <3> DEFINE next == [calls[c] EXCEPT !.pc = "store", !.got = got]
    <3>2. /\ next \in Call /\ next.pc = "store" /\ next.got = got /\ next.snap = calls[c].snap
          /\ next.owner = calls[c].owner /\ next.lapsed = calls[c].lapsed
      BY <1>1 DEF Call
    <3>3. calls' = [calls EXCEPT ![c] = next]
      BY <2>1, <3>1
    <3> HIDE DEF next
    <3> QED
      BY <2>1, <3>1, <3>2, <3>3
  <2>2. CASE Goto(c, "mark") /\ (Issue({calls[c].snap.refresh}) \/ UNCHANGED github)
    <3> DEFINE next == [calls[c] EXCEPT !.pc = "mark"]
    <3>2. /\ next \in Call /\ next.pc = "mark" /\ next.snap = calls[c].snap
          /\ next.owner = calls[c].owner /\ next.lapsed = calls[c].lapsed
      BY <1>1 DEF Call
    <3>3. calls' = [calls EXCEPT ![c] = next]
      BY <2>2 DEF Goto
    <3> HIDE DEF next
    <3> QED
      BY <2>2, <3>2, <3>3
  <2> QED
    BY <2>1, <2>2 DEF Redeem
<1>4. /\ calls \in [Calls -> Call] /\ calls' \in [Calls -> Call]
      /\ calls'[c] = new /\ \A d \in Calls : d # c => calls'[d] = calls[d]
  BY <1>3 DEF ConnectionsInv, ConnectionsTypeOK
<1>5. LeaseIsItsHolders'
  BY <1>1, <1>3, <1>4, LeaseStays DEF ConnectionsInv, Refreshing
<1>6. PICK of \in Owners : Good(of)
  BY DEF ConnectionsInv, PairsInv
<1>7. /\ CallGood(of, calls[c]) /\ SnapGood(of, calls[c]) /\ calls[c].snap.access \in aged
      /\ calls[c].snap.refresh = calls[c].snap.access
  BY <1>1, <1>6 DEF Good, CallGood, SnapGood
<1>8. PICK mine \in Owners :
        /\ Issued \subseteq Issued' /\ \A p \in Issued : mine[p] = of[p]
        /\ github'.issued \in 0 .. MaxTokens
        /\ github'.redeemed \in {github.redeemed, github.redeemed \cup {calls[c].snap.refresh}}
        /\ new.pc = "store" => /\ new.got \in Issued' \ Issued /\ mine[new.got] = u
  <2>1. CASE Issue({calls[c].snap.refresh})
    <3>1. PICK mine \in Owners : /\ mine[github.issued + 1] = u
                                 /\ \A p \in Issued : mine[p] = of[p]
      BY <2>1, IssuePair
    <3>2. /\ github'.redeemed = github.redeemed \cup {calls[c].snap.refresh}
          /\ github'.issued \in 0 .. MaxTokens
          /\ Issued' = Issued \cup {github.issued + 1} /\ github.issued + 1 \notin Issued
      BY <2>1, IssuePair
    <3> QED
      BY <1>3, <3>1, <3>2
  <2>2. CASE UNCHANGED github /\ new.pc = "mark"
    BY <2>2 DEF Issued, ConnectionsInv, ConnectionsTypeOK
  <2> QED
    BY <1>3, <2>1, <2>2
<1>9. RowsKept /\ RowsGoOn
  BY <1>1, RowsSame, KeptGoOn DEF ConnectionsInv
<1>10. aged' \subseteq Issued' /\ github'.redeemed \subseteq aged'
  BY <1>1, <1>7, <1>8 DEF ConnectionsInv, PairsInv
<1>11. ASSUME NEW d \in Calls PROVE CallGood(mine, calls[d])'
  <2>1. CASE d # c
    <3>1. PICK st \in Call : st = calls'[d] /\ CallGood(of, st)
      BY <1>4, <1>6, <2>1 DEF Good
    <3>2. CallGood(mine, st)'
      BY <1>1, <1>8, <1>9, <3>1, CallStays DEF ConnectionsInv
    <3> QED
      BY <3>1, <3>2 DEF CallGood, SnapGood, Holds
  <2>2. CASE d = c
    <3>1. SnapGood(mine, new)'
      BY <1>1, <1>3, <1>7, <1>8 DEF SnapGood
    <3>2. new.pc = "store" => new.got \in Issued' \ aged' /\ mine[new.got] = new.owner
      BY <1>1, <1>2, <1>3, <1>8 DEF ConnectionsInv, PairsInv
    <3>3. CallGood(mine, new)'
      BY <1>3, <3>1, <3>2 DEF CallGood
    <3> QED
      BY <1>4, <2>2, <3>3 DEF CallGood, SnapGood, Holds
  <2> QED
    BY <2>1, <2>2
<1>12. ASSUME NEW v \in Users PROVE RowGood(mine, v)' /\ CallbackGood(mine, v)'
  <2>1. RowGood(of, v) /\ CallbackGood(of, v)
    BY <1>6 DEF Good
  <2>2. RowGood(mine, v)'
    BY <1>8, <1>9, <2>1, RowStays
  <2>3. CallbackGood(mine, v)'
    <3> SUFFICES ASSUME connecting[v].pc \in {"record", "list", "store"}
                 PROVE  /\ connecting[v].pair \in Issued' \ aged
                        /\ mine[connecting[v].pair] = v
                        /\ rows[v] # None => rows[v].access # connecting[v].pair
                        /\ \A d \in Calls : calls'[d].pc = "store" /\ calls'[d].owner = v =>
                             calls'[d].got # connecting[v].pair
      BY <1>1 DEF CallbackGood
    <3>1. connecting[v].pair \in Issued
      BY <2>1 DEF CallbackGood
    <3>2. \A d \in Calls : calls'[d].pc = "store" /\ calls'[d].owner = v =>
             calls'[d].got # connecting[v].pair
      BY <1>4, <1>8, <2>1, <3>1 DEF CallbackGood
    <3> QED
      BY <1>8, <2>1, <3>1, <3>2 DEF CallbackGood
  <2> QED
    BY <2>2, <2>3
<1>13. PairsInv'
  <2>1. Good(mine)'
    BY <1>11, <1>12 DEF Good
  <2>2. mine \in Owners'
    BY DEF Owners, Pairs
  <2> QED
    BY <1>10, <2>1, <2>2 DEF PairsInv
<1>14. ActiveIsRefreshable'
  <2> SUFFICES ASSUME NEW v \in Users, Connected(v), rows[v].status = "active",
                      rows[v].refresh \in github'.redeemed \ orphans
               PROVE  \E d \in Calls : /\ calls'[d].pc \in {"store", "mark"}
                                       /\ calls'[d].snap.refresh = rows[v].refresh
    BY <1>1 DEF ActiveIsRefreshable, Connected
  <2>1. CASE rows[v].refresh \in github.redeemed
    <3>1. PICK d \in Calls : calls[d].pc \in {"store", "mark"} /\ calls[d].snap.refresh = rows[v].refresh
      BY <2>1 DEF ConnectionsInv, ActiveIsRefreshable
    <3> QED
      BY <1>1, <1>4, <3>1
  <2>2. CASE rows[v].refresh = calls[c].snap.refresh
    BY <1>3, <1>4, <2>2
  <2> QED
    BY <1>8, <2>1, <2>2
<1>15. ConnectionsTypeOK'
  <2>1. Issued' = 1 .. github'.issued
    BY DEF Issued
  <2> QED
    BY <1>1, <1>4, <1>8, <1>10, <2>1 DEF ConnectionsInv, ConnectionsTypeOK
<1> QED
  BY <1>5, <1>13, <1>14, <1>15 DEF ConnectionsInv

\* A step of a user's callback that takes nothing up.
LEMMA CallbackGoesOn ==
  ASSUME ConnectionsInv, NEW u \in Users, NEW pc \in {"no", "record", "list", "store", "wake"},
         NEW pair \in Nat, connecting' = [connecting EXCEPT ![u] = [pc |-> pc, pair |-> pair]],
         pc \in {"record", "list", "store"} =>
           pair = connecting[u].pair /\ connecting[u].pc \in {"record", "list", "store"},
         RowsKept, \A v \in Users : rows[v] # None => rows'[v].lock = rows[v].lock,
         UNCHANGED <<calls, world>>,
         install' \in Install, parked' \subseteq Users \cup {Legacy}
  PROVE  ConnectionsInv'
<1>1. PICK at \in [pc : {"no", "record", "list", "store", "wake"}, pair : Nat] :
        at = [pc |-> pc, pair |-> pair] /\ at.pc = pc /\ at.pair = pair
  <2> DEFINE next == [pc |-> pc, pair |-> pair]
  <2>1. next \in [pc : {"no", "record", "list", "store", "wake"}, pair : Nat]
    OBVIOUS
  <2>2. next.pc = pc /\ next.pair = pair
    OBVIOUS
  <2> HIDE DEF next
  <2> QED
    BY <2>1, <2>2
<1>2. /\ connecting' \in [Users -> [pc : {"no", "record", "list", "store", "wake"}, pair : Nat]]
      /\ connecting'[u] = at /\ \A v \in Users : v # u => connecting'[v] = connecting[v]
  BY <1>1 DEF ConnectionsInv, ConnectionsTypeOK
<1>3. ConnectionsTypeOK'
  BY <1>2 DEF ConnectionsInv, ConnectionsTypeOK, RowsKept, world
<1>4. PICK of \in Owners : Good(of)
  BY DEF ConnectionsInv, PairsInv
<1>5. RowsGoOn /\ Issued' = Issued /\ aged' = aged
  BY KeptGoOn DEF world, Issued
<1>6. ASSUME NEW d \in Calls PROVE CallGood(of, calls[d])'
  <2>1. PICK st \in Call : st = calls[d] /\ CallGood(of, st)
    BY <1>4 DEF Good, ConnectionsInv, ConnectionsTypeOK
  <2>2. CallGood(of, st)'
    BY <1>5, <2>1, CallStays DEF ConnectionsInv
  <2> QED
    BY <2>1, <2>2 DEF CallGood, SnapGood, Holds
<1>7. ASSUME NEW v \in Users PROVE RowGood(of, v)' /\ CallbackGood(of, v)'
  <2>1. RowGood(of, v) /\ CallbackGood(of, v)
    BY <1>4 DEF Good
  <2>2. RowGood(of, v)'
    BY <1>5, <2>1, RowStays
  <2>3. CallbackGood(of, v)'
    BY <1>1, <1>2, <1>5, <2>1 DEF CallbackGood, RowsKept
  <2> QED
    BY <2>2, <2>3
<1>8. PairsInv'
  <2>1. Good(of)'
    BY <1>6, <1>7 DEF Good
  <2> QED
    BY <1>4, <1>5, <2>1 DEF PairsInv, Owners, Pairs, ConnectionsInv, world
<1>9. LeaseIsItsHolders'
  <2>1. \A d \in Calls : Refreshing(d) => calls[d].owner \in Users /\ rows[calls[d].owner] # None
    BY RowAtHand DEF Refreshing, Holds
  <2> QED
    BY <2>1, LeaseStays DEF ConnectionsInv, Refreshing
<1>10. ActiveIsRefreshable'
  BY ActiveStays DEF ConnectionsInv, Mends, RowsKept, world
<1> QED
  BY <1>3, <1>8, <1>9, <1>10 DEF ConnectionsInv

LEMMA CallbackState ==
  ASSUME ConnectionsInv, NEW u \in Users
  PROVE  /\ connecting[u].pc \in {"no", "record", "list", "store", "wake"}
         /\ connecting[u].pair \in Nat
         /\ connecting[u] = [pc |-> connecting[u].pc, pair |-> connecting[u].pair]
<1>1. connecting[u] \in [pc : {"no", "record", "list", "store", "wake"}, pair : Nat]
  BY DEF ConnectionsInv, ConnectionsTypeOK
<1> QED
  BY <1>1

LEMMA CallbackKeeps ==
  ASSUME ConnectionsInv, ConnectionsAssumption, RowAssumption, NEW u \in Users,
         \/ RecordInstallation(u) \/ RecordRepos(u) \/ ResumeCredentialTasks(u)
         \/ ConnectFails(u) \/ Disconnect(u)
  PROVE  ConnectionsInv'
<1>1. /\ install \in Install /\ parked \subseteq Users \cup {Legacy}
      /\ connecting \in [Users -> [pc : {"no", "record", "list", "store", "wake"}, pair : Nat]]
  BY DEF ConnectionsInv, ConnectionsTypeOK
<1>2. PICK pc \in {"no", "record", "list", "store", "wake"}, pair \in Nat :
        pc = connecting[u].pc /\ pair = connecting[u].pair /\ connecting[u] = [pc |-> pc, pair |-> pair]
  BY CallbackState
<1>3. ASSUME NEW next \in {"list", "store"}, connecting' = [connecting EXCEPT ![u].pc = next]
      PROVE  connecting' = [connecting EXCEPT ![u] = [pc |-> next, pair |-> pair]]
  <2>1. [connecting[u] EXCEPT !.pc = next] = [pc |-> next, pair |-> pair]
    BY <1>2
  <2> QED
    BY <1>3, <2>1
<1>4. CASE RecordInstallation(u)
  <2>1. install' \in Install
    BY <1>1, <1>4 DEF RecordInstallation, Install
  <2>2. RowsKept
    BY <1>4, RowsSame DEF RecordInstallation, ConnectionsInv
  <2>3. /\ connecting' = [connecting EXCEPT ![u] = [pc |-> "list", pair |-> pair]]
        /\ pc = "record"
    BY <1>2, <1>3, <1>4 DEF RecordInstallation, Callback
  <2> QED
    BY <1>1, <1>2, <1>4, <2>1, <2>2, <2>3, CallbackGoesOn DEF RecordInstallation
<1>5. CASE RecordRepos(u)
  <2>1. install' \in Install
    BY <1>1, <1>5 DEF RecordRepos, Install
  <2>2. RowsKept
    BY <1>5, RowsSame DEF RecordRepos, ConnectionsInv
  <2>3. /\ connecting' = [connecting EXCEPT ![u] = [pc |-> "store", pair |-> pair]]
        /\ pc = "list"
    BY <1>2, <1>3, <1>5 DEF RecordRepos, Callback
  <2> QED
    BY <1>1, <1>2, <1>5, <2>1, <2>2, <2>3, CallbackGoesOn DEF RecordRepos
<1>6. CASE ResumeCredentialTasks(u) \/ ConnectFails(u)
  <2>1. /\ connecting' = [connecting EXCEPT ![u] = [pc |-> "no", pair |-> 0]]
        /\ UNCHANGED <<rows, install, calls, world>> /\ parked' \subseteq parked
    BY <1>6 DEF ResumeCredentialTasks, ConnectFails, store
  <2>2. RowsKept
    BY <2>1, RowsSame DEF ConnectionsInv
  <2>3. parked' \subseteq Users \cup {Legacy} /\ 0 \in Nat
    BY <1>1, <2>1
  <2> QED
    BY <1>1, <2>1, <2>2, <2>3, CallbackGoesOn
<1>7. CASE Disconnect(u)
  <2>1. /\ UNCHANGED <<install, parked, connecting, calls, world>>
        /\ rows[u] # None /\ rows[u] \in Row
    BY <1>7 DEF Disconnect, Connected, ConnectionsInv, ConnectionsTypeOK
  <2>2. PICK row \in Row : row = [rows[u] EXCEPT !.revoked = TRUE]
    BY <2>1 DEF Row
  <2>3. /\ row.access = rows[u].access /\ row.refresh = rows[u].refresh /\ row.at = rows[u].at
        /\ row.revoked = TRUE /\ row.lock = rows[u].lock
    BY <2>1, <2>2 DEF Row
  <2>4. rows' = [rows EXCEPT ![u] = row]
    BY <1>7, <2>2 DEF Disconnect
  <2>5. RowsKept /\ rows'[u] = row /\ \A v \in Users : v # u => rows'[v] = rows[v]
    BY <2>1, <2>3, <2>4, RowTouched
  <2>6. connecting' = [connecting EXCEPT ![u] = [pc |-> pc, pair |-> pair]]
    BY <1>1, <1>2, <2>1
  <2>7. \A v \in Users : rows[v] # None => rows'[v].lock = rows[v].lock
    BY <2>3, <2>5
  <2>8. /\ install' \in Install /\ parked' \subseteq Users \cup {Legacy}
        /\ UNCHANGED <<calls, world>>
    BY <1>1, <2>1
  <2>9. pc \in {"record", "list", "store"} =>
          pair = connecting[u].pair /\ connecting[u].pc \in {"record", "list", "store"}
    BY <1>2
  <2> QED
    BY <2>5, <2>6, <2>7, <2>8, <2>9, CallbackGoesOn
<1> QED
  BY <1>4, <1>5, <1>6, <1>7

LEMMA ExchangeKeeps ==
  ASSUME ConnectionsInv, ConnectionsAssumption, NEW u \in Users, ExchangeCode(u)
  PROVE  ConnectionsInv'
<1>1. /\ UNCHANGED <<rows, install, parked, calls, aged, orphans, crashes>>
      /\ connects' \in 0 .. MaxConnects /\ Issue({})
  BY DEF ExchangeCode, store, ConnectionsInv, ConnectionsTypeOK, ConnectionsAssumption
<1>2. PICK of \in Owners : Good(of)
  BY DEF ConnectionsInv, PairsInv
<1>3. /\ github'.issued \in 0 .. MaxTokens /\ github'.redeemed = github.redeemed
      /\ Issued' = Issued \cup {github.issued + 1} /\ github.issued + 1 \notin Issued
  <2>1. /\ github'.issued \in 0 .. MaxTokens /\ github'.redeemed = github.redeemed \cup {}
        /\ Issued' = Issued \cup {github.issued + 1} /\ github.issued + 1 \notin Issued
    BY <1>1, <1>2, IssuePair
  <2> QED
    BY <2>1
<1>4. PICK mine \in Owners : /\ mine[github.issued + 1] = u
                             /\ \A p \in Issued : mine[p] = of[p]
  BY <1>1, <1>2, IssuePair
<1>5. PICK pair \in Nat : pair = github.issued + 1
  BY DEF ConnectionsInv, ConnectionsTypeOK
<1>6. /\ connecting' \in [Users -> [pc : {"no", "record", "list", "store", "wake"}, pair : Nat]]
      /\ connecting'[u].pair = pair /\ \A v \in Users : v # u => connecting'[v] = connecting[v]
  <2>1. PICK at \in [pc : {"no", "record", "list", "store", "wake"}, pair : Nat] :
          at = [pc |-> "record", pair |-> pair]
    OBVIOUS
  <2>2. connecting' = [connecting EXCEPT ![u] = at] /\ at.pair = pair
    BY <1>5, <2>1 DEF ExchangeCode
  <2> QED
    BY <2>2 DEF ConnectionsInv, ConnectionsTypeOK
<1>7. RowsKept /\ RowsGoOn
  BY <1>1, RowsSame, KeptGoOn DEF ConnectionsInv
<1>8. aged' \subseteq Issued' /\ github'.redeemed \subseteq aged'
  BY <1>1, <1>3 DEF ConnectionsInv, PairsInv
<1>9. ASSUME NEW d \in Calls PROVE CallGood(mine, calls[d])'
  <2>1. PICK st \in Call : st = calls[d] /\ CallGood(of, st)
    BY <1>2 DEF Good, ConnectionsInv, ConnectionsTypeOK
  <2>2. CallGood(mine, st)'
    BY <1>1, <1>3, <1>4, <1>7, <2>1, CallStays DEF ConnectionsInv
  <2> QED
    BY <1>1, <2>1, <2>2 DEF CallGood, SnapGood, Holds
<1>10. ASSUME NEW v \in Users PROVE RowGood(mine, v)' /\ CallbackGood(mine, v)'
  <2>1. RowGood(of, v) /\ CallbackGood(of, v)
    BY <1>2 DEF Good
  <2>2. RowGood(mine, v)'
    BY <1>3, <1>4, <1>7, <2>1, RowStays
  <2>3. CASE v # u
    <3>1. CallbackGood(mine, v)'
      BY <1>1, <1>3, <1>4, <1>6, <2>1, <2>3 DEF CallbackGood
    <3> QED
      BY <2>2, <3>1
  <2>4. CASE v = u
    <3>1. pair \in Issued' \ aged' /\ mine[pair] = u /\ pair \notin Issued
      BY <1>1, <1>3, <1>4, <1>5 DEF ConnectionsInv, PairsInv
    <3>2. rows[u] # None => rows[u].access # pair
      BY <2>1, <2>4, <3>1 DEF RowGood
    <3>3. \A d \in Calls : calls[d].pc = "store" => calls[d].got # pair
      BY <1>2, <3>1 DEF Good, CallGood
    <3>4. CallbackGood(mine, u)'
      BY <1>1, <1>6, <3>1, <3>2, <3>3 DEF CallbackGood
    <3> QED
      BY <2>2, <2>4, <3>4
  <2> QED
    BY <2>3, <2>4
<1>11. PairsInv'
  <2>1. Good(mine)'
    BY <1>9, <1>10 DEF Good
  <2>2. mine \in Owners'
    BY DEF Owners, Pairs
  <2> QED
    BY <1>8, <2>1, <2>2 DEF PairsInv
<1>12. ActiveIsRefreshable' /\ LeaseIsItsHolders'
  BY <1>1, <1>3 DEF ConnectionsInv, ActiveIsRefreshable, LeaseIsItsHolders, Connected, Refreshing
<1>13. ConnectionsTypeOK'
  <2>1. Issued' = 1 .. github'.issued
    BY DEF Issued
  <2> QED
    BY <1>1, <1>3, <1>6, <1>8, <2>1 DEF ConnectionsInv, ConnectionsTypeOK
<1> QED
  BY <1>11, <1>12, <1>13 DEF ConnectionsInv

-----------------------------------------------------------------------------
(* A new pair is stored *)

LEMMA RowRenewed ==
  ASSUME ConnectionsInv, RowAssumption, NEW of \in Owners, Good(of), NEW u \in Users,
         NEW row \in Row, rows' = [rows EXCEPT ![u] = row], UNCHANGED <<github, aged>>,
         row.access = row.refresh, row.access \in Issued \ aged, of[row.access] = u,
         rows[u] # None => row.at = rows[u].at + 1 /\ row.lock = rows[u].lock
  PROVE  /\ RowsGoOn /\ rows' \in [Users -> Row \cup {None}]
         /\ rows'[u] = row /\ \A v \in Users : v # u => rows'[v] = rows[v]
         /\ \A v \in Users : RowGood(of, v)'
         /\ \A v \in Users : rows[v] # None => rows'[v].lock = rows[v].lock
<1>1. rows \in [Users -> Row \cup {None}]
  BY DEF ConnectionsInv, ConnectionsTypeOK
<1>2. /\ rows' \in [Users -> Row \cup {None}]
      /\ rows'[u] = row /\ \A v \in Users : v # u => rows'[v] = rows[v]
  BY <1>1
<1>3. RowsGoOn
  BY <1>2 DEF RowsGoOn, RowAssumption
<1>4. ASSUME NEW v \in Users PROVE RowGood(of, v)'
  <2>1. RowGood(of, v)
    BY DEF Good
  <2> QED
    BY <1>2, <2>1 DEF RowGood, Issued
<1> QED
  BY <1>2, <1>3, <1>4

LEMMA StoreRefreshedKeeps ==
  ASSUME ConnectionsInv, ConnectionsAssumption, RowAssumption, NEW c \in Calls, StoreRefreshed(c)
  PROVE  ConnectionsInv'
<1>1. /\ calls[c] \in Call /\ calls[c].pc = "store" /\ Holds(calls[c])
      /\ UNCHANGED <<install, parked, connecting, world>>
  BY CallState DEF StoreRefreshed, Holds
<1>2. PICK u \in Users : u = calls[c].owner /\ rows[u] # None /\ rows[u] \in Row
  BY <1>1, RowAtHand
<1>3. PICK of \in Owners : Good(of)
  BY DEF ConnectionsInv, PairsInv
<1>4. PICK got \in Pairs, at \in Nat :
        /\ got = calls[c].got /\ at = rows[u].at + 1
        /\ got \in Issued \ aged /\ of[got] = u
  <2>1. calls[c].got \in Issued \ aged /\ of[calls[c].got] = u
    BY <1>1, <1>2, <1>3 DEF Good, CallGood
  <2>2. Issued \subseteq Pairs
    BY DEF Issued, Pairs, ConnectionsInv, ConnectionsTypeOK, ConnectionsAssumption
  <2>3. rows[u].at + 1 \in Nat
    BY <1>2 DEF Row
  <2> QED
    BY <2>1, <2>2, <2>3
<1>5. PICK row \in Row : /\ rows' = [rows EXCEPT ![u] = row]
                         /\ row.access = got /\ row.refresh = got /\ row.at = at
                         /\ row.lock = rows[u].lock
  <2> DEFINE renewed == [rows[u] EXCEPT !.status = "active", !.access = got]
  <2>1. /\ renewed \in Row /\ renewed.access = got /\ renewed.at = rows[u].at
        /\ renewed.lock = rows[u].lock
    BY <1>2 DEF Row
  <2> HIDE DEF renewed
  <2>h. PICK half \in Row : half = renewed
    BY <2>1
  <2> DEFINE final == [half EXCEPT !.refresh = got, !.at = at]
  <2>2. /\ final \in Row /\ final.access = half.access /\ final.refresh = got
        /\ final.at = at /\ final.lock = half.lock
    BY DEF Row
  <2> HIDE DEF final
  <2>r. PICK row \in Row : row = final
    BY <2>2
  <2>3. row = [rows[u] EXCEPT !.status = "active", !.access = got, !.refresh = got, !.at = at]
    BY <2>h, <2>r DEF renewed, final
  <2>4. rows' = [rows EXCEPT ![u] = row]
    BY <1>2, <1>4, <2>3 DEF StoreRefreshed
  <2> QED
    BY <2>1, <2>h, <2>2, <2>r, <2>4
<1>6. /\ RowsGoOn /\ rows' \in [Users -> Row \cup {None}]
      /\ rows'[u] = row /\ \A v \in Users : v # u => rows'[v] = rows[v]
      /\ \A v \in Users : RowGood(of, v)'
      /\ \A v \in Users : rows[v] # None => rows'[v].lock = rows[v].lock
  BY <1>1, <1>3, <1>4, <1>5, RowRenewed DEF world
<1> DEFINE next == [calls[c] EXCEPT !.pc = "release"]
<1>7. /\ next \in Call /\ next.pc = "release" /\ next.snap = calls[c].snap /\ next.got = got
      /\ next.owner = u /\ next.lapsed = calls[c].lapsed
  BY <1>1, <1>2, <1>4 DEF Call
<1>8. calls' = [calls EXCEPT ![c] = next]
  BY DEF StoreRefreshed, Goto
<1> HIDE DEF next
<1>9. PICK new \in Call : new = next
  BY <1>7
<1>10. /\ calls' \in [Calls -> Call] /\ calls'[c] = new
       /\ \A d \in Calls : d # c => calls'[d] = calls[d]
  BY <1>8, <1>9 DEF ConnectionsInv, ConnectionsTypeOK
<1>11. Issued' = Issued /\ aged' = aged /\ github' = github /\ connecting' = connecting
  BY <1>1 DEF Issued, world
<1>12. ASSUME NEW d \in Calls PROVE CallGood(of, calls[d])'
  <2>1. PICK st \in Call : st = calls[d] /\ CallGood(of, st)
    BY <1>3 DEF Good, ConnectionsInv, ConnectionsTypeOK
  <2>2. CallGood(of, st)'
    BY <1>6, <1>11, <2>1, CallStays DEF ConnectionsInv
  <2>3. CASE d # c
    BY <1>10, <2>1, <2>2, <2>3 DEF CallGood, SnapGood, Holds
  <2>4. CASE d = c
    BY <1>1, <1>2, <1>4, <1>7, <1>9, <1>10, <1>11, <2>1, <2>2, <2>4 DEF CallGood, SnapGood, Holds
  <2> QED
    BY <2>3, <2>4
<1>13. ASSUME NEW v \in Users PROVE CallbackGood(of, v)'
  <2>1. CallbackGood(of, v)
    BY <1>3 DEF Good
  <2>2. \A d \in Calls : calls'[d].pc = "store" => calls'[d] = calls[d]
    BY <1>7, <1>9, <1>10
  <2>3. connecting[v].pc \in {"record", "list", "store"} /\ v = u => got # connecting[v].pair
    BY <1>1, <1>2, <1>4, <2>1 DEF CallbackGood
  <2> QED
    BY <1>5, <1>6, <1>11, <2>1, <2>2, <2>3 DEF CallbackGood
<1>14. PairsInv'
  <2>1. Good(of)'
    BY <1>6, <1>12, <1>13 DEF Good
  <2> QED
    BY <1>3, <1>11, <2>1 DEF PairsInv, Owners, Pairs, ConnectionsInv
<1>15. LeaseIsItsHolders'
  <2>1. \A d \in Calls : Refreshing(d) => calls[d].owner \in Users /\ rows[calls[d].owner] # None
    BY RowAtHand DEF Refreshing, Holds
  <2>2. \A d \in Calls : Refreshing(d)' =>
          Refreshing(d) /\ calls'[d].owner = calls[d].owner /\ calls'[d].lapsed = calls[d].lapsed
    BY <1>1, <1>2, <1>7, <1>9, <1>10 DEF Refreshing
  <2> QED
    BY <1>6, <2>1, <2>2, LeaseStays DEF ConnectionsInv
<1>16. ActiveIsRefreshable'
  <2> SUFFICES ASSUME NEW v \in Users, rows'[v] # None, ~ rows'[v].revoked,
                      rows'[v].status = "active", rows'[v].refresh \in github.redeemed \ orphans
               PROVE  \E d \in Calls : Mends(d, v)'
    BY <1>1, <1>11 DEF ActiveIsRefreshable, Connected, Mends, world
  <2>1. v # u
    BY <1>4, <1>5, <1>6 DEF ConnectionsInv, PairsInv
  <2>2. rows'[v] = rows[v]
    BY <1>6, <2>1
  <2>3. PICK d \in Calls : Mends(d, v)
    BY <2>2 DEF ConnectionsInv, ActiveIsRefreshable, Connected, Mends
  <2>4. d # c
    BY <1>2, <1>3, <2>1, <2>2, <2>3, MendsItsOwn
  <2> QED
    BY <1>10, <2>2, <2>3, <2>4 DEF Mends
<1>17. ConnectionsTypeOK'
  BY <1>1, <1>6, <1>10 DEF ConnectionsInv, ConnectionsTypeOK, world
<1> QED
  BY <1>14, <1>15, <1>16, <1>17 DEF ConnectionsInv

\* The row an upsert writes.
LEMMA UpsertedRow ==
  ASSUME ConnectionsInv, ConnectionsAssumption, NEW u \in Users, NEW pair \in Pairs,
         UpsertConnection(u), pair = connecting[u].pair
  PROVE  \E row \in Row : /\ rows' = [rows EXCEPT ![u] = row]
                          /\ row.access = pair /\ row.refresh = pair
                          /\ rows[u] # None => row.at = rows[u].at + 1 /\ row.lock = rows[u].lock
<1>1. CASE rows[u] = None
  <2> DEFINE row == [status |-> "active", revoked |-> FALSE, access |-> pair, refresh |-> pair,
                     at |-> 1, lock |-> None]
  <2>1. row \in Row /\ row.access = pair /\ row.refresh = pair
    BY DEF Row
  <2>2. rows' = [rows EXCEPT ![u] = row]
    BY <1>1 DEF UpsertConnection
  <2> HIDE DEF row
  <2> QED
    BY <1>1, <2>1, <2>2
<1>2. CASE rows[u] # None
  <2>1. rows[u] \in Row
    BY <1>2 DEF ConnectionsInv, ConnectionsTypeOK
  <2>2. PICK at \in Nat : at = rows[u].at + 1
    BY <2>1 DEF Row
  <2> DEFINE live == [rows[u] EXCEPT !.status = "active", !.revoked = FALSE]
  <2>3. live \in Row /\ live.lock = rows[u].lock
    BY <2>1 DEF Row
  <2> HIDE DEF live
  <2>4. PICK half \in Row : half = live
    BY <2>3
  <2> DEFINE row == [half EXCEPT !.access = pair, !.refresh = pair, !.at = at]
  <2>5. row \in Row /\ row.access = pair /\ row.refresh = pair /\ row.at = at /\ row.lock = half.lock
    BY DEF Row
  <2>6. row = [rows[u] EXCEPT !.status = "active", !.revoked = FALSE, !.access = pair,
                              !.refresh = pair, !.at = at]
    BY <2>4 DEF live
  <2> HIDE DEF row
  <2>7. rows' = [rows EXCEPT ![u] =
                   [rows[u] EXCEPT !.status = "active", !.revoked = FALSE, !.access = pair,
                                   !.refresh = pair, !.at = rows[u].at + 1]]
    BY <1>2 DEF UpsertConnection
  <2>8. rows' = [rows EXCEPT ![u] = row]
    BY <2>2, <2>6, <2>7
  <2> QED
    BY <2>2, <2>3, <2>4, <2>5, <2>8
<1> QED
  BY <1>1, <1>2

LEMMA UpsertKeeps ==
  ASSUME ConnectionsInv, ConnectionsAssumption, RowAssumption, NEW u \in Users,
         UpsertConnection(u)
  PROVE  ConnectionsInv'
<1>1. /\ connecting[u].pc = "store" /\ UNCHANGED <<install, parked, calls, world>>
      /\ connecting' = [connecting EXCEPT ![u].pc = "wake"]
  BY DEF UpsertConnection, Callback
<1>2. PICK of \in Owners : Good(of)
  BY DEF ConnectionsInv, PairsInv
<1>3. PICK pair \in Pairs : /\ pair = connecting[u].pair /\ pair \in Issued \ aged
                            /\ of[pair] = u
  <2>1. connecting[u].pair \in Issued \ aged /\ of[connecting[u].pair] = u
    BY <1>1, <1>2 DEF Good, CallbackGood
  <2>2. Issued \subseteq Pairs
    BY DEF Issued, Pairs, ConnectionsInv, ConnectionsTypeOK, ConnectionsAssumption
  <2> QED
    BY <2>1, <2>2
<1>4. PICK row \in Row : /\ rows' = [rows EXCEPT ![u] = row]
                         /\ row.access = pair /\ row.refresh = pair
                         /\ rows[u] # None => row.at = rows[u].at + 1 /\ row.lock = rows[u].lock
  BY <1>3, UpsertedRow
<1>5. /\ RowsGoOn /\ rows' \in [Users -> Row \cup {None}]
      /\ rows'[u] = row /\ \A v \in Users : v # u => rows'[v] = rows[v]
      /\ \A v \in Users : RowGood(of, v)'
      /\ \A v \in Users : rows[v] # None => rows'[v].lock = rows[v].lock
  BY <1>1, <1>2, <1>3, <1>4, RowRenewed DEF world
<1>6. Issued' = Issued /\ aged' = aged /\ github' = github
  BY <1>1 DEF Issued, world
<1>7. /\ connecting' \in [Users -> [pc : {"no", "record", "list", "store", "wake"}, pair : Nat]]
      /\ connecting'[u].pc = "wake" /\ \A v \in Users : v # u => connecting'[v] = connecting[v]
  BY <1>1 DEF ConnectionsInv, ConnectionsTypeOK
<1>8. ASSUME NEW d \in Calls PROVE CallGood(of, calls[d])'
  <2>1. PICK st \in Call : st = calls[d] /\ CallGood(of, st)
    BY <1>2 DEF Good, ConnectionsInv, ConnectionsTypeOK
  <2>2. CallGood(of, st)'
    BY <1>5, <1>6, <2>1, CallStays DEF ConnectionsInv
  <2> QED
    BY <1>1, <2>1, <2>2 DEF CallGood, SnapGood, Holds
<1>9. ASSUME NEW v \in Users PROVE CallbackGood(of, v)'
  BY <1>1, <1>2, <1>5, <1>6, <1>7 DEF Good, CallbackGood
<1>10. PairsInv'
  <2>1. Good(of)'
    BY <1>5, <1>8, <1>9 DEF Good
  <2> QED
    BY <1>2, <1>6, <2>1 DEF PairsInv, Owners, Pairs, ConnectionsInv
<1>11. LeaseIsItsHolders'
  <2>1. \A d \in Calls : Refreshing(d) => calls[d].owner \in Users /\ rows[calls[d].owner] # None
    BY RowAtHand DEF Refreshing, Holds
  <2> QED
    BY <1>1, <1>5, <2>1, LeaseStays DEF ConnectionsInv, Refreshing
<1>12. ActiveIsRefreshable'
  <2> SUFFICES ASSUME NEW v \in Users, rows'[v] # None, ~ rows'[v].revoked,
                      rows'[v].status = "active", rows'[v].refresh \in github.redeemed \ orphans
               PROVE  \E d \in Calls : Mends(d, v)'
    BY <1>1, <1>6 DEF ActiveIsRefreshable, Connected, Mends, world
  <2>1. v # u
    BY <1>3, <1>4, <1>5 DEF ConnectionsInv, PairsInv
  <2>2. rows'[v] = rows[v]
    BY <1>5, <2>1
  <2>3. PICK d \in Calls : Mends(d, v)
    BY <2>2 DEF ConnectionsInv, ActiveIsRefreshable, Connected, Mends
  <2> QED
    BY <1>1, <2>2, <2>3 DEF Mends
<1>13. ConnectionsTypeOK'
  BY <1>1, <1>5, <1>7 DEF ConnectionsInv, ConnectionsTypeOK, world
<1> QED
  BY <1>10, <1>11, <1>12, <1>13 DEF ConnectionsInv

-----------------------------------------------------------------------------
(* Time and crashes *)

LEMMA AgesKeeps ==
  ASSUME ConnectionsInv, ConnectionsAssumption, NEW u \in Users, AccessTokenAges(u)
  PROVE  ConnectionsInv'
<1>1. /\ UNCHANGED <<rows, install, parked, connecting, calls, github, orphans, connects, crashes>>
      /\ rows[u] # None /\ aged' = aged \cup {rows[u].access}
      /\ \A c \in Calls : calls[c].pc \in {"idle", "check", "read", "done"}
  BY DEF AccessTokenAges, store
<1>2. PICK of \in Owners : Good(of)
  BY DEF ConnectionsInv, PairsInv
<1>3. rows[u].access \in Issued /\ of[rows[u].access] = u
  BY <1>1, <1>2 DEF Good, RowGood
<1>4. Issued' = Issued
  BY <1>1 DEF Issued
<1>5. ASSUME NEW c \in Calls PROVE CallGood(of, calls[c])'
  BY <1>1 DEF CallGood, Holds
<1>6. ASSUME NEW v \in Users PROVE RowGood(of, v)' /\ CallbackGood(of, v)'
  <2>1. RowGood(of, v) /\ CallbackGood(of, v)
    BY <1>2 DEF Good
  <2>2. RowGood(of, v)'
    BY <1>1, <1>4, <2>1 DEF RowGood
  <2>3. CallbackGood(of, v)'
    BY <1>1, <1>3, <1>4, <2>1 DEF CallbackGood
  <2> QED
    BY <2>2, <2>3
<1>7. PairsInv'
  <2>1. Good(of)'
    BY <1>5, <1>6 DEF Good
  <2>2. aged' \subseteq Issued' /\ github'.redeemed \subseteq aged'
    BY <1>1, <1>3, <1>4 DEF ConnectionsInv, PairsInv
  <2>3. of \in Owners'
    BY DEF Owners, Pairs
  <2> QED
    BY <2>1, <2>2, <2>3 DEF PairsInv
<1>8. Issued \subseteq Pairs
  BY DEF Issued, Pairs, ConnectionsInv, ConnectionsTypeOK, ConnectionsAssumption
<1>9. ConnectionsTypeOK'
  BY <1>1, <1>3, <1>8 DEF ConnectionsInv, ConnectionsTypeOK
<1>10. ActiveIsRefreshable' /\ LeaseIsItsHolders'
  BY <1>1 DEF ConnectionsInv, ActiveIsRefreshable, LeaseIsItsHolders, Connected, Refreshing
<1> QED
  BY <1>7, <1>9, <1>10 DEF ConnectionsInv

LEMMA ExpiresKeeps ==
  ASSUME ConnectionsInv, ConnectionsAssumption, RowAssumption, NEW u \in Users, LeaseExpires(u)
  PROVE  ConnectionsInv'
<1>1. /\ UNCHANGED <<install, parked, connecting, world>> /\ rows[u] # None /\ rows[u] \in Row
  BY DEF LeaseExpires, ConnectionsInv, ConnectionsTypeOK
<1>2. PICK row \in Row : row = [rows[u] EXCEPT !.lock = None]
  BY <1>1 DEF Row
<1>3. /\ row.access = rows[u].access /\ row.refresh = rows[u].refresh /\ row.at = rows[u].at
      /\ row.revoked = rows[u].revoked /\ row.status = rows[u].status
  BY <1>1, <1>2 DEF Row
<1>4. rows' = [rows EXCEPT ![u] = row]
  BY <1>2 DEF LeaseExpires
<1>5. ~ row.revoked /\ row.status = "active" => ~ rows[u].revoked /\ rows[u].status = "active"
  BY <1>3
<1>6. RowsKept /\ rows'[u] = row /\ \A v \in Users : v # u => rows'[v] = rows[v]
  BY <1>1, <1>3, <1>4, <1>5, RowTouched
<1>7. ASSUME NEW c \in Calls
      PROVE  /\ calls'[c] \in Call /\ calls'[c].pc = calls[c].pc /\ calls'[c].owner = calls[c].owner
             /\ calls'[c].asUser = calls[c].asUser /\ calls'[c].snap = calls[c].snap
             /\ calls'[c].got = calls[c].got
             /\ ~ calls'[c].lapsed => ~ calls[c].lapsed /\ ~ (c = rows[u].lock /\ Refreshing(c))
  <2>1. PICK lapsed \in BOOLEAN :
          lapsed = (calls[c].lapsed \/ (c = rows[u].lock /\ Refreshing(c)))
    BY CallState DEF Call
  <2>2. calls'[c] = [calls[c] EXCEPT !.lapsed = lapsed] /\ calls[c] \in Call
    BY <2>1, CallState DEF LeaseExpires
  <2>3. calls'[c].lapsed = lapsed
    BY <2>2 DEF Call
  <2>4. /\ calls'[c] \in Call /\ calls'[c].pc = calls[c].pc /\ calls'[c].owner = calls[c].owner
        /\ calls'[c].asUser = calls[c].asUser /\ calls'[c].snap = calls[c].snap
        /\ calls'[c].got = calls[c].got
    BY <2>2 DEF Call
  <2> QED
    BY <2>1, <2>3, <2>4
<1>8. PICK of \in Owners : Good(of)
  BY DEF ConnectionsInv, PairsInv
<1>9. RowsGoOn /\ Issued' = Issued /\ aged' = aged
  BY <1>1, <1>6, KeptGoOn DEF world, Issued
<1>10. ASSUME NEW d \in Calls PROVE CallGood(of, calls[d])'
  <2>1. PICK st \in Call : st = calls[d] /\ CallGood(of, st)
    BY <1>8 DEF Good, ConnectionsInv, ConnectionsTypeOK
  <2>2. CallGood(of, st)'
    BY <1>9, <2>1, CallStays DEF ConnectionsInv
  <2> QED
    BY <1>7, <2>1, <2>2 DEF CallGood, SnapGood, Holds
<1>11. ASSUME NEW v \in Users PROVE RowGood(of, v)' /\ CallbackGood(of, v)'
  <2>1. RowGood(of, v) /\ CallbackGood(of, v)
    BY <1>8 DEF Good
  <2>2. RowGood(of, v)'
    BY <1>6, <1>9, <2>1, RowStays
  <2>3. CallbackGood(of, v)'
    BY <1>1, <1>6, <1>7, <1>9, <2>1 DEF CallbackGood, RowsKept
  <2> QED
    BY <2>2, <2>3
<1>12. PairsInv'
  <2>1. Good(of)'
    BY <1>10, <1>11 DEF Good
  <2> QED
    BY <1>1, <1>8, <1>9, <2>1 DEF PairsInv, Owners, Pairs, ConnectionsInv, world
<1>13. LeaseIsItsHolders'
  <2>1. ASSUME NEW d \in Calls, Refreshing(d)', ~ calls'[d].lapsed
        PROVE  rows'[calls'[d].owner].lock = d
    <3>1. Refreshing(d) /\ ~ calls[d].lapsed /\ calls'[d].owner = calls[d].owner /\ d # rows[u].lock
      BY <1>7, <2>1 DEF Refreshing
    <3>2. rows[calls[d].owner].lock = d /\ calls[d].owner \in Users
      BY <3>1, RowAtHand DEF ConnectionsInv, LeaseIsItsHolders, Refreshing, Holds
    <3> QED
      BY <1>6, <3>1, <3>2
  <2> QED
    BY <2>1 DEF LeaseIsItsHolders
<1>14. ActiveIsRefreshable'
  <2>1. \A d \in Calls, v \in Users : rows[v] # None /\ Mends(d, v) => Mends(d, v)'
    BY <1>6, <1>7 DEF Mends, RowsKept
  <2> QED
    BY <1>1, <1>6, <2>1, ActiveStays DEF ConnectionsInv, world
<1>15. ConnectionsTypeOK'
  <2>1. calls' \in [Calls -> Call]
    BY <1>7 DEF LeaseExpires
  <2> QED
    BY <1>1, <1>6, <2>1 DEF ConnectionsInv, ConnectionsTypeOK, RowsKept, world
<1> QED
  BY <1>12, <1>13, <1>14, <1>15 DEF ConnectionsInv

LEMMA CrashKeeps ==
  ASSUME ConnectionsInv, ConnectionsAssumption, Crash
  PROVE  ConnectionsInv'
<1>1. /\ UNCHANGED <<rows, install, parked, github, aged, connects>>
      /\ calls' = [c \in Calls |-> Idle] /\ connecting' = [v \in Users |-> [pc |-> "no", pair |-> 0]]
      /\ crashes' \in 0 .. MaxCrashes
  BY DEF Crash, store, ConnectionsInv, ConnectionsTypeOK, ConnectionsAssumption
<1>2. \A c \in Calls : calls'[c] = Idle /\ calls'[c].pc = "idle"
  BY <1>1, IdleCall
<1>3. \A v \in Users : connecting'[v].pc = "no"
  BY <1>1
<1>4. PICK of \in Owners : Good(of)
  BY DEF ConnectionsInv, PairsInv
<1>5. RowsKept /\ Issued' = Issued
  BY <1>1, RowsSame DEF ConnectionsInv, Issued
<1>6. PairsInv'
  <2>1. \A c \in Calls : CallGood(of, calls[c])'
    BY <1>2 DEF CallGood, Holds
  <2>2. \A v \in Users : RowGood(of, v)' /\ CallbackGood(of, v)'
    BY <1>3, <1>4, <1>5, RowStays DEF Good, CallbackGood
  <2>3. Good(of)'
    BY <2>1, <2>2 DEF Good
  <2> QED
    BY <1>1, <1>4, <1>5, <2>3 DEF PairsInv, Owners, Pairs, ConnectionsInv
<1>7. LeaseIsItsHolders'
  BY <1>2 DEF LeaseIsItsHolders, Refreshing
<1>8. orphans \subseteq orphans' /\ \A c \in Calls : calls[c].pc \in {"store", "mark"} =>
                                     calls[c].snap.refresh \in orphans'
  BY DEF Crash
<1>9. ActiveIsRefreshable'
  BY <1>1, <1>5, <1>8, ActiveStays DEF ConnectionsInv, Mends
<1>10. orphans' \subseteq Pairs
  <2>1. ASSUME NEW c \in Calls, calls[c].pc \in {"store", "mark"}
        PROVE  calls[c].snap.refresh \in Pairs
    <3>1. calls[c].snap \in Row
      BY <1>4, <2>1 DEF Good, CallGood, Holds, SnapGood
    <3> QED
      BY <3>1 DEF Row
  <2> QED
    BY <2>1 DEF Crash, ConnectionsInv, ConnectionsTypeOK
<1>11. calls' \in [Calls -> Call]
  BY <1>1, IdleCall
<1>12. connecting' \in [Users -> [pc : {"no", "record", "list", "store", "wake"}, pair : Nat]]
  BY <1>1
<1>13. ConnectionsTypeOK'
  BY <1>1, <1>10, <1>11, <1>12 DEF ConnectionsInv, ConnectionsTypeOK
<1> QED
  BY <1>6, <1>7, <1>9, <1>13 DEF ConnectionsInv

-----------------------------------------------------------------------------
(* The specification *)

LEMMA ConnectionsInit ==
  ASSUME ConnectionsAssumption, Init
  PROVE  ConnectionsInv
<1>1. /\ \A u \in Users : rows[u] = None /\ connecting[u].pc = "no"
      /\ \A c \in Calls : calls[c] = Idle
  BY DEF Init
<1>2. calls \in [Calls -> Call] /\ \A c \in Calls : calls[c].pc = "idle"
  BY <1>1, IdleCall DEF Init
<1>3. install \in Install
  BY DEF Init, Install
<1>4. connecting \in [Users -> [pc : {"no", "record", "list", "store", "wake"}, pair : Nat]]
  BY DEF Init
<1>5. github.issued = 0 /\ github.redeemed = {} /\ aged = {} /\ orphans = {}
  BY DEF Init
<1>6. ConnectionsTypeOK
  BY <1>2, <1>3, <1>4, <1>5 DEF Init, ConnectionsTypeOK, ConnectionsAssumption
<1>7. PICK of \in Owners : of = [p \in Pairs |-> None]
  BY DEF Owners
<1>8. Good(of)
  <2>1. \A c \in Calls : CallGood(of, calls[c])
    BY <1>2 DEF CallGood, Holds
  <2> QED
    BY <1>1, <2>1 DEF Good, RowGood, CallbackGood
<1>9. PairsInv
  BY <1>5, <1>8 DEF PairsInv
<1>10. LeaseIsItsHolders /\ ActiveIsRefreshable
  BY <1>1, <1>2 DEF LeaseIsItsHolders, Refreshing, ActiveIsRefreshable, Connected
<1> QED
  BY <1>6, <1>9, <1>10 DEF ConnectionsInv

LEMMA ConnectionsStep ==
  ASSUME ConnectionsAssumption, RowAssumption, ConnectionsInv, [Next]_vars
  PROVE  ConnectionsInv'
<1>1. ASSUME NEW u \in Users, ConnectStep(u) PROVE ConnectionsInv'
  BY <1>1, ExchangeKeeps, UpsertKeeps, CallbackKeeps DEF ConnectStep
<1>2. ASSUME NEW u \in Users, LeaseExpires(u) \/ AccessTokenAges(u) PROVE ConnectionsInv'
  BY <1>2, ExpiresKeeps, AgesKeeps
<1>3. ASSUME NEW c \in Calls, GoalStep(c) PROVE ConnectionsInv'
  BY <1>3, BeginKeeps DEF GoalStep
<1>4. ASSUME NEW c \in Calls, CallStep(c) PROVE ConnectionsInv'
  BY <1>4, RedeemKeeps, StoreRefreshedKeeps, CallKeeps
<1>5. CASE Crash
  BY <1>5, CrashKeeps
<1>6. CASE UNCHANGED vars
  <2>1. PICK of \in Owners : Good(of)
    BY DEF ConnectionsInv, PairsInv
  <2>2. Good(of)'
    BY <1>6, <2>1 DEF vars, Good, RowGood, CallbackGood, CallGood, SnapGood, Holds, Issued
  <2>3. PairsInv'
    BY <1>6, <2>1, <2>2 DEF vars, PairsInv, ConnectionsInv, Owners, Pairs, Issued
  <2>4. LeaseIsItsHolders' /\ ActiveIsRefreshable'
    BY <1>6 DEF vars, ConnectionsInv, LeaseIsItsHolders, ActiveIsRefreshable, Connected, Refreshing
  <2>5. ConnectionsTypeOK'
    BY <1>6 DEF vars, ConnectionsInv, ConnectionsTypeOK
  <2> QED
    BY <2>3, <2>4, <2>5 DEF ConnectionsInv
<1> QED
  BY <1>1, <1>2, <1>3, <1>4, <1>5, <1>6 DEF Next

\* The rows, the calls, the callbacks and what GitHub has redeemed agree in every state.
THEOREM ConnectionsInvHolds == Spec => []ConnectionsInv
<1>1. Init => ConnectionsInv
  BY ConnectionsInit, ConnectionsAssumption
<1>2. ConnectionsInv /\ [Next]_vars => ConnectionsInv'
  BY ConnectionsStep, ConnectionsAssumption, RowAssumption
<1> QED
  BY <1>1, <1>2, PTL DEF Spec

\* Every variable of the connections keeps its type.
THEOREM ConnectionsTypeCorrect == Spec => []ConnectionsTypeOK
<1>1. ConnectionsInv => ConnectionsTypeOK
  BY DEF ConnectionsInv
<1> QED
  BY <1>1, ConnectionsInvHolds, PTL

\* A call that refreshes has the lease until it runs out, whatever calls whose lease did
\* run out, callbacks and crashes do in the meantime.
THEOREM LeaseIsItsHoldersHolds == Spec => []LeaseIsItsHolders
<1>1. ConnectionsInv => LeaseIsItsHolders
  BY DEF ConnectionsInv
<1> QED
  BY <1>1, ConnectionsInvHolds, PTL

\* The refresh token of an active connection is unspent, or a call is about to mend the
\* row, unless a crash came in between.
THEOREM ActiveIsRefreshableHolds == Spec => []ActiveIsRefreshable
<1>1. ConnectionsInv => ActiveIsRefreshable
  BY DEF ConnectionsInv
<1> QED
  BY <1>1, ConnectionsInvHolds, PTL

\* A call takes what it returns from one of five places, and none is redeemed.
LEMMA AnswersLive ==
  ASSUME ConnectionsInv, Next, NEW c \in Calls, calls[c].pc # "done", calls'[c].pc = "done",
         calls[c].asUser
  PROVE  calls'[c].got # 0 /\ calls'[c].got \notin github'.redeemed
<1>1. calls \in [Calls -> Call] /\ 0 \notin Issued /\ github.redeemed \subseteq aged
  BY DEF ConnectionsInv, ConnectionsTypeOK, PairsInv, Issued
<1>2. PICK of \in Owners : Good(of)
  BY DEF ConnectionsInv, PairsInv
<1>3. CallGood(of, calls[c])
  BY <1>2 DEF Good
<1>4. ASSUME NEW pair, Return(c, pair) PROVE calls'[c].got = pair
  BY <1>1, <1>4 DEF Return, Idle
<1>5. ASSUME NEW d \in Calls, CallStep(d) \/ GoalStep(d) PROVE CallStep(c)
  <2>1. CASE d # c
    <3>1. calls'[c] = calls[c]
      BY <1>1, <1>5, <2>1
      DEF CallStep, CredentialCheck, Park, InstallationFor, RepoAllowed, InstallationToken,
          StillFresh, AcquireRefreshLease, ReadTheWinners, TimesOutWaiting, Redeem,
          StoreRefreshed, MarkNeedsReauth, ReleaseRefreshLease, End, GoalStep, Begin,
          Return, Fail, Goto
    <3> QED
      BY <3>1
  <2>2. CASE GoalStep(c)
    <3>1. PICK asUser \in BOOLEAN : \E owner : Begin(c, owner, asUser)
      BY <2>2 DEF GoalStep
    <3>2. PICK owner : Begin(c, owner, asUser)
      BY <3>1
    <3>3. calls'[c] = [Idle EXCEPT !.pc = "check", !.owner = owner, !.asUser = asUser]
      BY <1>1, <3>2 DEF Begin
    <3>4. calls'[c].pc = "check"
      BY <3>3 DEF Idle
    <3> QED
      BY <3>4
  <2> QED
    BY <1>5, <2>1, <2>2
<1>6. CASE CallStep(c)
  <2>1. ASSUME Fail(c) PROVE FALSE
    BY <1>1, <2>1, IdleCall DEF Fail
  <2>2. ASSUME NEW pc \in {"park", "read", "mint", "user", "wait", "redeem", "mark", "release"},
               Goto(c, pc)
        PROVE  FALSE
    BY <1>1, <2>2 DEF Goto, Call
  <2>3. CASE StillFresh(c)
    <3>1. calls'[c].got = calls[c].snap.access /\ calls[c].snap.access \notin aged
      BY <1>4, <2>3 DEF StillFresh
    <3>2. calls[c].snap.access \in Issued /\ github' = github
      BY <1>3, <2>3 DEF StillFresh, CallGood, Holds, SnapGood, world
    <3> QED
      BY <1>1, <3>1, <3>2
  <2>4. CASE ReadTheWinners(c)
    <3>1. calls'[c].got = rows[calls[c].owner].access /\ github' = github
      BY <1>4, <2>4 DEF ReadTheWinners, world
    <3>2. SnapGood(of, calls[c]) /\ rows[calls[c].owner].at > calls[c].snap.at
      BY <1>3, <2>4 DEF ReadTheWinners, CallGood, Holds
    <3>3. /\ rows[calls[c].owner] \in Row /\ calls[c].snap \in Row
          /\ rows[calls[c].owner].access \in Issued
      BY <1>2, <3>2 DEF SnapGood, Good, RowGood, ConnectionsInv, ConnectionsTypeOK
    <3>4. rows[calls[c].owner].access \notin aged
      BY <3>2, <3>3 DEF SnapGood, Row
    <3> QED
      BY <1>1, <3>1, <3>3, <3>4
  <2>5. CASE ReleaseRefreshLease(c)
    <3>1. calls[c].got # 0 /\ calls'[c].got = calls[c].got /\ github' = github
      BY <1>4, <2>1, <2>5 DEF ReleaseRefreshLease, world
    <3> QED
      BY <1>1, <1>3, <2>5, <3>1 DEF ReleaseRefreshLease, CallGood
  <2>6. CASE InstallationToken(c)
    BY <1>3, <2>6 DEF InstallationToken, CallGood
  <2>7. CASE CredentialCheck(c) \/ AcquireRefreshLease(c)
    BY <2>2, <2>7 DEF CredentialCheck, AcquireRefreshLease
  <2>8. CASE RepoAllowed(c) \/ TimesOutWaiting(c) \/ End(c) \/ Park(c)
    BY <2>1, <2>2, <2>8 DEF RepoAllowed, TimesOutWaiting, End, Park, Fail
  <2>9. CASE InstallationFor(c) \/ MarkNeedsReauth(c) \/ StoreRefreshed(c) \/ Redeem(c)
    <3>1. CASE InstallationFor(c)
      BY <1>1, <3>1, IdleCall DEF InstallationFor, Call
    <3>2. CASE MarkNeedsReauth(c)
      BY <1>1, <3>2 DEF MarkNeedsReauth, Call
    <3>3. CASE StoreRefreshed(c)
      BY <1>1, <3>3 DEF StoreRefreshed, Goto, Call
    <3>4. CASE Redeem(c)
      BY <1>1, <3>4 DEF Redeem, Goto, Call
    <3> QED
      BY <2>9, <3>1, <3>2, <3>3, <3>4
  <2> QED
    BY <1>6, <2>3, <2>4, <2>5, <2>6, <2>7, <2>8, <2>9 DEF CallStep
<1>7. CASE \E u \in Users : ConnectStep(u) \/ AccessTokenAges(u)
  BY <1>7
  DEF ConnectStep, ExchangeCode, RecordInstallation, RecordRepos, UpsertConnection,
      ResumeCredentialTasks, ConnectFails, Disconnect, AccessTokenAges
<1>8. CASE \E u \in Users : LeaseExpires(u)
  BY <1>1, <1>8 DEF LeaseExpires, Call
<1>9. CASE Crash
  BY <1>9, IdleCall DEF Crash
<1> QED
  BY <1>5, <1>6, <1>7, <1>8, <1>9 DEF Next

\* A user token the broker hands out still works, whatever other calls refresh, callbacks
\* store and leases run out while this one waits.
THEOREM HandsOutLiveTokensHolds == Spec => HandsOutLiveTokens
<1>1. ASSUME ConnectionsInv, [Next]_vars
      PROVE  [\A c \in Calls : calls[c].pc # "done" /\ calls'[c].pc = "done" /\ calls[c].asUser
                                => calls'[c].got # 0 /\ calls'[c].got \notin github'.redeemed]_vars
  BY <1>1, AnswersLive
<1> QED
  BY <1>1, ConnectionsInvHolds, PTL DEF Spec, HandsOutLiveTokens
=============================================================================
