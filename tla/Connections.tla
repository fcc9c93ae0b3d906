----------------------------- MODULE Connections -----------------------------
(***************************************************************************)
(* What lets a goal act on GitHub: the connections table with its refresh  *)
(* lease (credentials/store.py), the broker that turns a row into a token  *)
(* (broker.py, github_app.py), the connect and disconnect handlers of      *)
(* api/connections.py, the check in front of every GitHub tool, and the    *)
(* owner a webhook gives a goal.                                           *)
(*                                                                         *)
(* There is one installation with one repository.  A token pair is the     *)
(* number GitHub gave it; its refresh token can be redeemed once.  A step  *)
(* ends at an await.                                                       *)
(***************************************************************************)
EXTENDS Integers, FiniteSets

CONSTANTS Users, Calls, None,
          Legacy,        \* LEGACY_USER_ID, who never connects
          LeaseOverrun,  \* may a refresh outlive its lease?
          MaxTokens, MaxConnects, MaxCrashes  \* bounds

ASSUME ConnectionsAssumption ==
  /\ Legacy \notin Users
  /\ None \notin Users \cup Calls \cup {Legacy}
  /\ LeaseOverrun \in BOOLEAN
  /\ {MaxTokens, MaxConnects, MaxCrashes} \subseteq Nat

VARIABLES rows,        \* connections: user -> row or None
          install,     \* github_installations, user_installations, installation_repos
          connecting,  \* where a user's callback is
          parked,      \* owners with a task parked on conn:github:<owner>
          calls,       \* tool calls under way
          github,      \* the pairs GitHub issued and redeemed
          aged,        \* pairs whose access token is within two minutes of its end
          orphans,     \* history: redeemed by a call that died before it stored the next
          connects,    \* callbacks begun
          crashes

store == <<rows, install, parked>>
world == <<github, aged, orphans, connects, crashes>>
vars == <<rows, install, connecting, parked, calls, github, aged,
          orphans, connects, crashes>>

Pairs == 1 .. MaxTokens

\* access and refresh name the pair each was issued in.  at orders the values of
\* refreshed_at, which are seconds in the code.  lock: the call whose lease has not run out.
Row == [status : {"active", "needs_reauth"}, revoked : BOOLEAN, access : Pairs,
        refresh : Pairs, at : Nat, lock : Calls \cup {None}]

ASSUME RowAssumption == None \notin Row

\* owner is the recorded one; members have a join row; listed: the repository is allowed.
Install == [owner : Users \cup {None}, members : SUBSET Users, listed : BOOLEAN]

Call == [pc : {"idle", "check", "park", "read", "list", "mint", "user", "wait", "redeem",
               "store", "mark", "release", "done"},
         owner : Users \cup {Legacy}, asUser : BOOLEAN, snap : Row \cup {None}, got : Nat,
         lapsed : BOOLEAN]  \* the lease it took has run out

Idle == [pc |-> "idle", owner |-> Legacy, asUser |-> FALSE, snap |-> None, got |-> 0,
         lapsed |-> FALSE]

ConnectionsTypeOK ==
  /\ rows \in [Users -> Row \cup {None}]
  /\ install \in Install
  /\ connecting \in [Users -> [pc : {"no", "record", "list", "store", "wake"}, pair : Nat]]
  /\ parked \subseteq Users \cup {Legacy}
  /\ calls \in [Calls -> Call]
  /\ github.issued \in 0 .. MaxTokens /\ github.redeemed \subseteq 1 .. github.issued
  /\ aged \subseteq Pairs /\ orphans \subseteq Pairs
  /\ connects \in 0 .. MaxConnects /\ crashes \in 0 .. MaxCrashes

Init ==
  /\ rows = [u \in Users |-> None]
  /\ install = [owner |-> None, members |-> {}, listed |-> FALSE]
  /\ connecting = [u \in Users |-> [pc |-> "no", pair |-> 0]]
  /\ parked = {}
  /\ calls = [c \in Calls |-> Idle]
  /\ github = [issued |-> 0, redeemed |-> {}]
  /\ aged = {} /\ orphans = {}
  /\ connects = 0 /\ crashes = 0

\* get_connection; open_secrets only fails for a row that was tampered with.
Connected(u) == u \in Users /\ rows[u] # None /\ ~rows[u].revoked

Active(u) == Connected(u) /\ rows[u].status = "active"


-----------------------------------------------------------------------------
(* api/connections.py: the callback, await by await, and disconnect *)

Issue(redeemed) ==
  /\ github.issued < MaxTokens
  /\ github' = [issued |-> github.issued + 1, redeemed |-> github.redeemed \cup redeemed]

Callback(u, pc, next) ==
  /\ connecting[u].pc = pc
  /\ connecting' = [connecting EXCEPT ![u].pc = next]

\* The state is whoever's started the flow; the user sees the installation.
ExchangeCode(u) ==
  /\ connecting[u].pc = "no"
  /\ connects < MaxConnects
  /\ connects' = connects + 1
  /\ Issue({})
  /\ connecting' = [connecting EXCEPT ![u] = [pc |-> "record", pair |-> github.issued + 1]]
  /\ UNCHANGED <<store, calls, aged, orphans, crashes>>

RecordInstallation(u) ==
  /\ Callback(u, "record", "list")
  /\ install' = [install EXCEPT !.owner = IF @ = None THEN u ELSE @,
                                !.members = @ \cup {u}]
  /\ UNCHANGED <<rows, parked, calls, world>>

\* The allowlist is what GitHub says now.
RecordRepos(u) ==
  /\ Callback(u, "list", "store")
  /\ \E listed \in BOOLEAN : install' = [install EXCEPT !.listed = listed]
  /\ UNCHANGED <<rows, parked, calls, world>>

\* The row of a user keeps its lease when it is written again.
UpsertConnection(u) ==
  /\ Callback(u, "store", "wake")
  /\ LET p == connecting[u].pair IN
     rows' = [rows EXCEPT ![u] =
       IF @ = None
       THEN [status |-> "active", revoked |-> FALSE, access |-> p, refresh |-> p,
             at |-> 1, lock |-> None]
       ELSE [rows[u] EXCEPT !.status = "active", !.revoked = FALSE, !.access = p,
                            !.refresh = p, !.at = rows[u].at + 1]]
  /\ UNCHANGED <<install, parked, calls, world>>

ResumeCredentialTasks(u) ==
  /\ connecting[u].pc = "wake"
  /\ connecting' = [connecting EXCEPT ![u] = [pc |-> "no", pair |-> 0]]
  /\ parked' = parked \ {u}
  /\ UNCHANGED <<rows, install, calls, world>>

\* Any of the calls to GitHub may fail; what was committed stays.
ConnectFails(u) ==
  /\ connecting[u].pc \in {"record", "list", "store"}
  /\ connecting' = [connecting EXCEPT ![u] = [pc |-> "no", pair |-> 0]]
  /\ UNCHANGED <<store, calls, world>>

Disconnect(u) ==
  /\ Connected(u)
  /\ rows' = [rows EXCEPT ![u].revoked = TRUE]
  /\ UNCHANGED <<install, parked, connecting, calls, world>>

-----------------------------------------------------------------------------
(* A tool call on behalf of the owner of its goal *)

\* _owner_for_event: the sender who is connected and a member, the recorded owner,
\* the legacy user.  An event without an installation has no sender.
OwnerForEvent(sender) ==
  IF sender \in install.members /\ Connected(sender) THEN sender
  ELSE IF sender # None /\ install.owner # None THEN install.owner
  ELSE Legacy

Return(c, pair) ==
  calls' = [calls EXCEPT ![c] = [Idle EXCEPT !.pc = "done", !.asUser = calls[c].asUser,
                                             !.got = pair]]

\* The tool reports an error.
Fail(c) == calls' = [calls EXCEPT ![c] = Idle]

Goto(c, pc) == calls' = [calls EXCEPT ![c].pc = pc]

Begin(c, owner, asUser) ==
  /\ calls[c].pc = "idle"
  /\ calls' = [calls EXCEPT ![c] = [Idle EXCEPT !.pc = "check", !.owner = owner,
                                                !.asUser = asUser]]
  /\ UNCHANGED <<store, connecting, world>>

\* credential_check, before the try of the tool.
CredentialCheck(c) ==
  /\ calls[c].pc = "check"
  /\ Goto(c, IF Active(calls[c].owner) THEN "read" ELSE "park")
  /\ UNCHANGED <<store, connecting, world>>

Park(c) ==
  /\ calls[c].pc = "park"
  /\ calls' = [calls EXCEPT ![c] = Idle]
  /\ parked' = parked \cup {calls[c].owner}
  /\ UNCHANGED <<rows, install, connecting, world>>

\* for_user: the row it reads is the one fresh_user_token is given.  NoConnection is
\* inside the try here and is an error of the tool.
InstallationFor(c) ==
  /\ calls[c].pc = "read"
  /\ calls' = [calls EXCEPT ![c] =
       IF Active(@.owner)
       THEN [@ EXCEPT !.pc = "list",
                      !.snap = [rows[calls[c].owner] EXCEPT !.lock = None]]
       ELSE Idle]
  /\ UNCHANGED <<store, connecting, world>>

\* A call that names no repository is not checked.
RepoAllowed(c) ==
  /\ calls[c].pc = "list"
  /\ \E named \in BOOLEAN :
       IF named => Connected(calls[c].owner) /\ install.listed
       THEN Goto(c, IF calls[c].asUser THEN "user" ELSE "mint")
       ELSE Fail(c)
  /\ UNCHANGED <<store, connecting, world>>

\* installation_token: the one in the cache while it has five minutes, or a new one.
InstallationToken(c) ==
  /\ calls[c].pc = "mint"
  /\ Return(c, 0) \/ Fail(c)
  /\ UNCHANGED <<store, connecting, world>>

\* fresh_user_token, with the row for_user read.
StillFresh(c) ==
  /\ calls[c].pc = "user"
  /\ calls[c].snap.access \notin aged
  /\ Return(c, calls[c].snap.access)
  /\ UNCHANGED <<store, connecting, world>>

AcquireRefreshLease(c) ==
  /\ calls[c].pc = "user"
  /\ calls[c].snap.access \in aged
  /\ LET u == calls[c].owner IN
     IF rows[u].lock = None
     THEN Goto(c, "redeem") /\ rows' = [rows EXCEPT ![u].lock = c]
     ELSE Goto(c, "wait") /\ UNCHANGED rows
  /\ UNCHANGED <<install, parked, connecting, world>>

\* Mutant: the loser reads the row once and takes what is there.
ReadTheWinnersOnce(c) ==
  /\ calls[c].pc = "wait"
  /\ Connected(calls[c].owner)
  /\ Return(c, rows[calls[c].owner].access)
  /\ UNCHANGED <<store, connecting, world>>

\* The loser reads the row again until it has been refreshed.
ReadTheWinners(c) ==
  /\ calls[c].pc = "wait"
  /\ Connected(calls[c].owner)
  /\ rows[calls[c].owner].at > calls[c].snap.at
  /\ Return(c, rows[calls[c].owner].access)
  /\ UNCHANGED <<store, connecting, world>>

TimesOutWaiting(c) ==
  /\ calls[c].pc = "wait"
  /\ Fail(c)
  /\ UNCHANGED <<store, connecting, world>>

\* refresh_user_token: GitHub redeems a refresh token once, and its answer may be lost.
Redeem(c) ==
  /\ calls[c].pc = "redeem"
  /\ LET p == calls[c].snap.refresh IN
     \/ /\ p \notin github.redeemed
        /\ Issue({p})
        /\ \/ calls' = [calls EXCEPT ![c].pc = "store", ![c].got = github.issued + 1]
           \/ Goto(c, "mark")
     \/ Goto(c, "mark") /\ UNCHANGED github
  /\ UNCHANGED <<store, connecting, aged, orphans, connects, crashes>>

StoreRefreshed(c) ==
  /\ calls[c].pc = "store"
  /\ rows' = [rows EXCEPT ![calls[c].owner].status = "active",
                          ![calls[c].owner].access = calls[c].got,
                          ![calls[c].owner].refresh = calls[c].got,
                          ![calls[c].owner].at = @ + 1]
  /\ Goto(c, "release")
  /\ UNCHANGED <<install, parked, connecting, world>>

\* Mutant: an error of the refresh leaves the connection as it is.
LeaveActive(c) ==
  /\ calls[c].pc = "mark"
  /\ calls' = [calls EXCEPT ![c].pc = "release", ![c].got = 0]
  /\ UNCHANGED <<store, connecting, world>>

MarkNeedsReauth(c) ==
  /\ calls[c].pc = "mark"
  /\ rows' = [rows EXCEPT ![calls[c].owner].status = "needs_reauth"]
  /\ calls' = [calls EXCEPT ![c].pc = "release", ![c].got = 0]
  /\ UNCHANGED <<install, parked, connecting, world>>

\* Mutant: released without a look at whose it is.
ReleaseAnyLease(c) ==
  /\ calls[c].pc = "release"
  /\ rows' = [rows EXCEPT ![calls[c].owner].lock = None]
  /\ IF calls[c].got = 0 THEN Fail(c) ELSE Return(c, calls[c].got)
  /\ UNCHANGED <<install, parked, connecting, world>>

ReleaseRefreshLease(c) ==
  /\ calls[c].pc = "release"
  /\ LET u == calls[c].owner IN
     rows' = [rows EXCEPT ![u].lock = IF @ = c THEN None ELSE @]
  /\ IF calls[c].got = 0 THEN Fail(c) ELSE Return(c, calls[c].got)
  /\ UNCHANGED <<install, parked, connecting, world>>

\* The tool has used what it got.
End(c) ==
  /\ calls[c].pc = "done"
  /\ calls' = [calls EXCEPT ![c] = Idle]
  /\ UNCHANGED <<store, connecting, world>>

-----------------------------------------------------------------------------
(* Time and crashes *)

Refreshing(c) == calls[c].pc \in {"redeem", "store", "mark", "release"}

\* An access token lives for hours: it ages while no call holds a row it read.
AccessTokenAges(u) ==
  /\ rows[u] # None
  /\ \A c \in Calls : calls[c].pc \in {"idle", "check", "read", "done"}
  /\ aged' = aged \cup {rows[u].access}
  /\ UNCHANGED <<store, connecting, calls, github, orphans, connects,
                 crashes>>

LeaseExpires(u) ==
  /\ rows[u] # None /\ rows[u].lock # None
  /\ LeaseOverrun \/ ~Refreshing(rows[u].lock) \/ calls[rows[u].lock].owner # u
  /\ rows' = [rows EXCEPT ![u].lock = None]
  /\ calls' = [c \in Calls |->
       [calls[c] EXCEPT !.lapsed = @ \/ (c = rows[u].lock /\ Refreshing(c))]]
  /\ UNCHANGED <<install, parked, connecting, world>>

Crash ==
  /\ crashes < MaxCrashes
  /\ crashes' = crashes + 1
  /\ calls' = [c \in Calls |-> Idle]
  /\ connecting' = [u \in Users |-> [pc |-> "no", pair |-> 0]]
  /\ orphans' = orphans \cup {calls[c].snap.refresh : c \in {d \in Calls : calls[d].pc \in {"store", "mark"}}}
  /\ UNCHANGED <<store, github, aged, connects>>

ConnectStep(u) ==
  ExchangeCode(u) \/ RecordInstallation(u) \/ RecordRepos(u) \/ UpsertConnection(u)
  \/ ResumeCredentialTasks(u) \/ ConnectFails(u) \/ Disconnect(u)

GoalStep(c) ==
  \E asUser \in BOOLEAN :
    \/ \E u \in Users : Begin(c, u, asUser)
    \/ \E sender \in Users \cup {None} : Begin(c, OwnerForEvent(sender), asUser)

CallStep(c) ==
  \/ CredentialCheck(c) \/ Park(c) \/ InstallationFor(c) \/ RepoAllowed(c)
  \/ InstallationToken(c) \/ StillFresh(c) \/ AcquireRefreshLease(c) \/ ReadTheWinners(c)
  \/ TimesOutWaiting(c) \/ Redeem(c) \/ StoreRefreshed(c) \/ MarkNeedsReauth(c)
  \/ ReleaseRefreshLease(c) \/ End(c)

Next ==
  \/ \E u \in Users : ConnectStep(u) \/ LeaseExpires(u) \/ AccessTokenAges(u)
  \/ \E c \in Calls : GoalStep(c) \/ CallStep(c)
  \/ Crash

Spec == Init /\ [][Next]_vars

-----------------------------------------------------------------------------
(* Properties *)

\* A user token the broker hands out still works: whoever waited for another call's
\* refresh gets the new one, and nobody the one that died with the redemption.
HandsOutLiveTokens ==
  [][\A c \in Calls : calls[c].pc # "done" /\ calls'[c].pc = "done" /\ calls[c].asUser
                       => calls'[c].got # 0 /\ calls'[c].got \notin github'.redeemed]_vars

\* A call that refreshes has the lease until it runs out, whatever calls whose lease
\* did run out do in the meantime.
LeaseIsItsHolders ==
  \A c \in Calls : Refreshing(c) /\ ~calls[c].lapsed => rows[calls[c].owner].lock = c

\* The refresh token of an active connection is unspent, or a call is about to write
\* the next pair or to ask for a new consent; only a crash in between is not repaired
\* until the next refresh.
ActiveIsRefreshable ==
  \A u \in Users :
    /\ Connected(u) /\ rows[u].status = "active"
    /\ rows[u].refresh \in github.redeemed \ orphans
    => \E c \in Calls : /\ calls[c].pc \in {"store", "mark"}
                        /\ calls[c].snap.refresh = rows[u].refresh
=============================================================================
