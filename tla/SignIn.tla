------------------------------- MODULE SignIn -------------------------------
(***************************************************************************)
(* Sign-in with Google and the sessions behind the cookie: api/auth.py,    *)
(* auth/oidc.py, auth/sessions.py, auth/gate.py and the users and sessions *)
(* tables of db.py, on a deployment where Google is configured.  What      *)
(* Authlib verifies (state, nonce, PKCE, the signature) has succeeded; the *)
(* CSRF token, the Origin and the list of administrators are left out.     *)
(***************************************************************************)
EXTENDS Naturals, Sequences

CONSTANTS Subs,         \* Google accounts: the "sub" of their tokens
          FirstEmail,   \* sub -> the address it has at first
          Tabs,         \* callbacks under way at a time
          MaxSessions, MaxReassigned  \* bounds

Emails == {FirstEmail[s] : s \in Subs}

ASSUME SignInAssumption == /\ FirstEmail \in [Subs -> Emails]
                           /\ \A s, t \in Subs : FirstEmail[s] = FirstEmail[t] => s = t
                           /\ MaxSessions \in Nat /\ MaxReassigned \in Nat

VARIABLES emailOf,     \* the world: who has which address
          reassigned,  \* how often that changed
          users,       \* users, in the order of their creation; the index is the id
          sessions,    \* sessions
          callback     \* GET /api/auth/callback, one per tab

accounts == <<emailOf, reassigned, users>>
signIn == <<accounts, sessions, callback>>

User == [sub : Subs, email : Emails]

\* of: history, the Google account that signed in.
Session == [user : Nat, of : Subs, live : BOOLEAN]

NoCallback == [pc |-> "none"]

Callback ==
  {NoCallback} \cup
  [pc : {"look", "write", "start"}, sub : Subs, email : Emails, user : Nat]

SignInTypeOK ==
  /\ emailOf \in [Subs -> Emails] /\ reassigned \in 0 .. MaxReassigned
  /\ users \in Seq(User)
  /\ sessions \in Seq(Session) /\ Len(sessions) <= MaxSessions
  /\ \A s \in DOMAIN sessions : sessions[s].user \in DOMAIN users
  /\ callback \in [Tabs -> Callback]

SignInInit ==
  /\ emailOf = FirstEmail /\ reassigned = 0
  /\ users = << >> /\ sessions = << >>
  /\ callback = [t \in Tabs |-> NoCallback]

-----------------------------------------------------------------------------
\* "Emails get reassigned inside an organisation": two accounts change addresses.
Reassign(s, t) ==
  /\ s # t /\ reassigned < MaxReassigned
  /\ reassigned' = reassigned + 1
  /\ emailOf' = [emailOf EXCEPT ![s] = emailOf[t], ![t] = emailOf[s]]
  /\ UNCHANGED <<users, sessions, callback>>

\* The claims of a verified ID token; the address is the one of this moment.
Verified(t, sub) ==
  /\ callback[t] = NoCallback
  /\ callback' = [callback EXCEPT ![t] =
                    [pc |-> "look", sub |-> sub, email |-> emailOf[sub], user |-> 0]]
  /\ UNCHANGED <<accounts, sessions>>

\* Mutant: whoever has the address is the user.
RowOfEmail(c) == {u \in DOMAIN users : users[u].email = c.email}

RowOf(c) == {u \in DOMAIN users : users[u].sub = c.sub}

\* upsert_user looks a row up,
Look(t) ==
  LET c == callback[t] IN
  /\ c.pc = "look"
  /\ callback' = [callback EXCEPT
       ![t].pc = "write", ![t].user = IF RowOf(c) = {} THEN 0 ELSE CHOOSE u \in RowOf(c) : TRUE]
  /\ UNCHANGED <<accounts, sessions>>

\* and updates it, or inserts one: google_sub is UNIQUE, and the loser of two first
\* sign-ins is answered with an error.
WriteUser(t) ==
  LET c == callback[t] IN
  /\ c.pc = "write"
  /\ IF c.user # 0
     THEN /\ users' = [users EXCEPT ![c.user].email = c.email]
          /\ callback' = [callback EXCEPT ![t].pc = "start"]
     ELSE IF \E u \in DOMAIN users : users[u].sub = c.sub
     THEN callback' = [callback EXCEPT ![t] = NoCallback] /\ UNCHANGED users
     ELSE /\ users' = Append(users, [sub |-> c.sub, email |-> c.email])
          /\ callback' = [callback EXCEPT ![t].pc = "start", ![t].user = Len(users) + 1]
  /\ UNCHANGED <<emailOf, reassigned, sessions>>

\* A session, and the cookie that carries its id.
StartSession(t) ==
  LET c == callback[t] IN
  /\ c.pc = "start" /\ Len(sessions) < MaxSessions
  /\ sessions' = Append(sessions, [user |-> c.user, of |-> c.sub, live |-> TRUE])
  /\ callback' = [callback EXCEPT ![t] = NoCallback]
  /\ UNCHANGED accounts

\* Logout, or the hour at which it expires.
EndSession(s) ==
  /\ sessions[s].live
  /\ sessions' = [sessions EXCEPT ![s].live = FALSE]
  /\ UNCHANGED <<accounts, callback>>

\* load_session: the user of a cookie, or 0; "expired and revoked both read as absent".
Loaded(s) == IF sessions[s].live THEN sessions[s].user ELSE 0

SignInStep ==
  \/ \E s, t \in Subs : Reassign(s, t)
  \/ \E t \in Tabs : (\E sub \in Subs : Verified(t, sub)) \/ Look(t) \/ WriteUser(t) \/ StartSession(t)

SessionStep == \E s \in DOMAIN sessions : EndSession(s)
=============================================================================
