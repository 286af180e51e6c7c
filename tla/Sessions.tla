------------------------------ MODULE Sessions ------------------------------
(***************************************************************************)
(* Login, the middleware that authenticates every other request, and       *)
(* logout.  A session is a row of the database: it outlives the process    *)
(* that made it, ends when its holder logs out, its time runs out or its   *)
(* user is disabled, and is judged once, before the request is handled.    *)
(* The module holds requests and rows; Server says when the process that   *)
(* handles them starts, stops and dies.                                    *)
(***************************************************************************)
EXTENDS Integers, FiniteSets

CONSTANTS
  Calls,    \* HTTP requests, each made once, numbered as they arrive
  Users,    \* user names that SeedUsers inserts
  TTL,      \* how long a session lasts
  MaxTime,  \* bound: last instant of the clock
  None      \* no token, or a name nobody has

ASSUME SessionsAssumption ==
  /\ Calls \subseteq Nat
  /\ TTL \in Nat \ {0}
  /\ MaxTime \in Nat
  /\ None \notin Calls
  /\ None \notin Users

VARIABLES
  now,       \* the clock
  users,     \* [Users -> row]
  sessions,  \* [Calls -> row]: tokens are random, named by their login
  pc,        \* where each request is
  req,       \* what each request asks
  local,     \* the clock as each login has read it
  reply      \* what each client was told

requestVars == <<pc, req, local, reply>>
sessionVars == <<now, users, sessions, pc, req, local, reply>>

-----------------------------------------------------------------------------
\* "id" is the UUID drawn when the row was inserted.
NoUser == [id |-> 0, status |-> "absent"]

NoSession == [user |-> None, id |-> 0, expires |-> 0, revoked |-> FALSE]

\* "failed" is a code 500 and no answer at all; "fault" says that a statement
\* failed, which the code of the reply may hide.
NoReply == [code |-> "none", fault |-> FALSE]

\* "warned" is a ghost: at its arrival somebody knew that the token was over.
Request(op, user, token, warned) ==
  [op |-> op, user |-> user, token |-> token, warned |-> warned]

NoRequest == Request("none", None, None, FALSE)

Step(c, step, at) ==
  /\ pc' = [pc EXCEPT ![c] = step]
  /\ local' = [local EXCEPT ![c] = at]
  /\ UNCHANGED reply

Answer(c, code, fault) ==
  /\ pc' = [pc EXCEPT ![c] = "done"]
  /\ local' = [local EXCEPT ![c] = 0]
  /\ reply' = [reply EXCEPT ![c] = [code |-> code, fault |-> fault]]

Refuse(c) == Answer(c, "unauthenticated", FALSE)

Arrives(c) == pc[c] = "idle" /\ \A d \in Calls : d < c => pc[d] # "idle"

InFlight == {c \in Calls : pc[c] \notin {"idle", "done"}}

-----------------------------------------------------------------------------
(* Login.                                                                  *)

\* A wrong password and a name nobody has are one case: None.
StartLogin(c) ==
  /\ Arrives(c)
  /\ \E u \in Users \cup {None} :
       req' = [req EXCEPT ![c] = Request("login", u, None, FALSE)]
  /\ Step(c, "findUser", 0)
  /\ UNCHANGED <<now, users, sessions>>

\* The clock is read as soon as the credentials are found good.
FindUser(c) ==
  LET u == req[c].user
      good == u # None /\ users[u].status = "active"
  IN  /\ pc[c] = "findUser"
      /\ \/ ~good /\ Refuse(c)
         \/ good /\ Step(c, "saveSession", now)
      /\ UNCHANGED <<now, users, sessions, req>>

\* The user may have been disabled meanwhile; Authenticate will see it.
SaveSession(c) ==
  /\ pc[c] = "saveSession"
  /\ sessions' = [sessions EXCEPT
       ![c] = [user |-> req[c].user, id |-> users[req[c].user].id,
               expires |-> local[c] + TTL, revoked |-> FALSE]]
  /\ Answer(c, "ok", FALSE)
  /\ UNCHANGED <<now, users, req>>

-----------------------------------------------------------------------------
(* The middleware, and what it lets in.                                    *)

\* Tokens that clients were given.
Given == {t \in Calls : req[t].op = "login" /\ reply[t].code = "ok"}

\* Clients were told that the session is over, and no failure made it up.
Told(t) ==
  \E d \in Calls :
    /\ req[d].token = t
    /\ \/ req[d].op = "logout" /\ reply[d].code = "ok"
       \/ reply[d] = [code |-> "unauthenticated", fault |-> FALSE]

\* No header and a token that was never issued are one case, None, and are
\* refused whatever they ask for.
StartUse(c) ==
  /\ Arrives(c)
  /\ \/ req' = [req EXCEPT ![c] = Request("work", None, None, FALSE)]
     \/ \E op \in {"work", "logout"}, t \in Given :
          req' = [req EXCEPT ![c] = Request(op, None, t, Told(t))]
  /\ Step(c, "authenticate", 0)
  /\ UNCHANGED <<now, users, sessions>>

\* The row joined to its user, and what Authenticate asks of the two.
Admits(t) ==
  /\ t # None
  /\ sessions[t].id = users[sessions[t].user].id
  /\ ~sessions[t].revoked
  /\ sessions[t].expires > now
  /\ users[sessions[t].user].status = "active"

Authenticate(c) ==
  /\ pc[c] = "authenticate"
  /\ \/ ~Admits(req[c].token) /\ Refuse(c)
     \/ Admits(req[c].token) /\ Step(c, "handle", 0)
  /\ UNCHANGED <<now, users, sessions, req>>

\* Any other handler: the session is not looked at again.
DoWork(c) ==
  /\ pc[c] = "handle"
  /\ req[c].op = "work"
  /\ Answer(c, "ok", FALSE)
  /\ UNCHANGED <<now, users, sessions, req>>

\* A bug to detect: UPDATE ... WHERE token_hash=?
RevocableAgain(t) == TRUE

\* The WHERE clause of Logout.
Revocable(t) == ~sessions[t].revoked

\* The UPDATE commits by itself: its answer may be lost.
Logout(c) ==
  LET t == req[c].token
  IN  /\ pc[c] = "handle"
      /\ req[c].op = "logout"
      /\ \/ ~Revocable(t) /\ Refuse(c) /\ UNCHANGED sessions
         \/ /\ Revocable(t)
            /\ sessions' = [sessions EXCEPT ![t].revoked = TRUE]
            /\ Step(c, "revoked", 0)
      /\ UNCHANGED <<now, users, req>>

ConfirmLogout(c) ==
  /\ pc[c] = "revoked"
  /\ Answer(c, "ok", FALSE)
  /\ UNCHANGED <<now, users, sessions, req>>

\* A statement fails: the middleware says "invalid session" to that as well.
DatabaseFault(c) ==
  /\ c \in InFlight
  /\ Answer(c, IF pc[c] = "authenticate" THEN "unauthenticated" ELSE "failed",
            TRUE)
  /\ UNCHANGED <<now, users, sessions, req>>

-----------------------------------------------------------------------------
(* What happens to the rows and the requests from outside.                 *)

\* A bug to detect: INSERT OR REPLACE, which draws a new identity.
SeedUserAnew(u, id) ==
  /\ users' = [users EXCEPT ![u] = [id |-> id, status |-> "active"]]
  /\ UNCHANGED <<now, sessions, pc, req, local, reply>>

\* A bug to detect: ON CONFLICT DO UPDATE SET status='active'.
SeedUserActive(u, id) ==
  /\ users' = [users EXCEPT
       ![u] = [id |-> IF users[u] = NoUser THEN id ELSE users[u].id,
               status |-> "active"]]
  /\ UNCHANGED <<now, sessions, pc, req, local, reply>>

\* SeedUsers, for one user: INSERT OR IGNORE with an identity just drawn.
SeedUser(u, id) ==
  /\ users' = [users EXCEPT
       ![u] = IF users[u] = NoUser THEN [id |-> id, status |-> "active"]
              ELSE users[u]]
  /\ UNCHANGED <<now, sessions, pc, req, local, reply>>

\* An operator disables a user with a statement of their own: no code does.
DisableUser(u) ==
  /\ users[u].status = "active"
  /\ users' = [users EXCEPT ![u].status = "disabled"]
  /\ UNCHANGED <<now, sessions, pc, req, local, reply>>

Tick ==
  /\ now < MaxTime
  /\ now' = now + 1
  /\ UNCHANGED <<users, sessions, pc, req, local, reply>>

\* The process ends: no request in flight is answered.
LoseRequests ==
  /\ pc' = [c \in Calls |-> IF c \in InFlight THEN "done" ELSE pc[c]]
  /\ local' = [c \in Calls |-> 0]
  /\ reply' = [c \in Calls |->
       IF c \in InFlight THEN [code |-> "failed", fault |-> TRUE] ELSE reply[c]]
  /\ UNCHANGED <<now, users, sessions, req>>

SessionsInit ==
  /\ now = 0
  /\ users = [u \in Users |-> NoUser]
  /\ sessions = [c \in Calls |-> NoSession]
  /\ pc = [c \in Calls |-> "idle"]
  /\ req = [c \in Calls |-> NoRequest]
  /\ local = [c \in Calls |-> 0]
  /\ reply = [c \in Calls |-> NoReply]

-----------------------------------------------------------------------------
(* Properties.                                                             *)

SessionsTypeOK ==
  /\ now \in Nat
  /\ users \in [Users -> [id : Nat, status : {"absent", "active", "disabled"}]]
  /\ sessions \in [Calls -> [user : Users \cup {None}, id : Nat, expires : Nat,
                             revoked : BOOLEAN]]
  /\ pc \in [Calls -> {"idle", "findUser", "saveSession", "authenticate",
                       "handle", "revoked", "done"}]
  /\ req \in [Calls -> [op : {"none", "login", "work", "logout"},
                        user : Users \cup {None}, token : Calls \cup {None},
                        warned : BOOLEAN]]
  /\ local \in [Calls -> Nat]
  /\ reply \in [Calls ->
       [code : {"none", "ok", "unauthenticated", "failed"},
        fault : BOOLEAN]]

(***************************************************************************)
(* Once a client was told that a session is over, by a logout or by a      *)
(* refusal that no failure caused, no request that comes later gets in     *)
(* with its token, whatever restarts come between.                         *)
(***************************************************************************)
EndedSessionAdmitsNobody ==
  \A c \in Calls : req[c].warned => reply[c].code # "ok" /\ pc[c] # "handle"

\* The session ended, or its user is not welcome any more.
Over(t) ==
  \/ t = None
  \/ sessions[t].revoked
  \/ sessions[t].expires <= now
  \/ users[sessions[t].user].status = "disabled"

(***************************************************************************)
(* Unless a statement failed, a client is refused only if its session has  *)
(* been revoked, has run out or belongs to a disabled user: a restart ends *)
(* no session, and a login with good credentials succeeds.                 *)
(***************************************************************************)
RefusedOnlyIfEnded ==
  \A c \in Calls :
    reply[c] = [code |-> "unauthenticated", fault |-> FALSE] =>
      IF req[c].op = "login"
        THEN req[c].user # None => users[req[c].user].status = "disabled"
        ELSE Over(req[c].token)

(***************************************************************************)
(* However many logouts of one session are let in at once, at most one of  *)
(* them is told that it ended the session, and then the session is over.   *)
(***************************************************************************)
OneLogoutWins ==
  \A c, d \in Calls :
    /\ req[c].op = "logout" /\ reply[c].code = "ok"
    /\ req[d].op = "logout" /\ reply[d].code = "ok"
    /\ req[c].token = req[d].token
    => c = d /\ sessions[req[c].token].revoked

=============================================================================
