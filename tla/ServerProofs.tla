---------------------------- MODULE ServerProofs ----------------------------
(***************************************************************************)
(* Theorems about Server, for any number of requests, users, starts,       *)
(* handlers and jobs, and any life time of sessions.                       *)
(***************************************************************************)
EXTENDS Server, SequenceTheorems, TLAPS

-----------------------------------------------------------------------------
(* The invariant of the sessions, in parts.                                *)

User == [id : Nat, status : {"absent", "active", "disabled"}]

Session ==
  [user : Users \cup {None}, id : Nat, expires : Nat, revoked : BOOLEAN]

Asked ==
  [op : {"none", "login", "work", "logout"}, user : Users \cup {None},
   token : Calls \cup {None}, warned : BOOLEAN]

Answered == [code : {"none", "ok", "unauthenticated", "failed"}, fault : BOOLEAN]

Present(u) == u \in Users /\ users[u].status # "absent"

IsGiven(t) == req[t].op = "login" /\ reply[t].code = "ok"

\* A session that a client holds is of the user it was made for, who keeps
\* the identity it had then.
SessionOK(t) ==
  Present(sessions[t].user) /\ sessions[t].id = users[sessions[t].user].id

\* What a request asks agrees with where it is.
PlaceOK(c) ==
  /\ pc[c] # "done" => reply[c] = NoReply
  /\ pc[c] \in {"findUser", "saveSession"} => req[c].op = "login"
  /\ pc[c] \in {"authenticate", "handle"} => req[c].op \in {"work", "logout"}
  /\ pc[c] = "revoked" => req[c].op = "logout"
  /\ pc[c] = "saveSession" => Present(req[c].user)
  /\ pc[c] \in {"handle", "revoked"} => req[c].token # None
  /\ pc[c] = "idle" => req[c] = NoRequest
  /\ req[c].op = "login" => req[c].token = None
  /\ req[c].token # None => req[c].token \in Calls /\ IsGiven(req[c].token)

\* The logout that has ended its session, whether its client knows it or not.
LogoutWon(c) ==
  req[c].op = "logout" /\ (pc[c] = "revoked" \/ reply[c].code = "ok")

\* What a client was told agrees with the session, then and ever after.
ReplyOK(c) ==
  /\ req[c].warned =>
       /\ req[c].token # None /\ Over(req[c].token)
       /\ pc[c] \notin {"handle", "revoked"} /\ reply[c].code # "ok"
  /\ reply[c] = [code |-> "unauthenticated", fault |-> FALSE] =>
       IF req[c].op = "login"
         THEN req[c].user # None => users[req[c].user].status = "disabled"
         ELSE Over(req[c].token)
  /\ LogoutWon(c) => req[c].token # None /\ sessions[req[c].token].revoked

RequestOK(c) == PlaceOK(c) /\ ReplyOK(c) /\ (IsGiven(c) => SessionOK(c))

UniqueLogout ==
  \A c, d \in Calls :
    LogoutWon(c) /\ LogoutWon(d) /\ req[c].token = req[d].token => c = d

\* INSERT OR IGNORE tells absent users by their whole row.
UsersWhole == \A u \in Users : users[u].status = "absent" => users[u] = NoUser

SessionsInv ==
  /\ SessionsTypeOK
  /\ UsersWhole
  /\ \A c \in Calls : RequestOK(c)
  /\ UniqueLogout

-----------------------------------------------------------------------------
(* The invariant of the process, and what ties the two together.           *)

LifecycleInv ==
  /\ LifecycleTypeOK
  /\ ~refused
  /\ phase \in {"off", "starting"} => loops = {} /\ inHand = 0 /\ handlers = 0
  /\ phase \in {"waitRunner", "exiting"} => "worker" \notin loops
  /\ phase = "exiting" => "runner" \notin loops /\ handlers = 0
  /\ "runner" \notin loops => inHand = 0

\* A statement of the script that has run leaves its object, or its user.
Ran(n) ==
  /\ Script[n].object \in disk
  /\ Script[n].kind = "user" => Present(Script[n].object)

ScriptInv ==
  /\ phase = "starting" => \A n \in DOMAIN Script : n < step => Ran(n)
  /\ phase \notin {"off", "starting"} => \A n \in DOMAIN Script : Ran(n)

RequestsInv ==
  /\ phase \in {"off", "starting"} => InFlight = {}
  /\ phase \in {"waitWorker", "waitRunner", "exiting"} /\ InFlight # {} => late
  /\ late => phase \notin {"off", "starting"}

ServerInv == SessionsInv /\ LifecycleInv /\ ScriptInv /\ RequestsInv

-----------------------------------------------------------------------------
(* What a step may do to the rows, whoever takes it.                       *)

UsersKept ==
  \A u \in Users : Present(u) =>
    /\ users'[u].id = users[u].id
    /\ users'[u].status # "absent"
    /\ users[u].status = "disabled" => users'[u].status = "disabled"

SessionKept(t) ==
  /\ sessions'[t].user = sessions[t].user
  /\ sessions'[t].id = sessions[t].id
  /\ sessions'[t].expires = sessions[t].expires
  /\ sessions[t].revoked => sessions'[t].revoked

GivenKept == \A t \in Calls : IsGiven(t) => IsGiven(t)' /\ SessionKept(t)

Unmoved(d) == pc'[d] = pc[d] /\ req'[d] = req[d] /\ reply'[d] = reply[d]

LEMMA TypedParts ==
  ASSUME SessionsTypeOK
  PROVE  /\ now \in Nat
         /\ users \in [Users -> User]
         /\ sessions \in [Calls -> Session]
         /\ pc \in [Calls -> {"idle", "findUser", "saveSession", "authenticate",
                              "handle", "revoked", "done"}]
         /\ req \in [Calls -> Asked]
         /\ local \in [Calls -> Nat]
         /\ reply \in [Calls -> Answered]
BY DEF SessionsTypeOK, User, Session, Asked, Answered

LEMMA PartsTyped ==
  ASSUME now' \in Nat,
         users' \in [Users -> User],
         sessions' \in [Calls -> Session],
         pc' \in [Calls -> {"idle", "findUser", "saveSession", "authenticate",
                            "handle", "revoked", "done"}],
         req' \in [Calls -> Asked],
         local' \in [Calls -> Nat],
         reply' \in [Calls -> Answered]
  PROVE  SessionsTypeOK'
BY DEF SessionsTypeOK, User, Session, Asked, Answered

LEMMA GivenIsDone ==
  ASSUME SessionsInv, NEW t \in Calls, IsGiven(t)
  PROVE  pc[t] = "done" /\ SessionOK(t)
<1>1. RequestOK(t)
  BY DEF SessionsInv
<1> QED
  BY <1>1 DEF RequestOK, PlaceOK, IsGiven, NoReply

\* What is over stays over.
LEMMA OverForGood ==
  ASSUME SessionsInv, SessionsTypeOK', now <= now', UsersKept,
         NEW t \in Calls, IsGiven(t), SessionKept(t), Over(t)
  PROVE  Over(t)'
<1>1. SessionOK(t)
  BY GivenIsDone
<1>2. /\ now \in Nat
      /\ now' \in Nat
      /\ sessions[t].expires \in Nat
  BY DEF SessionsInv, SessionsTypeOK
<1>3. CASE t = None
  BY <1>3 DEF Over
<1>4. CASE sessions[t].revoked
  BY <1>4 DEF Over, SessionKept
<1>5. CASE sessions[t].expires <= now
  BY <1>2, <1>5 DEF Over, SessionKept
<1>6. CASE users[sessions[t].user].status = "disabled"
  BY <1>1, <1>6 DEF Over, SessionKept, SessionOK, Present, UsersKept
<1> QED
  BY <1>3, <1>4, <1>5, <1>6 DEF Over

\* A request that a step does not move keeps its part of the invariant.
LEMMA OthersKept ==
  ASSUME SessionsInv, SessionsTypeOK', now <= now', UsersKept, GivenKept,
         NEW d \in Calls, Unmoved(d)
  PROVE  RequestOK(d)'
<1>1. RequestOK(d)
  BY DEF SessionsInv
<1>2. req[d] \in Asked
  BY TypedParts DEF SessionsInv
<1>3. PlaceOK(d)'
  <2>1. ASSUME pc[d] = "saveSession"
        PROVE  Present(req[d].user)'
    BY <1>1, <2>1 DEF RequestOK, PlaceOK, Present, UsersKept, Unmoved
  <2>2. ASSUME req[d].token # None
        PROVE  req'[d].token \in Calls /\ IsGiven(req[d].token)'
    <3>1. PICK t : t = req[d].token
      OBVIOUS
    <3>2. t \in Calls /\ IsGiven(t)
      BY <1>1, <2>2, <3>1 DEF RequestOK, PlaceOK
    <3> QED
      BY <3>1, <3>2 DEF GivenKept, Unmoved, IsGiven
  <2> QED
    BY <1>1, <2>1, <2>2 DEF RequestOK, PlaceOK, Unmoved, Present, IsGiven
<1>4. ASSUME Over(req[d].token)
      PROVE  Over(req[d].token)'
  <2>1. CASE req[d].token = None
    BY <2>1 DEF Over, Unmoved
  <2>2. CASE req[d].token # None
    <3>1. PICK t : t = req[d].token
      OBVIOUS
    <3>2. t \in Calls /\ IsGiven(t)
      BY <1>1, <2>2, <3>1 DEF RequestOK, PlaceOK
    <3>3. Over(t)'
      BY <1>4, <3>1, <3>2, OverForGood DEF GivenKept
    <3> QED
      BY <3>1, <3>3 DEF Over, Unmoved
  <2> QED
    BY <2>1, <2>2
<1>5. ReplyOK(d)'
  <2>1. req[d].warned => Over(req[d].token)'
    BY <1>1, <1>4 DEF RequestOK, ReplyOK
  <2>2. ASSUME reply[d] = [code |-> "unauthenticated", fault |-> FALSE],
               req[d].op = "login", req[d].user # None
        PROVE  users'[req[d].user].status = "disabled"
    <3>1. req[d].user \in Users
      BY <1>2, <2>2 DEF Asked
    <3> QED
      BY <1>1, <2>2, <3>1 DEF RequestOK, ReplyOK, Present, UsersKept
  <2>3. ASSUME reply[d] = [code |-> "unauthenticated", fault |-> FALSE],
               req[d].op # "login"
        PROVE  Over(req[d].token)'
    BY <1>1, <1>4, <2>3 DEF RequestOK, ReplyOK
  <2>4. ASSUME LogoutWon(d)
        PROVE  req[d].token # None /\ sessions'[req[d].token].revoked
    BY <1>1, <2>4 DEF RequestOK, ReplyOK, PlaceOK, GivenKept, SessionKept
  <2>5. req[d].warned =>
          /\ req[d].token # None
          /\ pc[d] \notin {"handle", "revoked"} /\ reply[d].code # "ok"
    BY <1>1 DEF RequestOK, ReplyOK
  <2> QED
    BY <2>1, <2>2, <2>3, <2>4, <2>5 DEF ReplyOK, Unmoved, LogoutWon
<1>6. IsGiven(d)' => SessionOK(d)'
  <2>1. IsGiven(d)' => IsGiven(d)
    BY DEF IsGiven, Unmoved
  <2> QED
    BY <2>1, <1>1
    DEF RequestOK, SessionOK, GivenKept, SessionKept, Present, UsersKept
<1> QED
  BY <1>3, <1>5, <1>6 DEF RequestOK

-----------------------------------------------------------------------------
(* Each step of a request.                                                 *)

\* A step of one request: what is left to show is about that request.
LEMMA OneRequestMoves ==
  ASSUME SessionsInv, SessionsTypeOK', NEW c \in Calls, pc[c] # "done",
         now' = now, users' = users,
         \A d \in Calls \ {c} : Unmoved(d),
         \A t \in Calls \ {c} : SessionKept(t),
         RequestOK(c)',
         LogoutWon(c)' =>
           \A d \in Calls : LogoutWon(d) /\ req[d].token = req'[c].token => d = c
  PROVE  SessionsInv'
<1>1. now <= now'
  BY DEF SessionsInv, SessionsTypeOK
<1>2. UsersKept
  BY DEF UsersKept, Present
<1>3. GivenKept
  <2>1. SUFFICES ASSUME NEW t \in Calls, IsGiven(t)
                 PROVE  IsGiven(t)' /\ SessionKept(t)
    BY DEF GivenKept
  <2>2. t # c
    BY <2>1, GivenIsDone
  <2> QED
    BY <2>1, <2>2 DEF IsGiven, Unmoved
<1>4. \A d \in Calls : RequestOK(d)'
  BY <1>1, <1>2, <1>3, OthersKept
<1>5. UsersWhole'
  BY DEF SessionsInv, UsersWhole
<1>6. UniqueLogout'
  <2>1. \A d \in Calls : d # c => (LogoutWon(d)' <=> LogoutWon(d))
    BY DEF LogoutWon, Unmoved
  <2>2. \A d \in Calls : d # c => req'[d] = req[d]
    BY DEF Unmoved
  <2>3. \A a, b \in Calls :
          LogoutWon(a) /\ LogoutWon(b) /\ req[a].token = req[b].token => a = b
    BY DEF SessionsInv, UniqueLogout, LogoutWon
  <2>4. \A a, b \in Calls :
          LogoutWon(a)' /\ LogoutWon(b)' /\ req'[a].token = req'[b].token => a = b
    BY <2>1, <2>2, <2>3
  <2> QED
    BY <2>4 DEF UniqueLogout, LogoutWon
<1> QED
  BY <1>4, <1>5, <1>6 DEF SessionsInv

LEMMA StartLoginKeeps ==
  ASSUME SessionsInv, NEW c \in Calls, StartLogin(c)
  PROVE  SessionsInv'
<1> USE TypedParts DEF SessionsInv
<1>1. PICK u \in Users \cup {None} :
        req' = [req EXCEPT ![c] = Request("login", u, None, FALSE)]
  BY DEF StartLogin
<1>2. /\ pc[c] = "idle"
      /\ pc' = [pc EXCEPT ![c] = "findUser"]
      /\ local' = [local EXCEPT ![c] = 0]
      /\ reply' = reply
      /\ now' = now /\ users' = users /\ sessions' = sessions
  BY DEF StartLogin, Arrives, Step
<1>3. Request("login", u, None, FALSE) \in Asked
  BY <1>1 DEF Request, Asked
<1>4. SessionsTypeOK'
  BY <1>1, <1>2, <1>3, PartsTyped
<1>5. \A d \in Calls \ {c} : Unmoved(d)
  BY <1>1, <1>2 DEF Unmoved
<1>6. \A t \in Calls \ {c} : SessionKept(t)
  BY <1>2 DEF SessionKept
<1>7. reply'[c] = NoReply /\ pc'[c] = "findUser"
      /\ req'[c] = Request("login", u, None, FALSE)
  BY <1>1, <1>2 DEF RequestOK, PlaceOK
<1>8. RequestOK(c)'
  BY <1>7 DEF RequestOK, PlaceOK, ReplyOK, LogoutWon, IsGiven, NoReply, Request
<1>9. ~LogoutWon(c)'
  BY <1>7 DEF LogoutWon, NoReply
<1> QED
  BY <1>2, <1>4, <1>5, <1>6, <1>8, <1>9, OneRequestMoves

LEMMA StartUseKeeps ==
  ASSUME SessionsInv, NEW c \in Calls, StartUse(c)
  PROVE  SessionsInv'
<1> USE TypedParts DEF SessionsInv
<1>1. /\ pc[c] = "idle"
      /\ pc' = [pc EXCEPT ![c] = "authenticate"]
      /\ local' = [local EXCEPT ![c] = 0]
      /\ reply' = reply
      /\ now' = now /\ users' = users /\ sessions' = sessions
  BY DEF StartUse, Arrives, Step
<1>2. reply[c] = NoReply
  BY <1>1 DEF RequestOK, PlaceOK
<1>3. PICK op \in {"work", "logout"}, t \in Calls \cup {None}, w \in BOOLEAN :
        /\ req' = [req EXCEPT ![c] = Request(op, None, t, w)]
        /\ t # None => t \in Given
        /\ w => t # None /\ Told(t)
  <2> DEFINE Asks(op, t, w) ==
        /\ req' = [req EXCEPT ![c] = Request(op, None, t, w)]
        /\ t # None => t \in Given
        /\ w => t # None /\ Told(t)
  <2>1. CASE req' = [req EXCEPT ![c] = Request("work", None, None, FALSE)]
    <3>1. Asks("work", None, FALSE)
      BY <2>1
    <3> HIDE DEF Asks
    <3>2. \E op \in {"work", "logout"}, t \in Calls \cup {None}, w \in BOOLEAN :
            Asks(op, t, w)
      BY <3>1
    <3> QED
      BY <3>2 DEF Asks
  <2>2. CASE \E op \in {"work", "logout"}, t \in Given :
               req' = [req EXCEPT ![c] = Request(op, None, t, Told(t))]
    <3>1. PICK op \in {"work", "logout"}, t \in Given :
            req' = [req EXCEPT ![c] = Request(op, None, t, Told(t))]
      BY <2>2
    <3>2. t \in Calls /\ t # None
      BY SessionsAssumption DEF Given
    <3>3. Told(t) \in BOOLEAN
      BY DEF Told
    <3>4. Asks(op, t, Told(t))
      BY <3>1, <3>2
    <3> HIDE DEF Asks
    <3>5. \E o \in {"work", "logout"}, s \in Calls \cup {None}, w \in BOOLEAN :
            Asks(o, s, w)
      BY <3>2, <3>3, <3>4
    <3> QED
      BY <3>5 DEF Asks
  <2> QED
    BY <2>1, <2>2 DEF StartUse
<1>4. Request(op, None, t, w) \in Asked
  BY <1>3 DEF Request, Asked
<1>5. SessionsTypeOK'
  BY <1>1, <1>3, <1>4, PartsTyped
<1>6. \A d \in Calls \ {c} : Unmoved(d)
  BY <1>1, <1>3 DEF Unmoved
<1>7. \A s \in Calls \ {c} : SessionKept(s)
  BY <1>1 DEF SessionKept
<1>8. /\ reply'[c] = NoReply
      /\ pc'[c] = "authenticate"
      /\ req'[c] = Request(op, None, t, w)
  BY <1>1, <1>2, <1>3
<1>9. t # None => t \in Calls /\ t # c /\ IsGiven(t)
  BY <1>2, <1>3 DEF Given, IsGiven, NoReply
\* Whoever was told so was told the truth.
<1>10. w => Over(t)
  <2>1. SUFFICES ASSUME w PROVE Over(t)
    OBVIOUS
  <2>2. PICK d \in Calls :
          /\ req[d].token = t
          /\ \/ req[d].op = "logout" /\ reply[d].code = "ok"
             \/ reply[d] = [code |-> "unauthenticated", fault |-> FALSE]
    BY <1>3, <2>1 DEF Told
  <2>3. RequestOK(d) /\ t # None
    BY <1>3, <2>1
  <2>4. req[d].op # "login"
    BY <2>2, <2>3 DEF RequestOK, PlaceOK
  <2> QED
    BY <2>2, <2>3, <2>4 DEF RequestOK, ReplyOK, LogoutWon, Over
<1>11. PlaceOK(c)'
  <2>1. t # None => IsGiven(t)'
    BY <1>6, <1>9 DEF IsGiven, Unmoved
  <2> QED
    BY <1>3, <1>8, <1>9, <2>1 DEF PlaceOK, IsGiven, NoReply, Request
<1>12. ReplyOK(c)'
  <2>1. w => Over(t)'
    BY <1>1, <1>10 DEF Over
  <2> QED
    BY <1>3, <1>8, <2>1 DEF ReplyOK, LogoutWon, NoReply, Request
<1>13. RequestOK(c)'
  BY <1>8, <1>11, <1>12 DEF RequestOK, IsGiven, NoReply
<1>14. ~LogoutWon(c)'
  BY <1>8 DEF LogoutWon, NoReply
<1> QED
  BY <1>1, <1>5, <1>6, <1>7, <1>13, <1>14, OneRequestMoves

\* Every user is there as soon as requests can be.
LEMMA FindUserKeeps ==
  ASSUME SessionsInv, NEW c \in Calls, FindUser(c), \A u \in Users : Present(u)
  PROVE  SessionsInv'
<1> USE TypedParts DEF SessionsInv
<1> DEFINE u == req[c].user
<1>1. /\ pc[c] = "findUser"
      /\ now' = now /\ users' = users /\ sessions' = sessions /\ req' = req
  BY DEF FindUser
<1>2. /\ reply[c] = NoReply
      /\ req[c].op = "login"
      /\ req[c].token = None
      /\ ~req[c].warned
  BY <1>1 DEF RequestOK, PlaceOK, ReplyOK, LogoutWon
<1>3. u \in Users \cup {None}
  BY DEF Asked
<1>4. \A t \in Calls \ {c} : SessionKept(t)
  BY <1>1 DEF SessionKept
<1>5. CASE u = None \/ users[u].status # "active"
  <2>1. /\ pc' = [pc EXCEPT ![c] = "done"]
        /\ local' = [local EXCEPT ![c] = 0]
        /\ reply' = [reply EXCEPT ![c] =
             [code |-> "unauthenticated", fault |-> FALSE]]
    BY <1>5 DEF FindUser, Refuse, Answer
  <2>2. [code |-> "unauthenticated", fault |-> FALSE] \in Answered
    BY DEF Answered
  <2>3. SessionsTypeOK'
    BY <1>1, <2>1, <2>2, PartsTyped
  <2>4. \A d \in Calls \ {c} : Unmoved(d)
    BY <1>1, <2>1 DEF Unmoved
  <2>5. reply'[c] = [code |-> "unauthenticated", fault |-> FALSE]
        /\ pc'[c] = "done" /\ req'[c] = req[c]
    BY <1>1, <2>1
  <2>6. u # None => users'[u].status = "disabled"
    BY <1>1, <1>3, <1>5 DEF Present, User
  <2>7. RequestOK(c)'
    BY <1>2, <2>5, <2>6 DEF RequestOK, PlaceOK, ReplyOK, LogoutWon, IsGiven
  <2>8. ~LogoutWon(c)'
    BY <2>5 DEF LogoutWon
  <2> QED
    BY <1>1, <1>4, <2>3, <2>4, <2>7, <2>8, OneRequestMoves
<1>6. CASE u # None /\ users[u].status = "active"
  <2>1. /\ pc' = [pc EXCEPT ![c] = "saveSession"]
        /\ local' = [local EXCEPT ![c] = now]
        /\ reply' = reply
    BY <1>6 DEF FindUser, Step
  <2>2. SessionsTypeOK'
    BY <1>1, <2>1, PartsTyped
  <2>3. \A d \in Calls \ {c} : Unmoved(d)
    BY <1>1, <2>1 DEF Unmoved
  <2>4. reply'[c] = NoReply /\ pc'[c] = "saveSession" /\ req'[c] = req[c]
    BY <1>1, <1>2, <2>1
  <2>5. Present(u)'
    BY <1>1, <1>3, <1>6 DEF Present
  <2>6. RequestOK(c)'
    BY <1>2, <2>4, <2>5
    DEF RequestOK, PlaceOK, ReplyOK, LogoutWon, IsGiven, NoReply, Present
  <2>7. ~LogoutWon(c)'
    BY <2>4 DEF LogoutWon, NoReply
  <2> QED
    BY <1>1, <1>4, <2>2, <2>3, <2>6, <2>7, OneRequestMoves
<1> QED
  BY <1>5, <1>6

LEMMA SaveSessionKeeps ==
  ASSUME SessionsInv, NEW c \in Calls, SaveSession(c)
  PROVE  SessionsInv'
<1> USE TypedParts DEF SessionsInv
<1> DEFINE u == req[c].user
           row == [user |-> u, id |-> users[u].id,
                   expires |-> local[c] + TTL, revoked |-> FALSE]
           ok == [code |-> "ok", fault |-> FALSE]
<1>1. /\ pc[c] = "saveSession"
      /\ pc' = [pc EXCEPT ![c] = "done"]
      /\ local' = [local EXCEPT ![c] = 0]
      /\ reply' = [reply EXCEPT ![c] = ok]
      /\ sessions' = [sessions EXCEPT ![c] = row]
      /\ now' = now /\ users' = users /\ req' = req
  BY DEF SaveSession, Answer
<1>2. /\ req[c].op = "login"
      /\ req[c].token = None
      /\ ~req[c].warned
      /\ Present(u)
  BY <1>1 DEF RequestOK, PlaceOK, ReplyOK, LogoutWon
<1>3. row \in Session
  BY <1>2, SessionsAssumption DEF Session, User, Present
<1>4. ok \in Answered
  BY DEF Answered
<1>5. SessionsTypeOK'
  BY <1>1, <1>3, <1>4, PartsTyped
<1>6. \A d \in Calls \ {c} : Unmoved(d)
  BY <1>1 DEF Unmoved
<1>7. \A t \in Calls \ {c} : SessionKept(t)
  BY <1>1 DEF SessionKept
<1>8. reply'[c] = ok /\ pc'[c] = "done" /\ req'[c] = req[c] /\ sessions'[c] = row
  BY <1>1
<1>9. SessionOK(c)'
  BY <1>1, <1>2, <1>8 DEF SessionOK, Present
<1>10. RequestOK(c)'
  BY <1>2, <1>8, <1>9 DEF RequestOK, PlaceOK, ReplyOK, LogoutWon, IsGiven
<1>11. ~LogoutWon(c)'
  BY <1>2, <1>8 DEF LogoutWon
<1> QED
  BY <1>1, <1>5, <1>6, <1>7, <1>10, <1>11, OneRequestMoves

\* What Authenticate does not admit is over, for the row and its user agree.
LEMMA NotAdmittedIsOver ==
  ASSUME SessionsInv, NEW t \in Calls \cup {None}, t # None => IsGiven(t)
  PROVE  Admits(t) <=> ~Over(t)
<1>1. CASE t = None
  BY <1>1 DEF Admits, Over
<1>2. CASE t # None
  <2>1. t \in Calls /\ SessionOK(t)
    BY <1>2, GivenIsDone
  <2>2. users[sessions[t].user] \in User /\ sessions[t] \in Session /\ now \in Nat
    BY <2>1, TypedParts DEF SessionsInv, SessionOK, Present
  <2> QED
    BY <1>2, <2>1, <2>2 DEF Admits, Over, SessionOK, Present, User, Session
<1> QED
  BY <1>1, <1>2

LEMMA AuthenticateKeeps ==
  ASSUME SessionsInv, NEW c \in Calls, Authenticate(c)
  PROVE  SessionsInv'
<1> USE TypedParts DEF SessionsInv
<1>0. PICK t : t = req[c].token
  OBVIOUS
<1> DEFINE no == [code |-> "unauthenticated", fault |-> FALSE]
<1>1. /\ pc[c] = "authenticate"
      /\ now' = now /\ users' = users /\ sessions' = sessions /\ req' = req
  BY DEF Authenticate
<1>2. RequestOK(c)
  OBVIOUS
<1>3. /\ reply[c] = NoReply
      /\ req[c].op \in {"work", "logout"}
      /\ t \in Calls \cup {None}
      /\ t # None => IsGiven(t)
  BY <1>0, <1>1, <1>2 DEF RequestOK, PlaceOK
<1>4. Admits(t) <=> ~Over(t)
  BY <1>3, NotAdmittedIsOver
<1>5. Over(t)' <=> Over(t)
  BY <1>1 DEF Over
<1>6. \A s \in Calls \ {c} : SessionKept(s)
  BY <1>1 DEF SessionKept
<1>7. t # c
  BY <1>3, SessionsAssumption DEF IsGiven, NoReply
<1>9. CASE ~Admits(t)
  <2>1. /\ pc' = [pc EXCEPT ![c] = "done"]
        /\ local' = [local EXCEPT ![c] = 0]
        /\ reply' = [reply EXCEPT ![c] = no]
    BY <1>0, <1>9 DEF Authenticate, Refuse, Answer
  <2>2. no \in Answered
    BY DEF Answered
  <2>3. SessionsTypeOK'
    BY <1>1, <2>1, <2>2, PartsTyped
  <2>4. \A d \in Calls \ {c} : Unmoved(d)
    BY <1>1, <2>1 DEF Unmoved
  <2>5. reply'[c] = no /\ pc'[c] = "done" /\ req'[c] = req[c]
    BY <1>1, <2>1
  <2>6. t # None => IsGiven(t)'
    BY <1>3, <1>7, <2>4 DEF IsGiven, Unmoved
  <2>7. PlaceOK(c)'
    BY <1>0, <1>3, <2>5, <2>6 DEF PlaceOK, IsGiven
  <2>8. ReplyOK(c)'
    BY <1>0, <1>2, <1>3, <1>4, <1>5, <1>9, <2>5
    DEF RequestOK, ReplyOK, LogoutWon
  <2>9. RequestOK(c)'
    BY <2>5, <2>7, <2>8 DEF RequestOK, IsGiven
  <2>10. ~LogoutWon(c)'
    BY <2>5 DEF LogoutWon
  <2> QED
    BY <1>1, <1>6, <2>3, <2>4, <2>9, <2>10, OneRequestMoves
<1>10. CASE Admits(t)
  <2>1. /\ pc' = [pc EXCEPT ![c] = "handle"]
        /\ local' = [local EXCEPT ![c] = 0]
        /\ reply' = reply
    BY <1>0, <1>10 DEF Authenticate, Step
  <2>2. SessionsTypeOK'
    BY <1>1, <2>1, PartsTyped
  <2>3. \A d \in Calls \ {c} : Unmoved(d)
    BY <1>1, <2>1 DEF Unmoved
  <2>4. reply'[c] = NoReply /\ pc'[c] = "handle" /\ req'[c] = req[c]
    BY <1>1, <1>3, <2>1
  <2>5. t # None
    BY <1>10 DEF Admits
  <2>6. IsGiven(t)'
    BY <1>3, <1>7, <2>3, <2>5 DEF IsGiven, Unmoved
  <2>7. PlaceOK(c)'
    BY <1>0, <1>3, <2>4, <2>5, <2>6 DEF PlaceOK, IsGiven, NoReply
  <2>8. ~req[c].warned
    BY <1>0, <1>2, <1>4, <1>10 DEF RequestOK, ReplyOK, LogoutWon
  <2>9. RequestOK(c)'
    BY <2>4, <2>7, <2>8 DEF RequestOK, ReplyOK, LogoutWon, IsGiven, NoReply
  <2>10. ~LogoutWon(c)'
    BY <2>4 DEF LogoutWon, NoReply
  <2> QED
    BY <1>1, <1>6, <2>2, <2>3, <2>9, <2>10, OneRequestMoves
<1> QED
  BY <1>9, <1>10

LEMMA DoWorkKeeps ==
  ASSUME SessionsInv, NEW c \in Calls, DoWork(c)
  PROVE  SessionsInv'
<1> USE TypedParts DEF SessionsInv
<1> DEFINE ok == [code |-> "ok", fault |-> FALSE]
<1>1. /\ pc[c] = "handle"
      /\ req[c].op = "work"
      /\ pc' = [pc EXCEPT ![c] = "done"]
      /\ local' = [local EXCEPT ![c] = 0]
      /\ reply' = [reply EXCEPT ![c] = ok]
      /\ now' = now /\ users' = users /\ sessions' = sessions /\ req' = req
  BY DEF DoWork, Answer
<1>2. PlaceOK(c) /\ ReplyOK(c)
  BY DEF RequestOK
<1>3. \A d \in Calls \ {c} : Unmoved(d)
  BY <1>1 DEF Unmoved
<1>4. \A s \in Calls \ {c} : SessionKept(s)
  BY <1>1 DEF SessionKept
<1>5. reply'[c] = ok /\ pc'[c] = "done" /\ req'[c] = req[c]
  BY <1>1
<1>6. ok \in Answered
  BY DEF Answered
<1>7. SessionsTypeOK'
  BY <1>1, <1>6, PartsTyped
<1>8. PlaceOK(c)'
  <2>1. PICK t : t = req[c].token
    OBVIOUS
  <2>2. t # None /\ t \in Calls /\ IsGiven(t)
    BY <1>1, <1>2, <2>1 DEF PlaceOK
  <2>3. t # c
    BY <1>1, <2>2 DEF IsGiven
  <2>4. IsGiven(t)'
    BY <1>3, <2>2, <2>3 DEF IsGiven, Unmoved
  <2> QED
    BY <1>1, <1>5, <2>1, <2>2, <2>4 DEF PlaceOK, IsGiven
<1>9. ReplyOK(c)'
  BY <1>1, <1>2, <1>5 DEF ReplyOK, LogoutWon
<1>10. RequestOK(c)'
  BY <1>1, <1>5, <1>8, <1>9 DEF RequestOK, IsGiven
<1>11. ~LogoutWon(c)'
  BY <1>1, <1>5 DEF LogoutWon
<1> QED
  BY <1>1, <1>3, <1>4, <1>7, <1>10, <1>11, OneRequestMoves

\* The one that revokes is the first, for every earlier winner has revoked too.
LEMMA LogoutKeeps ==
  ASSUME SessionsInv, NEW c \in Calls, Logout(c)
  PROVE  SessionsInv'
<1> USE TypedParts DEF SessionsInv
<1>1. PICK t : t = req[c].token
  OBVIOUS
<1> DEFINE ok == [code |-> "ok", fault |-> FALSE]
           no == [code |-> "unauthenticated", fault |-> FALSE]
<1>2. /\ pc[c] = "handle"
      /\ req[c].op = "logout"
      /\ now' = now /\ users' = users /\ req' = req
  BY DEF Logout
<1>3. PlaceOK(c) /\ ReplyOK(c)
  BY DEF RequestOK
<1>4. t # None /\ t \in Calls /\ IsGiven(t)
  BY <1>1, <1>2, <1>3 DEF PlaceOK
<1>5. t # c
  BY <1>2, <1>4 DEF IsGiven
<1>6. ~req[c].warned
  BY <1>2, <1>3 DEF ReplyOK, LogoutWon
<1>7. CASE sessions[t].revoked
  <2>1. /\ pc' = [pc EXCEPT ![c] = "done"]
        /\ local' = [local EXCEPT ![c] = 0]
        /\ reply' = [reply EXCEPT ![c] = no]
        /\ sessions' = sessions
    BY <1>1, <1>7 DEF Logout, Revocable, Refuse, Answer
  <2>2. no \in Answered
    BY DEF Answered
  <2>3. SessionsTypeOK'
    BY <1>2, <2>1, <2>2, PartsTyped
  <2>4. \A d \in Calls \ {c} : Unmoved(d)
    BY <1>2, <2>1 DEF Unmoved
  <2>5. \A s \in Calls \ {c} : SessionKept(s)
    BY <2>1 DEF SessionKept
  <2>6. reply'[c] = no /\ pc'[c] = "done" /\ req'[c] = req[c]
    BY <1>2, <2>1
  <2>7. IsGiven(t)'
    BY <1>4, <1>5, <2>4 DEF IsGiven, Unmoved
  <2>8. PlaceOK(c)'
    BY <1>1, <1>2, <1>4, <2>6, <2>7 DEF PlaceOK, IsGiven
  <2>9. ReplyOK(c)'
    BY <1>1, <1>2, <1>6, <1>7, <2>1, <2>6 DEF ReplyOK, LogoutWon, Over
  <2>10. RequestOK(c)'
    BY <2>6, <2>8, <2>9 DEF RequestOK, IsGiven
  <2>11. ~LogoutWon(c)'
    BY <2>6 DEF LogoutWon
  <2> QED
    BY <1>2, <2>3, <2>4, <2>5, <2>10, <2>11, OneRequestMoves
<1>8. CASE ~sessions[t].revoked
  <2>1. /\ pc' = [pc EXCEPT ![c] = "revoked"]
        /\ local' = [local EXCEPT ![c] = 0]
        /\ reply' = reply
        /\ sessions' = [sessions EXCEPT ![t].revoked = TRUE]
    BY <1>1, <1>8 DEF Logout, Revocable, Step
  <2>2. reply[c] = NoReply
    BY <1>2, <1>3 DEF PlaceOK
  <2>3. sessions' \in [Calls -> Session]
    BY <1>4, <2>1 DEF Session
  <2>4. SessionsTypeOK'
    BY <1>2, <2>1, <2>3, PartsTyped
  <2>5. \A d \in Calls \ {c} : Unmoved(d)
    BY <1>2, <2>1 DEF Unmoved
  <2>6. \A s \in Calls \ {c} : SessionKept(s)
    BY <1>4, <2>1 DEF SessionKept, Session
  <2>7. reply'[c] = NoReply /\ pc'[c] = "revoked" /\ req'[c] = req[c]
    BY <1>2, <2>1, <2>2
  <2>8. IsGiven(t)'
    BY <1>4, <1>5, <2>5 DEF IsGiven, Unmoved
  <2>9. PlaceOK(c)'
    BY <1>1, <1>2, <1>4, <2>7, <2>8 DEF PlaceOK, IsGiven
  <2>10. sessions'[t].revoked
    BY <1>4, <2>1 DEF Session
  <2>11. ReplyOK(c)'
    BY <1>1, <1>2, <1>4, <1>6, <2>7, <2>10 DEF ReplyOK, LogoutWon, NoReply
  <2>12. RequestOK(c)'
    BY <1>2, <2>7, <2>9, <2>11 DEF RequestOK, IsGiven, NoReply
  <2>13. \A d \in Calls : ~(LogoutWon(d) /\ req[d].token = req'[c].token)
    BY <1>1, <1>8, <2>7 DEF LogoutWon, RequestOK, ReplyOK
  <2> QED
    BY <1>2, <2>4, <2>5, <2>6, <2>12, <2>13, OneRequestMoves
<1> QED
  BY <1>7, <1>8

LEMMA ConfirmLogoutKeeps ==
  ASSUME SessionsInv, NEW c \in Calls, ConfirmLogout(c)
  PROVE  SessionsInv'
<1> USE TypedParts DEF SessionsInv
<1> DEFINE ok == [code |-> "ok", fault |-> FALSE]
<1>1. /\ pc[c] = "revoked"
      /\ pc' = [pc EXCEPT ![c] = "done"]
      /\ local' = [local EXCEPT ![c] = 0]
      /\ reply' = [reply EXCEPT ![c] = ok]
      /\ now' = now /\ users' = users /\ sessions' = sessions /\ req' = req
  BY DEF ConfirmLogout, Answer
<1>2. PlaceOK(c) /\ ReplyOK(c) /\ req[c].op = "logout" /\ LogoutWon(c)
  BY <1>1 DEF RequestOK, PlaceOK, LogoutWon
<1>3. \A d \in Calls \ {c} : Unmoved(d)
  BY <1>1 DEF Unmoved
<1>4. \A s \in Calls \ {c} : SessionKept(s)
  BY <1>1 DEF SessionKept
<1>5. reply'[c] = ok /\ pc'[c] = "done" /\ req'[c] = req[c]
  BY <1>1
<1>6. ok \in Answered
  BY DEF Answered
<1>7. SessionsTypeOK'
  BY <1>1, <1>6, PartsTyped
<1>8. PlaceOK(c)'
  <2>1. PICK t : t = req[c].token
    OBVIOUS
  <2>2. t # None /\ t \in Calls /\ IsGiven(t)
    BY <1>1, <1>2, <2>1 DEF PlaceOK
  <2>3. t # c
    BY <1>2, <2>2 DEF IsGiven
  <2>4. IsGiven(t)'
    BY <1>3, <2>2, <2>3 DEF IsGiven, Unmoved
  <2> QED
    BY <1>2, <1>5, <2>1, <2>2, <2>4 DEF PlaceOK, IsGiven
<1>9. ReplyOK(c)'
  BY <1>1, <1>2, <1>5 DEF ReplyOK, LogoutWon
<1>10. RequestOK(c)'
  BY <1>2, <1>5, <1>8, <1>9 DEF RequestOK, IsGiven
<1>11. \A d \in Calls : LogoutWon(d) /\ req[d].token = req[c].token => d = c
  BY <1>2 DEF UniqueLogout
<1> QED
  BY <1>1, <1>2, <1>3, <1>4, <1>5, <1>7, <1>10, <1>11, OneRequestMoves

LEMMA DatabaseFaultKeeps ==
  ASSUME SessionsInv, NEW c \in Calls, DatabaseFault(c)
  PROVE  SessionsInv'
<1> USE TypedParts DEF SessionsInv
<1>1. PICK code \in {"unauthenticated", "failed"} :
        reply' = [reply EXCEPT ![c] = [code |-> code, fault |-> TRUE]]
  BY DEF DatabaseFault, Answer
<1>2. /\ pc[c] # "done" /\ pc[c] # "idle"
      /\ pc' = [pc EXCEPT ![c] = "done"]
      /\ local' = [local EXCEPT ![c] = 0]
      /\ now' = now /\ users' = users /\ sessions' = sessions /\ req' = req
  BY DEF DatabaseFault, Answer, InFlight
<1>3. PlaceOK(c) /\ ReplyOK(c)
  BY DEF RequestOK
<1>4. \A d \in Calls \ {c} : Unmoved(d)
  BY <1>1, <1>2 DEF Unmoved
<1>5. \A s \in Calls \ {c} : SessionKept(s)
  BY <1>2 DEF SessionKept
<1>6. /\ reply'[c] = [code |-> code, fault |-> TRUE]
      /\ pc'[c] = "done" /\ req'[c] = req[c]
  BY <1>1, <1>2
<1>7. [code |-> code, fault |-> TRUE] \in Answered
  BY DEF Answered
<1>8. SessionsTypeOK'
  BY <1>1, <1>2, <1>7, PartsTyped
<1>9. PlaceOK(c)'
  <2>1. PICK t : t = req[c].token
    OBVIOUS
  <2>2. t # None => t \in Calls /\ IsGiven(t) /\ t # c
    BY <1>2, <1>3, <2>1 DEF PlaceOK, IsGiven, NoReply
  <2>3. t # None => IsGiven(t)'
    BY <1>4, <2>2 DEF IsGiven, Unmoved
  <2> QED
    BY <1>2, <1>3, <1>6, <2>1, <2>2, <2>3 DEF PlaceOK, IsGiven
<1>10. ReplyOK(c)'
  <2>1. Over(req[c].token) => Over(req[c].token)'
    BY <1>2 DEF Over
  <2> QED
    BY <1>2, <1>3, <1>6, <2>1 DEF ReplyOK, LogoutWon
<1>11. RequestOK(c)'
  BY <1>6, <1>9, <1>10 DEF RequestOK, IsGiven
<1>12. ~LogoutWon(c)'
  BY <1>6 DEF LogoutWon
<1> QED
  BY <1>2, <1>4, <1>5, <1>8, <1>11, <1>12, OneRequestMoves

-----------------------------------------------------------------------------
(* What happens to the rows and the requests from outside.                 *)

\* No request moves, and the rows are kept.
LEMMA NoRequestMoves ==
  ASSUME SessionsInv, SessionsTypeOK', UsersWhole', now <= now', UsersKept,
         UNCHANGED <<sessions, pc, req, reply>>
  PROVE  SessionsInv'
<1>1. GivenKept
  BY DEF GivenKept, IsGiven, SessionKept
<1>2. \A d \in Calls : RequestOK(d)'
  BY <1>1, OthersKept DEF Unmoved
<1>3. UniqueLogout'
  BY DEF SessionsInv, UniqueLogout, LogoutWon
<1> QED
  BY <1>2, <1>3 DEF SessionsInv

LEMMA SeedUserKeeps ==
  ASSUME SessionsInv, NEW u \in Users, NEW id \in Nat, SeedUser(u, id)
  PROVE  SessionsInv' /\ Present(u)' /\ UsersKept
<1> USE TypedParts DEF SessionsInv
<1>1. UNCHANGED <<now, sessions, pc, req, local, reply>>
  BY DEF SeedUser
<1>2. [id |-> id, status |-> "active"] \in User
  BY DEF User
<1>3. users' \in [Users -> User]
  BY <1>2 DEF SeedUser
<1>4. SessionsTypeOK'
  BY <1>1, <1>3, PartsTyped
<1>5. UsersKept
  BY DEF SeedUser, UsersKept, Present, NoUser
<1>6. UsersWhole'
  BY DEF SeedUser, UsersWhole
<1>7. now <= now'
  BY <1>1
<1>8. Present(u)'
  BY DEF SeedUser, Present, UsersWhole
<1> QED
  BY <1>1, <1>4, <1>5, <1>6, <1>7, <1>8, NoRequestMoves

LEMMA DisableUserKeeps ==
  ASSUME SessionsInv, NEW u \in Users, DisableUser(u)
  PROVE  SessionsInv' /\ UsersKept
<1> USE TypedParts DEF SessionsInv
<1>1. UNCHANGED <<now, sessions, pc, req, local, reply>>
  BY DEF DisableUser
<1>2. users' \in [Users -> User]
  BY DEF DisableUser, User
<1>3. SessionsTypeOK'
  BY <1>1, <1>2, PartsTyped
<1>4. \A w \in Users \ {u} : users'[w] = users[w]
  BY DEF DisableUser
<1>5. users'[u].id = users[u].id /\ users'[u].status = "disabled"
  BY DEF DisableUser, User
<1>6. UsersKept
  BY <1>4, <1>5 DEF UsersKept, Present
<1>7. UsersWhole'
  BY <1>4, <1>5 DEF UsersWhole
<1>8. now <= now'
  BY <1>1
<1> QED
  BY <1>1, <1>3, <1>6, <1>7, <1>8, NoRequestMoves

LEMMA TickKeeps ==
  ASSUME SessionsInv, Tick
  PROVE  SessionsInv' /\ UsersKept
<1> USE TypedParts DEF SessionsInv
<1>1. /\ UNCHANGED <<users, sessions, pc, req, local, reply>>
      /\ now' \in Nat
      /\ now <= now'
  BY DEF Tick
<1>2. SessionsTypeOK'
  BY <1>1, PartsTyped
<1>3. UsersKept
  BY <1>1 DEF UsersKept, Present
<1>4. UsersWhole'
  BY <1>1 DEF UsersWhole
<1> QED
  BY <1>1, <1>2, <1>3, <1>4, NoRequestMoves

LEMMA LoseRequestsKeeps ==
  ASSUME SessionsInv, LoseRequests
  PROVE  SessionsInv' /\ InFlight' = {}
<1> USE TypedParts DEF SessionsInv
<1> DEFINE none == [code |-> "failed", fault |-> TRUE]
<1>1. /\ UNCHANGED <<now, users, sessions, req>>
      /\ pc' = [c \in Calls |-> IF c \in InFlight THEN "done" ELSE pc[c]]
      /\ local' = [c \in Calls |-> 0]
      /\ reply' = [c \in Calls |-> IF c \in InFlight THEN none ELSE reply[c]]
  BY DEF LoseRequests
<1>2. none \in Answered
  BY DEF Answered
<1>3. pc' \in [Calls -> {"idle", "findUser", "saveSession", "authenticate",
                         "handle", "revoked", "done"}]
  BY <1>1
<1>4. reply' \in [Calls -> Answered]
  BY <1>1, <1>2
<1>5. SessionsTypeOK'
  BY <1>1, <1>3, <1>4, PartsTyped
<1>6. \A d \in Calls : d \notin InFlight => Unmoved(d)
  BY <1>1 DEF Unmoved
<1>7. \A d \in Calls : d \in InFlight =>
        pc'[d] = "done" /\ reply'[d] = none /\ req'[d] = req[d]
  BY <1>1
<1>8. now <= now' /\ UsersKept
  BY <1>1 DEF UsersKept, Present
<1>9. GivenKept
  <2>1. SUFFICES ASSUME NEW t \in Calls, IsGiven(t)
                 PROVE  IsGiven(t)' /\ SessionKept(t)
    BY DEF GivenKept
  <2>2. t \notin InFlight
    BY <2>1, GivenIsDone DEF InFlight
  <2> QED
    BY <1>1, <1>6, <2>1, <2>2 DEF IsGiven, Unmoved, SessionKept
<1>10. ASSUME NEW d \in Calls
       PROVE  RequestOK(d)'
  <2>1. CASE d \notin InFlight
    BY <1>5, <1>6, <1>8, <1>9, <2>1, OthersKept
  <2>2. CASE d \in InFlight
    <3>1. /\ PlaceOK(d) /\ ReplyOK(d) /\ pc[d] # "idle"
          /\ pc'[d] = "done" /\ reply'[d] = none /\ req'[d] = req[d]
      BY <1>7, <2>2 DEF RequestOK, InFlight
    <3>2. PICK t : t = req[d].token
      OBVIOUS
    <3>3. t # None => t \in Calls /\ IsGiven(t)'
      BY <1>9, <3>1, <3>2 DEF PlaceOK, GivenKept
    <3>4. PlaceOK(d)'
      BY <3>1, <3>2, <3>3 DEF PlaceOK, IsGiven
    <3>5. Over(req[d].token) => Over(req[d].token)'
      BY <1>1 DEF Over
    <3>6. ReplyOK(d)'
      BY <1>1, <3>1, <3>5 DEF ReplyOK, LogoutWon
    <3> QED
      BY <3>1, <3>4, <3>6 DEF RequestOK, IsGiven
  <2> QED
    BY <2>1, <2>2
<1>11. UniqueLogout'
  BY <1>1, <1>6, <1>7 DEF UniqueLogout, LogoutWon, Unmoved
<1>12. UsersWhole'
  BY <1>1 DEF UsersWhole
<1>13. InFlight' = {}
  BY <1>1 DEF InFlight
<1> QED
  BY <1>5, <1>10, <1>11, <1>12, <1>13

-----------------------------------------------------------------------------
(* The script.                                                             *)

\* Where the elements of a concatenation come from.
LEMMA ConcatParts ==
  ASSUME NEW S, NEW s \in Seq(S), NEW t \in Seq(S)
  PROVE  /\ s \o t \in Seq(S)
         /\ \A n \in DOMAIN s : n \in DOMAIN (s \o t) /\ (s \o t)[n] = s[n]
         /\ \A n \in DOMAIN t : /\ Len(s) + n \in DOMAIN (s \o t)
                                /\ (s \o t)[Len(s) + n] = t[n]
         /\ \A n \in DOMAIN (s \o t) :
              \/ n \in DOMAIN s
              \/ n > Len(s) /\ \E m \in DOMAIN t : (s \o t)[n] = t[m]
<1>1. /\ s \o t \in Seq(S)
      /\ Len(s \o t) = Len(s) + Len(t)
      /\ \A i \in 1 .. Len(s) + Len(t) :
           (s \o t)[i] = IF i <= Len(s) THEN s[i] ELSE t[i - Len(s)]
  BY ConcatProperties
<1>2. /\ DOMAIN s = 1 .. Len(s) /\ Len(s) \in Nat
      /\ DOMAIN t = 1 .. Len(t) /\ Len(t) \in Nat
      /\ DOMAIN (s \o t) = 1 .. Len(s \o t)
  BY <1>1, LenProperties
<1>3. ASSUME NEW n \in DOMAIN (s \o t), n \notin DOMAIN s
      PROVE  n > Len(s) /\ \E m \in DOMAIN t : (s \o t)[n] = t[m]
  <2>1. n - Len(s) \in DOMAIN t /\ n > Len(s)
    BY <1>1, <1>2, <1>3
  <2>2. (s \o t)[n] = t[n - Len(s)]
    BY <1>1, <1>2, <2>1
  <2> QED
    BY <2>1, <2>2
<1>4. ASSUME NEW n \in DOMAIN t
      PROVE  Len(s) + n \in DOMAIN (s \o t) /\ (s \o t)[Len(s) + n] = t[n]
  BY <1>1, <1>2
<1> QED
  BY <1>1, <1>2, <1>3, <1>4

Elements(f) == {f[n] : n \in DOMAIN f}

AllStatements ==
  UNION {Elements(MigrationV1), Elements(ExtensionMigration),
         Elements(SeedUsers), Elements(SeedHubs), Elements(EnsureSchema)}

LEMMA PartsOfScript ==
  /\ MigrationV1 \in Seq(AllStatements) /\ Len(MigrationV1) = 5
  /\ ExtensionMigration \in Seq(AllStatements)
  /\ SeedUsers \in Seq(AllStatements)
  /\ SeedHubs \in Seq(AllStatements)
  /\ EnsureSchema \in Seq(AllStatements)
<1>2. \A S, f : f \in Seq(S) /\ Elements(f) \subseteq AllStatements =>
        f \in Seq(AllStatements)
  <2> TAKE S, f
  <2>1. SUFFICES ASSUME f \in Seq(S), Elements(f) \subseteq AllStatements
                 PROVE  f \in Seq(AllStatements)
    OBVIOUS
  <2>2. DOMAIN f = 1 .. Len(f) /\ Len(f) \in Nat /\ f = [n \in DOMAIN f |-> f[n]]
    BY <2>1
  <2>3. \A n \in DOMAIN f : f[n] \in AllStatements
    BY <2>1 DEF Elements
  <2>4. f \in [1 .. Len(f) -> AllStatements]
    BY <2>2, <2>3
  <2> QED
    BY <2>2, <2>4, SeqDef
<1>3. /\ Elements(MigrationV1) \subseteq AllStatements
      /\ Elements(ExtensionMigration) \subseteq AllStatements
      /\ Elements(SeedUsers) \subseteq AllStatements
      /\ Elements(SeedHubs) \subseteq AllStatements
      /\ Elements(EnsureSchema) \subseteq AllStatements
  BY DEF AllStatements
<1>4. \E S : MigrationV1 \in Seq(S)
  <2> DEFINE S == {Create("schema_migrations"), Create("users"), Create("sessions"),
                   Create("business tables"), Insert("schema_migrations", "version 1")}
  <2>1. MigrationV1 \in Seq(S)
    BY DEF MigrationV1
  <2> QED
    BY <2>1
<1>5. Len(MigrationV1) = 5
  BY DEF MigrationV1
<1>6. \E S : ExtensionMigration \in Seq(S)
  <2> DEFINE S == {Create("maintenance_tasks"),
                   AddColumn("inspections.priority"),
                   AddColumn("transfer_plans.segment_count"),
                   AddColumn("sorting_waves.profile"),
                   AddColumn("sorting_waves.closes_at"),
                   AddColumn("incidents.risk_score")}
  <2>1. ExtensionMigration \in Seq(S)
    BY DEF ExtensionMigration
  <2> QED
    BY <2>1
<1>7. \E S : SeedUsers \in Seq(S)
  <2> DEFINE F(n) == Statement("user", UserNames[n], {"users"})
             S == {F(n) : n \in DOMAIN UserNames}
  <2>1. DOMAIN UserNames = 1 .. Len(UserNames) /\ Len(UserNames) \in Nat
    BY LifecycleAssumption
  <2>2. SeedUsers = [n \in 1 .. Len(UserNames) |-> F(n)]
    BY <2>1 DEF SeedUsers
  <2> HIDE DEF F
  <2>3. SeedUsers \in [1 .. Len(UserNames) -> S]
    BY <2>1, <2>2
  <2> QED
    BY <2>1, <2>3, SeqDef
<1>8. \E S : SeedHubs \in Seq(S)
  <2>1. SeedHubs \in Seq({Insert("business tables", "seeded hubs")})
    BY DEF SeedHubs
  <2> QED
    BY <2>1
<1>9. \E S : EnsureSchema \in Seq(S)
  <2>1. EnsureSchema \in Seq({Create("runtime flow tables")})
    BY DEF EnsureSchema
  <2> QED
    BY <2>1
<1> QED
  BY <1>2, <1>3, <1>4, <1>5, <1>6, <1>7, <1>8, <1>9

\* What runs after the first five statements needs their tables only, and
\* inserts users that are users.
LaterOK(s) ==
  /\ s.needs \subseteq {"users", "business tables"}
  /\ s.kind = "user" => s.object \in Users

LEMMA LaterParts ==
  /\ \A n \in DOMAIN ExtensionMigration : LaterOK(ExtensionMigration[n])
  /\ \A n \in DOMAIN SeedUsers : LaterOK(SeedUsers[n])
  /\ \A n \in DOMAIN SeedHubs : LaterOK(SeedHubs[n])
  /\ \A n \in DOMAIN EnsureSchema : LaterOK(EnsureSchema[n])
<1>1. \A n \in DOMAIN ExtensionMigration : LaterOK(ExtensionMigration[n])
  <2>1. \A o : LaterOK(Create(o)) /\ LaterOK(AddColumn(o))
    BY DEF LaterOK, Create, AddColumn, Statement
  <2>2. DOMAIN ExtensionMigration = 1 .. 6
    BY DEF ExtensionMigration
  <2> QED
    BY <2>1, <2>2 DEF ExtensionMigration
<1>2. \A n \in DOMAIN SeedUsers : LaterOK(SeedUsers[n])
  BY ServerAssumption DEF SeedUsers, LaterOK, Statement
<1>3. \A n \in DOMAIN SeedHubs : LaterOK(SeedHubs[n])
  <2>1. LaterOK(Insert("business tables", "seeded hubs"))
    BY DEF LaterOK, Insert, Statement
  <2>2. DOMAIN SeedHubs = 1 .. 1
    BY DEF SeedHubs
  <2>3. SeedHubs[1] = Insert("business tables", "seeded hubs")
    BY DEF SeedHubs
  <2>4. \A n \in 1 .. 1 : n = 1
    OBVIOUS
  <2> QED
    BY <2>1, <2>2, <2>3, <2>4
<1>4. \A n \in DOMAIN EnsureSchema : LaterOK(EnsureSchema[n])
  <2>1. LaterOK(Create("runtime flow tables"))
    BY DEF LaterOK, Create, Statement
  <2>2. DOMAIN EnsureSchema = 1 .. 1
    BY DEF EnsureSchema
  <2>3. EnsureSchema[1] = Create("runtime flow tables")
    BY DEF EnsureSchema
  <2>4. \A n \in 1 .. 1 : n = 1
    OBVIOUS
  <2> QED
    BY <2>1, <2>2, <2>3, <2>4
<1> QED
  BY <1>1, <1>2, <1>3, <1>4

LEMMA ConcatLater ==
  ASSUME NEW s \in Seq(AllStatements), NEW t \in Seq(AllStatements),
         \A n \in DOMAIN t : LaterOK(t[n])
  PROVE  /\ s \o t \in Seq(AllStatements)
         /\ \A n \in DOMAIN s : n \in DOMAIN (s \o t) /\ (s \o t)[n] = s[n]
         /\ \A m \in DOMAIN t : \E n \in DOMAIN (s \o t) : (s \o t)[n] = t[m]
         /\ \A n \in DOMAIN (s \o t) : n \in DOMAIN s \/ LaterOK((s \o t)[n])
<1> DEFINE st == s \o t
<1>1. /\ st \in Seq(AllStatements)
      /\ \A n \in DOMAIN s : n \in DOMAIN st /\ st[n] = s[n]
      /\ \A n \in DOMAIN t : Len(s) + n \in DOMAIN st /\ st[Len(s) + n] = t[n]
      /\ \A n \in DOMAIN st :
           \/ n \in DOMAIN s
           \/ n > Len(s) /\ \E m \in DOMAIN t : st[n] = t[m]
  BY ConcatParts
<1> HIDE DEF st
<1>2. \A m \in DOMAIN t : \E n \in DOMAIN st : st[n] = t[m]
  BY <1>1
<1>3. \A n \in DOMAIN st : n \in DOMAIN s \/ LaterOK(st[n])
  BY <1>1
<1> QED
  BY <1>1, <1>2, <1>3 DEF st

LEMMA ScriptShape ==
  /\ Len(Script) \in Nat
  /\ DOMAIN Script = 1 .. Len(Script)
  /\ Len(Script) >= 5
  /\ \A n \in 1 .. 5 : Script[n] = MigrationV1[n]
  /\ \A n \in DOMAIN Script : n > 5 => LaterOK(Script[n])
  /\ \A m \in DOMAIN SeedUsers : \E n \in DOMAIN Script : Script[n] = SeedUsers[m]
<1> DEFINE s2 == MigrationV1 \o ExtensionMigration
           s3 == s2 \o SeedUsers
           s4 == s3 \o SeedHubs
<1>1. Script = s4 \o EnsureSchema
  BY DEF Script
<1>2. /\ s2 \in Seq(AllStatements)
      /\ \A n \in DOMAIN MigrationV1 : n \in DOMAIN s2 /\ s2[n] = MigrationV1[n]
      /\ \A n \in DOMAIN s2 :
           n \in DOMAIN MigrationV1 \/ LaterOK(s2[n])
  BY PartsOfScript, ConcatLater, LaterParts
<1> HIDE DEF s2
<1>3. /\ s3 \in Seq(AllStatements)
      /\ \A n \in DOMAIN s2 : n \in DOMAIN s3 /\ s3[n] = s2[n]
      /\ \A m \in DOMAIN SeedUsers : \E n \in DOMAIN s3 : s3[n] = SeedUsers[m]
      /\ \A n \in DOMAIN s3 : n \in DOMAIN s2 \/ LaterOK(s3[n])
  BY PartsOfScript, ConcatLater, LaterParts, <1>2
<1> HIDE DEF s3
<1>4. /\ s4 \in Seq(AllStatements)
      /\ \A n \in DOMAIN s3 : n \in DOMAIN s4 /\ s4[n] = s3[n]
      /\ \A n \in DOMAIN s4 : n \in DOMAIN s3 \/ LaterOK(s4[n])
  BY PartsOfScript, ConcatLater, LaterParts, <1>3
<1> HIDE DEF s4
<1>5. /\ Script \in Seq(AllStatements)
      /\ \A n \in DOMAIN s4 : n \in DOMAIN Script /\ Script[n] = s4[n]
      /\ \A n \in DOMAIN Script : n \in DOMAIN s4 \/ LaterOK(Script[n])
  BY PartsOfScript, ConcatLater, LaterParts, <1>1, <1>4
<1>6. DOMAIN MigrationV1 = 1 .. 5
  BY DEF MigrationV1
<1>7. DOMAIN Script = 1 .. Len(Script) /\ Len(Script) \in Nat
  BY <1>5
<1>8. \A n \in 1 .. 5 : n \in DOMAIN Script /\ Script[n] = MigrationV1[n]
  BY <1>2, <1>3, <1>4, <1>5, <1>6
<1>9. Len(Script) >= 5
  BY <1>7, <1>8
<1>10. ASSUME NEW n \in DOMAIN Script, n > 5
       PROVE  LaterOK(Script[n])
  <2>1. n \notin DOMAIN MigrationV1
    BY <1>6, <1>10
  <2> QED
    BY <1>2, <1>3, <1>4, <1>5, <2>1
<1>11. \A m \in DOMAIN SeedUsers : \E n \in DOMAIN Script : Script[n] = SeedUsers[m]
  BY <1>3, <1>4, <1>5
<1> QED
  BY <1>7, <1>8, <1>9, <1>10, <1>11

\* Whatever a statement needs, an earlier one has made.
LEMMA NeedsComeFirst ==
  ASSUME NEW n \in DOMAIN Script, NEW x \in Script[n].needs
  PROVE  \E m \in DOMAIN Script : m < n /\ Script[m].object = x
<1>1. /\ MigrationV1[1] = Create("schema_migrations")
      /\ MigrationV1[2] = Create("users")
      /\ MigrationV1[3] = Create("sessions")
      /\ MigrationV1[4] = Create("business tables")
      /\ MigrationV1[5] = Insert("schema_migrations", "version 1")
  BY DEF MigrationV1
<1>2. /\ \A k \in 1 .. 4 : MigrationV1[k].needs = {}
      /\ MigrationV1[1].object = "schema_migrations"
      /\ MigrationV1[2].object = "users"
      /\ MigrationV1[4].object = "business tables"
      /\ MigrationV1[5].needs = {"schema_migrations"}
  <2>1. \A o : Create(o).needs = {} /\ Create(o).object = o
    BY DEF Create, Statement
  <2>2. Insert("schema_migrations", "version 1").needs = {"schema_migrations"}
    BY DEF Insert, Statement
  <2>3. \A k \in 1 .. 4 : MigrationV1[k].needs = {}
    <3> TAKE k \in 1 .. 4
    <3>1. k = 1 \/ k = 2 \/ k = 3 \/ k = 4
      OBVIOUS
    <3> QED
      BY <1>1, <2>1, <3>1
  <2> QED
    BY <1>1, <2>1, <2>2, <2>3
<1>3. /\ 1 \in DOMAIN Script /\ 2 \in DOMAIN Script /\ 4 \in DOMAIN Script
      /\ Script[1] = MigrationV1[1]
      /\ Script[2] = MigrationV1[2]
      /\ Script[4] = MigrationV1[4]
      /\ n \in Nat
  BY ScriptShape
<1>4. CASE n > 5
  <2>1. x \in {"users", "business tables"}
    BY <1>4, ScriptShape DEF LaterOK
  <2>2. 2 < n /\ 4 < n
    BY <1>4, ScriptShape
  <2>3. Script[2].object = "users" /\ Script[4].object = "business tables"
    BY <1>2, <1>3, Zenon
  <2> QED
    BY <1>3, <2>1, <2>2, <2>3
<1>5. CASE n = 5
  <2>1. x = "schema_migrations"
    <3>1. Script[5] = MigrationV1[5]
      BY ScriptShape
    <3> QED
      <4>1. Script[n].needs = {"schema_migrations"}
        BY <1>2, <1>5, <3>1, Zenon
      <4> QED
        BY <4>1
  <2>2. 1 < n
    BY <1>5
  <2>3. Script[1].object = "schema_migrations"
    BY <1>2, <1>3, Zenon
  <2> QED
    BY <1>3, <2>1, <2>2, <2>3
<1>6. CASE n \in 1 .. 4
  <2>1. Script[n] = MigrationV1[n]
    BY <1>6, ScriptShape
  <2> QED
    BY <1>2, <1>6, <2>1
<1> QED
  BY <1>4, <1>5, <1>6, ScriptShape

LEMMA UserStatements ==
  /\ \A n \in DOMAIN Script : Script[n].kind = "user" => Script[n].object \in Users
  /\ \A u \in Users : \E n \in DOMAIN Script :
       Script[n].kind = "user" /\ Script[n].object = u
<1>1. ASSUME NEW n \in DOMAIN Script, Script[n].kind = "user"
      PROVE  Script[n].object \in Users
  <2>1. n > 5 \/ n \in 1 .. 5
    BY ScriptShape
  <2>2. CASE n > 5
    BY <1>1, <2>2, ScriptShape DEF LaterOK
  <2>3. CASE n \in 1 .. 5
    <3>1. \A k \in 1 .. 5 : MigrationV1[k].kind # "user"
      <4>1. \A o : Create(o).kind = "create" /\ Insert("schema_migrations", o).kind = "insert"
        BY DEF Create, Insert, Statement
      <4> TAKE k \in 1 .. 5
      <4>2. \/ \E o : MigrationV1[k] = Create(o)
            \/ \E o : MigrationV1[k] = Insert("schema_migrations", o)
        <5>1. k = 1 \/ k = 2 \/ k = 3 \/ k = 4 \/ k = 5
          OBVIOUS
        <5>2. /\ MigrationV1[1] = Create("schema_migrations")
              /\ MigrationV1[2] = Create("users")
              /\ MigrationV1[3] = Create("sessions")
              /\ MigrationV1[4] = Create("business tables")
              /\ MigrationV1[5] = Insert("schema_migrations", "version 1")
          BY DEF MigrationV1
        <5> QED
          BY <5>1, <5>2
      <4> QED
        BY <4>1, <4>2
    <3> QED
      BY <1>1, <2>3, <3>1, ScriptShape
  <2> QED
    BY <2>1, <2>2, <2>3
<1>2. ASSUME NEW u \in Users
      PROVE  \E n \in DOMAIN Script :
               Script[n].kind = "user" /\ Script[n].object = u
  <2>1. PICK m \in DOMAIN UserNames : u = UserNames[m]
    BY ServerAssumption
  <2>2. m \in DOMAIN SeedUsers /\ SeedUsers[m].kind = "user" /\ SeedUsers[m].object = u
    BY <2>1 DEF SeedUsers, Statement
  <2> QED
    BY <2>2, ScriptShape
<1> QED
  BY <1>1, <1>2

-----------------------------------------------------------------------------
(* Each step of the process.                                               *)

LEMMA SessionsUntouched ==
  ASSUME SessionsInv, UNCHANGED sessionVars
  PROVE  SessionsInv' /\ UsersKept /\ InFlight' = InFlight
<1>1. UNCHANGED <<now, users, sessions, pc, req, local, reply>>
  BY DEF sessionVars
<1>2. SessionsTypeOK'
  BY <1>1 DEF SessionsInv, SessionsTypeOK
<1>3. UsersWhole'
  BY <1>1 DEF SessionsInv, UsersWhole
<1>4. now <= now'
  BY <1>1 DEF SessionsInv, SessionsTypeOK
<1>5. UsersKept
  BY <1>1 DEF UsersKept, Present
<1>6. InFlight' = InFlight
  BY <1>1 DEF InFlight
<1> QED
  BY <1>1, <1>2, <1>3, <1>4, <1>5, <1>6, NoRequestMoves

LEMMA RanKept ==
  ASSUME UsersKept, disk \subseteq disk', NEW n \in DOMAIN Script, Ran(n)
  PROVE  Ran(n)'
BY DEF Ran, UsersKept, Present

\* A start that has come to a statement finds what the statement needs.
LEMMA NothingIsRefused ==
  ASSUME ServerInv, NEW s, Running(s)
  PROVE  Fails(s) => Tolerated(s)
<1>1. /\ phase = "starting"
      /\ step \in DOMAIN Script
      /\ s = Script[step]
  BY ScriptShape DEF ServerInv, LifecycleInv, LifecycleTypeOK, Running
<1>2. s.needs \subseteq disk
  <2>1. SUFFICES ASSUME NEW x \in s.needs
                 PROVE  x \in disk
    OBVIOUS
  <2>2. PICK m \in DOMAIN Script : m < step /\ Script[m].object = x
    BY <1>1, NeedsComeFirst
  <2>3. Ran(m)
    BY <1>1, <2>2 DEF ServerInv, ScriptInv
  <2> QED
    BY <2>2, <2>3 DEF Ran
<1> QED
  BY <1>2 DEF Fails, Tolerated

LEMMA BootKeeps ==
  ASSUME ServerInv, Boot, UNCHANGED sessionVars
  PROVE  ServerInv'
<1>1. SessionsInv' /\ InFlight' = InFlight
  BY SessionsUntouched DEF ServerInv
<1>2. LifecycleInv'
  <2>1. 1 \in 1 .. Len(Script) + 1
    BY ScriptShape
  <2> QED
    BY <2>1, LifecycleAssumption
    DEF ServerInv, LifecycleInv, LifecycleTypeOK, Boot, background
<1>3. ScriptInv'
  BY ScriptShape DEF Boot, ScriptInv
<1>4. RequestsInv'
  BY <1>1 DEF ServerInv, RequestsInv, Boot
<1> QED
  BY <1>1, <1>2, <1>3, <1>4 DEF ServerInv

LEMMA RunStatementKeeps ==
  ASSUME ServerInv, NEW s \in Statements, RunStatement(s),
         IF s.kind = "user" THEN SeedUser(s.object, boots) ELSE UNCHANGED sessionVars
  PROVE  ServerInv'
<1>1. /\ phase = "starting" /\ phase' = phase
      /\ step \in DOMAIN Script /\ step' = step + 1
      /\ s = Script[step]
      /\ disk' = disk \cup {s.object}
      /\ UNCHANGED <<boots, refused, stopping, late, canceled, loops, inHand,
                     handlers, dbOpen>>
  BY ScriptShape
  DEF ServerInv, LifecycleInv, LifecycleTypeOK, Running, RunStatement, background
<1>2. boots \in Nat
  BY LifecycleAssumption DEF ServerInv, LifecycleInv, LifecycleTypeOK
<1>3. /\ SessionsInv' /\ UsersKept /\ InFlight' = InFlight
      /\ s.kind = "user" => Present(s.object)'
  <2>1. CASE s.kind = "user"
    <3>1. s.object \in Users
      BY <1>1, <2>1, UserStatements
    <3>2. InFlight' = InFlight
      BY <2>1 DEF SeedUser, InFlight
    <3> QED
      BY <1>2, <2>1, <3>1, <3>2, SeedUserKeeps DEF ServerInv
  <2>2. CASE s.kind # "user"
    BY <2>2, SessionsUntouched DEF ServerInv
  <2> QED
    BY <2>1, <2>2
<1>4. LifecycleInv'
  <2>1. step + 1 \in 1 .. Len(Script) + 1
    BY <1>1, ScriptShape
  <2>2. disk \cup {s.object} \subseteq Objects
    BY DEF Objects, ServerInv, LifecycleInv, LifecycleTypeOK
  <2> QED
    BY <1>1, <2>1, <2>2 DEF ServerInv, LifecycleInv, LifecycleTypeOK
<1>5. ScriptInv'
  <2>1. ASSUME NEW n \in DOMAIN Script, n < step'
        PROVE  Ran(n)'
    <3>1. n < step \/ n = step
      BY <1>1, <2>1, ScriptShape
    <3>2. CASE n < step
      <4>1. Ran(n)
        BY <1>1, <3>2 DEF ServerInv, ScriptInv
      <4> QED
        BY <1>1, <1>3, <4>1, RanKept
    <3>3. CASE n = step
      BY <1>1, <1>3, <3>3 DEF Ran
    <3> QED
      BY <3>1, <3>2, <3>3
  <2> QED
    BY <1>1, <2>1 DEF ScriptInv
<1>6. RequestsInv'
  BY <1>1, <1>3 DEF ServerInv, RequestsInv
<1> QED
  BY <1>3, <1>4, <1>5, <1>6 DEF ServerInv

LEMMA StartServingKeeps ==
  ASSUME ServerInv, StartServing, UNCHANGED sessionVars
  PROVE  ServerInv'
<1>1. SessionsInv' /\ UsersKept /\ InFlight' = InFlight
  BY SessionsUntouched DEF ServerInv
<1>2. /\ phase = "starting" /\ step > Len(Script) /\ phase' = "serving"
      /\ loops' = {"worker", "runner"}
      /\ UNCHANGED <<step, disk, boots, refused, stopping, late, canceled, inHand,
                     handlers, dbOpen>>
  BY DEF StartServing
<1>3. LifecycleInv'
  BY <1>2 DEF ServerInv, LifecycleInv, LifecycleTypeOK
<1>4. ScriptInv'
  <2>1. ASSUME NEW n \in DOMAIN Script
        PROVE  Ran(n)'
    <3>1. n < step
      BY <1>2, ScriptShape DEF ServerInv, LifecycleInv, LifecycleTypeOK
    <3>2. Ran(n)
      BY <1>2, <3>1 DEF ServerInv, ScriptInv
    <3> QED
      BY <1>1, <1>2, <3>2, RanKept
  <2> QED
    BY <1>2, <2>1 DEF ScriptInv
<1>5. RequestsInv'
  BY <1>2 DEF RequestsInv
<1> QED
  BY <1>1, <1>3, <1>4, <1>5 DEF ServerInv

\* The process is gone, with its requests.
LEMMA GoneKeeps ==
  ASSUME ServerInv, Gone(FALSE), SessionsInv', InFlight' = {}
  PROVE  ServerInv'
<1>1. LifecycleInv'
  <2>1. 1 \in 1 .. Len(Script) + 1
    BY ScriptShape
  <2>2. refused' = FALSE
    BY DEF ServerInv, LifecycleInv, LifecycleTypeOK, Gone
  <2>3. 0 \in 0 .. Batch /\ 0 \in 0 .. Slots
    BY LifecycleAssumption
  <2>4. disk \subseteq Objects /\ boots \in 0 .. MaxBoots
    BY DEF ServerInv, LifecycleInv, LifecycleTypeOK
  <2>5. /\ phase' = "off" /\ step' = 1 /\ disk' = disk /\ boots' = boots
        /\ stopping' = FALSE /\ late' = FALSE /\ canceled' = FALSE
        /\ loops' = {} /\ inHand' = 0 /\ handlers' = 0 /\ dbOpen' = FALSE
    BY DEF Gone
  <2> QED
    BY <2>1, <2>2, <2>3, <2>4, <2>5 DEF LifecycleInv, LifecycleTypeOK
<1>2. ScriptInv' /\ RequestsInv'
  BY DEF Gone, ScriptInv, RequestsInv
<1> QED
  BY <1>1, <1>2 DEF ServerInv

LEMMA StartFails ==
  ASSUME ServerInv, StatementRefused \/ StatementCanceled \/ StatementFaults,
         UNCHANGED sessionVars
  PROVE  ServerInv'
<1>1. ~StatementRefused
  BY NothingIsRefused DEF StatementRefused
<1>2. phase = "starting" /\ Gone(FALSE)
  BY <1>1 DEF StatementCanceled, StatementFaults
<1>3. SessionsInv' /\ InFlight' = {}
  BY <1>2, SessionsUntouched DEF ServerInv, RequestsInv
<1> QED
  BY <1>2, <1>3, GoneKeeps

LEMMA EndKeeps ==
  ASSUME ServerInv, Exit \/ Crash, LoseRequests
  PROVE  ServerInv'
<1>1. Gone(FALSE)
  BY DEF Exit, Crash
<1> QED
  BY <1>1, GoneKeeps, LoseRequestsKeeps DEF ServerInv

\* The process goes on, and neither the script nor a request is concerned.
LEMMA ProcessMoves ==
  ASSUME ServerInv, UNCHANGED sessionVars, LifecycleInv', disk' = disk, step' = step,
         phase' = "starting" => phase = "starting",
         phase' \notin {"off", "starting"} => phase \notin {"off", "starting"},
         phase' = "off" => phase = "off",
         phase' \in {"waitWorker", "waitRunner", "exiting"} /\ InFlight # {} => late',
         late' => late \/ phase' \notin {"off", "starting"}
  PROVE  ServerInv'
<1>1. SessionsInv' /\ UsersKept /\ InFlight' = InFlight
  BY SessionsUntouched DEF ServerInv
<1>2. \A n \in DOMAIN Script : Ran(n) => Ran(n)'
  BY <1>1, RanKept
<1>3. ScriptInv'
  BY <1>2 DEF ServerInv, ScriptInv
<1>4. RequestsInv'
  BY <1>1 DEF ServerInv, RequestsInv
<1> QED
  BY <1>1, <1>3, <1>4 DEF ServerInv

LEMMA BackgroundKeeps ==
  ASSUME ServerInv, UNCHANGED sessionVars,
         RunnerClaims \/ RunnerStartsHandler \/ RunnerEnds \/ HandlerReturns
  PROVE  ServerInv'
<1> USE DEF ServerInv, LifecycleInv, LifecycleTypeOK
<1>1. UNCHANGED <<phase, step, disk, boots, refused, stopping, late, canceled, dbOpen>>
  BY DEF RunnerClaims, RunnerStartsHandler, RunnerEnds, HandlerReturns
<1>2. Batch \in Nat /\ Slots \in Nat
  BY LifecycleAssumption
<1>3. LifecycleInv'
  <2>1. CASE RunnerClaims
    BY <1>1, <1>2, <2>1 DEF RunnerClaims
  <2>2. CASE RunnerStartsHandler
    <3>1. inHand > 0 /\ inHand' = inHand - 1 /\ loops' = loops
      BY <2>2 DEF RunnerStartsHandler
    <3>2. handlers' \in 0 .. Slots
      BY <1>2, <2>2 DEF RunnerStartsHandler
    <3>3. "runner" \in loops /\ phase \notin {"off", "starting", "exiting"}
      BY <3>1
    <3> QED
      BY <1>1, <1>2, <3>1, <3>2, <3>3
  <2>3. CASE RunnerEnds
    BY <1>1, <2>3 DEF RunnerEnds
  <2>4. CASE HandlerReturns
    BY <1>1, <1>2, <2>4 DEF HandlerReturns
  <2> QED
    BY <2>1, <2>2, <2>3, <2>4
<1>4. phase' \in {"waitWorker", "waitRunner", "exiting"} /\ InFlight # {} => late'
  BY <1>1 DEF RequestsInv
<1> QED
  BY <1>1, <1>3, <1>4, ProcessMoves

LEMMA ShutdownKeeps ==
  ASSUME ServerInv, UNCHANGED sessionVars,
         \/ StopRequested
         \/ BeginShutdown
         \/ EndDraining(InFlight = {})
         \/ WorkerWaited
         \/ RunnerWaited
  PROVE  ServerInv'
<1> USE DEF ServerInv, LifecycleInv, LifecycleTypeOK, background, Move
<1>1. CASE StopRequested
  <2>1. LifecycleInv' /\ phase' = phase /\ late' = late /\ disk' = disk /\ step' = step
    BY <1>1 DEF StopRequested
  <2>2. phase' \in {"waitWorker", "waitRunner", "exiting"} /\ InFlight # {} => late'
    BY <2>1 DEF RequestsInv
  <2> QED
    BY <2>1, <2>2, ProcessMoves
<1>2. CASE BeginShutdown
  <2>1. /\ LifecycleInv' /\ disk' = disk /\ step' = step
        /\ phase = "serving" /\ phase' = "draining"
    BY <1>2 DEF BeginShutdown
  <2> QED
    BY <2>1, ProcessMoves
<1>3. CASE EndDraining(InFlight = {})
  <2>1. /\ phase = "draining" /\ phase' = "waitWorker"
        /\ late' = ~(InFlight = {})
        /\ canceled' = TRUE
        /\ UNCHANGED <<step, disk, boots, refused, stopping, loops, inHand,
                       handlers, dbOpen>>
    BY <1>3 DEF EndDraining
  <2>2. late' \in BOOLEAN
    BY <2>1
  <2>3. LifecycleInv'
    BY <2>1, <2>2
  <2>4. InFlight # {} => late'
    BY <2>1
  <2> QED
    BY <2>1, <2>3, <2>4, ProcessMoves
<1>4. CASE WorkerWaited
  <2>1. /\ LifecycleInv' /\ disk' = disk /\ step' = step /\ late' = late
        /\ phase = "waitWorker" /\ phase' = "waitRunner"
    BY <1>4 DEF WorkerWaited
  <2>2. InFlight # {} => late'
    BY <2>1 DEF RequestsInv
  <2> QED
    BY <2>1, <2>2, ProcessMoves
<1>5. CASE RunnerWaited
  <2>1. /\ LifecycleInv' /\ disk' = disk /\ step' = step /\ late' = late
        /\ phase = "waitRunner" /\ phase' = "exiting"
    BY <1>5 DEF RunnerWaited
  <2>2. InFlight # {} => late'
    BY <2>1 DEF RequestsInv
  <2> QED
    BY <2>1, <2>2, ProcessMoves
<1> QED
  BY <1>1, <1>2, <1>3, <1>4, <1>5

-----------------------------------------------------------------------------
(* All together.                                                           *)

LEMMA RequestsKeep ==
  ASSUME ServerInv, Requests
  PROVE  ServerInv'
<1>1. PICK c \in Calls : (Arrive(c) \/ Handle(c)) /\ UNCHANGED lifecycleVars
  BY DEF Requests
<1>2. /\ UNCHANGED <<phase, step, disk, boots, refused, stopping, late, canceled,
                     loops, inHand, handlers, dbOpen>>
      /\ LifecycleInv'
  BY <1>1 DEF lifecycleVars, ServerInv, LifecycleInv, LifecycleTypeOK
<1>3. users' = users
  BY <1>1 DEF Arrive, Handle, StartLogin, StartUse, FindUser, SaveSession,
              Authenticate, Logout, ConfirmLogout, DoWork, DatabaseFault
<1>4. ScriptInv'
  <2>1. \A n \in DOMAIN Script : Ran(n) => Ran(n)'
    BY <1>2, <1>3 DEF Ran, Present
  <2> QED
    BY <1>2, <2>1 DEF ServerInv, ScriptInv
<1>5. CASE Arrive(c)
  <2>1. Accepts /\ (StartLogin(c) \/ StartUse(c))
    BY <1>5 DEF Arrive
  <2>2. SessionsInv'
    BY <2>1, StartLoginKeeps, StartUseKeeps DEF ServerInv
  <2>3. RequestsInv'
    BY <1>2, <2>1 DEF ServerInv, RequestsInv, Accepts
  <2> QED
    BY <1>2, <1>4, <2>2, <2>3 DEF ServerInv
<1>6. CASE Handle(c)
  <2>1. \/ FindUser(c) \/ SaveSession(c) \/ Authenticate(c) \/ Logout(c)
        \/ DoWork(c) \/ ConfirmLogout(c) \/ DatabaseFault(c)
    BY <1>6 DEF Handle
  <2>2. c \in InFlight
    BY <2>1 DEF FindUser, SaveSession, Authenticate, Logout, ConfirmLogout,
                DoWork, DatabaseFault, InFlight
  <2>3. \A u \in Users : Present(u)
    <3>1. phase \notin {"off", "starting"}
      BY <2>2 DEF ServerInv, RequestsInv
    <3> QED
      BY <3>1, UserStatements DEF ServerInv, ScriptInv, Ran
  <2>4. SessionsInv'
    BY <2>1, <2>3, FindUserKeeps, SaveSessionKeeps, AuthenticateKeeps, LogoutKeeps,
       ConfirmLogoutKeeps, DoWorkKeeps, DatabaseFaultKeeps
    DEF ServerInv
  <2>5. InFlight' \subseteq InFlight
    <3>1. \A d \in Calls \ {c} : pc'[d] = pc[d]
      BY <2>1, TypedParts
      DEF ServerInv, SessionsInv, FindUser, SaveSession, Authenticate, Logout,
          ConfirmLogout, DoWork, DatabaseFault, Refuse, Answer, Step
    <3> QED
      BY <2>2, <3>1 DEF InFlight
  <2>6. RequestsInv'
    BY <1>2, <2>5 DEF ServerInv, RequestsInv
  <2> QED
    BY <1>2, <1>4, <2>4, <2>6 DEF ServerInv
<1> QED
  BY <1>1, <1>5, <1>6

\* The clock, and a user who is disabled.
LEMMA RowsKeep ==
  ASSUME ServerInv, Tick \/ \E u \in Users : DisableUser(u), UNCHANGED lifecycleVars
  PROVE  ServerInv'
<1>1. /\ UNCHANGED <<phase, step, disk, boots, refused, stopping, late, canceled,
                     loops, inHand, handlers, dbOpen>>
      /\ LifecycleInv'
  BY DEF lifecycleVars, ServerInv, LifecycleInv, LifecycleTypeOK
<1>2. SessionsInv' /\ UsersKept
  BY TickKeeps, DisableUserKeeps DEF ServerInv
<1>3. InFlight' = InFlight
  BY DEF Tick, DisableUser, InFlight
<1>4. \A n \in DOMAIN Script : Ran(n) => Ran(n)'
  BY <1>1, <1>2, RanKept
<1>5. ScriptInv'
  BY <1>1, <1>4 DEF ServerInv, ScriptInv
<1>6. RequestsInv'
  BY <1>1, <1>3 DEF ServerInv, RequestsInv
<1> QED
  BY <1>1, <1>2, <1>5, <1>6 DEF ServerInv

LEMMA InitOK == Init => ServerInv
<1> SUFFICES ASSUME Init PROVE ServerInv
  OBVIOUS
<1> USE DEF Init, SessionsInit, LifecycleInit
<1>1. SessionsTypeOK
  BY DEF SessionsTypeOK, NoUser, NoSession, NoRequest, Request, NoReply
<1>2. UsersWhole
  BY DEF UsersWhole
<1>3. \A c \in Calls : RequestOK(c)
  <2> TAKE c \in Calls
  <2>1. pc[c] = "idle" /\ req[c] = NoRequest /\ reply[c] = NoReply
    OBVIOUS
  <2> QED
    BY <2>1
    DEF RequestOK, PlaceOK, ReplyOK, LogoutWon, IsGiven, NoRequest, Request, NoReply
<1>4. UniqueLogout
  BY DEF UniqueLogout, LogoutWon, NoRequest, Request
<1>5. LifecycleInv
  <2>1. 1 \in 1 .. Len(Script) + 1
    BY ScriptShape
  <2>2. 0 \in 0 .. MaxBoots /\ 0 \in 0 .. Batch /\ 0 \in 0 .. Slots
    BY LifecycleAssumption
  <2>3. LifecycleTypeOK
    BY <2>1, <2>2 DEF LifecycleTypeOK
  <2> QED
    BY <2>3 DEF LifecycleInv
<1>6. ScriptInv /\ RequestsInv
  BY DEF ScriptInv, RequestsInv, InFlight
<1> QED
  BY <1>1, <1>2, <1>3, <1>4, <1>5, <1>6 DEF ServerInv, SessionsInv

LEMMA NextKeepsInv == ServerInv /\ [Next]_vars => ServerInv'
<1> SUFFICES ASSUME ServerInv, [Next]_vars PROVE ServerInv'
  OBVIOUS
<1>1. CASE Startup
  <2>1. CASE (Boot \/ StartServing \/ StatementRefused \/ StatementCanceled)
             /\ UNCHANGED sessionVars
    BY <2>1, BootKeeps, StartServingKeeps, StartFails
  <2>2. CASE \E s \in Statements :
               /\ RunStatement(s)
               /\ IF s.kind = "user" THEN SeedUser(s.object, boots)
                                     ELSE UNCHANGED sessionVars
    BY <2>2, RunStatementKeeps
  <2> QED
    BY <1>1, <2>1, <2>2 DEF Startup
<1>2. CASE Requests
  BY <1>2, RequestsKeep
<1>3. CASE Runner \/ RunnerGoesOn \/ Handlers
  BY <1>3, BackgroundKeeps DEF Runner, RunnerGoesOn, Handlers
<1>4. CASE Main
  BY <1>4, ShutdownKeeps, EndKeeps DEF Main
<1>5. CASE Outside
  BY <1>5, ShutdownKeeps, StartFails, RowsKeep, EndKeeps DEF Outside
<1>6. CASE UNCHANGED vars
  <2>1. UNCHANGED sessionVars /\ UNCHANGED lifecycleVars
    BY <1>6 DEF vars
  <2>2. /\ UNCHANGED <<phase, step, disk, boots, refused, stopping, late, canceled,
                       loops, inHand, handlers, dbOpen>>
        /\ LifecycleInv'
    BY <2>1 DEF lifecycleVars, ServerInv, LifecycleInv, LifecycleTypeOK
  <2>3. phase' \in {"waitWorker", "waitRunner", "exiting"} /\ InFlight # {} => late'
    BY <2>2 DEF ServerInv, RequestsInv
  <2> QED
    BY <2>1, <2>2, <2>3, ProcessMoves
<1> QED
  BY <1>1, <1>2, <1>3, <1>4, <1>5, <1>6 DEF Next

LEMMA InvariantHolds == Spec => []ServerInv
BY InitOK, NextKeepsInv, PTL DEF Spec

(***************************************************************************)
(* Rows, requests and the process keep their shape, no more handlers run   *)
(* than there are slots, and nothing runs in a process that does not       *)
(* serve.                                                                  *)
(***************************************************************************)
THEOREM TypeCorrect == Spec => []TypeOK
<1>1. ServerInv => TypeOK
  BY DEF ServerInv, SessionsInv, LifecycleInv, RequestsInv, TypeOK,
         NothingRunsBeforeServing
<1> QED
  BY <1>1, InvariantHolds, PTL

(***************************************************************************)
(* Once a client was told that a session is over, no request that comes    *)
(* later gets in with its token, whatever restarts come between.           *)
(***************************************************************************)
THEOREM EndedForGood == Spec => []EndedSessionAdmitsNobody
<1>1. ServerInv => EndedSessionAdmitsNobody
  BY DEF ServerInv, SessionsInv, RequestOK, ReplyOK, EndedSessionAdmitsNobody
<1> QED
  BY <1>1, InvariantHolds, PTL

(***************************************************************************)
(* A restart ends no session, and a login with good credentials succeeds:  *)
(* unless a statement failed, a refusal has its reason in the database, at *)
(* that time and ever after.                                               *)
(***************************************************************************)
THEOREM RefusalsHaveReasons == Spec => []RefusedOnlyIfEnded
<1>1. ServerInv => RefusedOnlyIfEnded
  BY DEF ServerInv, SessionsInv, RequestOK, ReplyOK, RefusedOnlyIfEnded
<1> QED
  BY <1>1, InvariantHolds, PTL

(***************************************************************************)
(* However many logouts of one session race, at most one of them is told   *)
(* that it ended the session, and then the session is over.                *)
(***************************************************************************)
THEOREM LogoutWinsOnce == Spec => []OneLogoutWins
<1>1. ServerInv => OneLogoutWins
  BY DEF ServerInv, SessionsInv, RequestOK, ReplyOK, UniqueLogout, LogoutWon,
         OneLogoutWins
<1> QED
  BY <1>1, InvariantHolds, PTL

(***************************************************************************)
(* The database is closed when every goroutine has ended, and under a      *)
(* request only after the deadline.                                        *)
(***************************************************************************)
THEOREM ClosedInOrder == Spec => []CloseIsOrderly
<1>1. ServerInv => CloseIsOrderly
  <2> SUFFICES ASSUME ServerInv, phase = "exiting" PROVE CloseIsOrderly
    BY DEF CloseIsOrderly
  <2>1. loops = {}
    BY DEF ServerInv, LifecycleInv, LifecycleTypeOK
  <2> QED
    BY <2>1 DEF ServerInv, LifecycleInv, RequestsInv, CloseIsOrderly
<1> QED
  BY <1>1, InvariantHolds, PTL

(***************************************************************************)
(* Wherever earlier starts died, the script goes through, for any list of  *)
(* users, and a process that serves has the whole schema and its seed.     *)
(***************************************************************************)
THEOREM StartsAgain == Spec => []StartupIsRestartable
<1>1. ServerInv => StartupIsRestartable
  <2> SUFFICES ASSUME ServerInv PROVE StartupIsRestartable
    OBVIOUS
  <2>1. ASSUME phase \notin {"off", "starting"}
        PROVE  disk = Objects
    <3>1. \A n \in DOMAIN Script : Script[n].object \in disk
      BY <2>1 DEF ServerInv, ScriptInv, Ran
    <3>2. Objects \subseteq disk
      BY <3>1 DEF Objects, Statements
    <3> QED
      BY <3>2 DEF ServerInv, LifecycleInv, LifecycleTypeOK
  <2> QED
    BY <2>1 DEF StartupIsRestartable, ServerInv, LifecycleInv
<1> QED
  BY <1>1, InvariantHolds, PTL

=============================================================================
