------------------------ MODULE BusinessRepliesProofs ------------------------
(***************************************************************************)
(* More theorems about BusinessFlow: what its callers are told, what a key *)
(* stands for, who completes an object and what ends for good.             *)
(***************************************************************************)
EXTENDS BusinessFlowProofs, FiniteSetTheorems

-----------------------------------------------------------------------------
(* The invariant, next to LogInv.  It ties each call to its trace, each    *)
(* row and record to the create that made them, and the audit trail to     *)
(* the outbox.                                                             *)

\* A handler has asked for the permission; Cancel asks for none.
Allowed(c) ==
  /\ pc[c] \in {"create", "insert"} => Can(RoleOf[req[c].actor], "plan")
  /\ pc[c] \in {"transition", "update"} =>
       \/ Can(RoleOf[req[c].actor], TransitionAction(req[c].target))
       \/ req[c].target = "canceled"

HoldsItsVersion(c) == pc[c] = "update" => local[c].row.version = req[c].expected

StillFinds(c) ==
  "DeleteDraft" \notin Uncalled /\ pc[c] \in {"update", "reread"} => Found(c)

\* A row is what the create that made it asked for.
OwnRow(c) ==
  c \in Issued =>
    /\ req[c].op = "create" /\ IdemKey(c) \in Kinds \X Keys
    /\ rows[c] # NoRow =>
         /\ rows[c].kind = req[c].kind
         /\ rows[c].payload = req[c].payload
         /\ rows[c].by = req[c].actor

Acknowledged(c) ==
  req[c].op = "create" /\ reply[c].code = "ok" =>
    LET i == reply[c].id
    IN  /\ i \in Issued
        /\ req[i].kind = req[c].kind
        /\ req[i].payload = req[c].payload
        /\ req[i].actor = req[c].actor

\* The one entry of a transition, and the event next to it.
TraceIs(c, n) ==
  /\ Traces(c) = {n}
  /\ outbox[n].id = req[c].id
  /\ outbox[n].to = req[c].target
  /\ outbox[n].version = req[c].expected + 1

Story(c) ==
  /\ pc[c] \notin {"reread", "done"} => Traces(c) = {}
  /\ "DeleteDraft" \notin Uncalled /\ reply[c].code \in Refusals => Traces(c) = {}
  /\ pc[c] = "reread" => \E n \in DOMAIN outbox : TraceIs(c, n)
  /\ reply[c].code = "ok" /\ req[c].op = "create" =>
       (Traces(c) # {} <=> reply[c].id = c)
  /\ reply[c].code = "ok" /\ req[c].op # "create" =>
       \E n \in DOMAIN outbox : TraceIs(c, n) /\ reply[c].version >= outbox[n].version

CallOK(c) ==
  /\ Allowed(c)
  /\ HoldsItsVersion(c)
  /\ StillFinds(c)
  /\ OwnRow(c)
  /\ Acknowledged(c)
  /\ Story(c)

\* A record names the create that wrote it.
RecordOK(k) ==
  idem[k] # NoRecord =>
    LET i == idem[k].id
    IN  i \in Issued /\ IdemKey(i) = k /\ Digest(req[i]) = idem[k].hash

RecordsOK == \A k \in Kinds \X Keys : RecordOK(k)

\* Without Prune every create that was committed keeps its key.
KeysAreKept ==
  "Prune" \notin Uncalled =>
    \A c \in Issued : idem[IdemKey(c)] # NoRecord /\ idem[IdemKey(c)].id = c

RowsStay == "DeleteDraft" \notin Uncalled => \A i \in Issued : rows[i] # NoRow

\* Every commit writes one entry and one event, about the same object.
HandInHand ==
  /\ Len(audit) = Len(outbox)
  /\ \A n \in DOMAIN audit : audit[n].id = outbox[n].id

Took(i, action) ==
  \E n \in DOMAIN audit : audit[n].id = i /\ Can(RoleOf[audit[n].actor], action)

RightsWereUsed ==
  \A i \in Calls :
    /\ rows[i] # NoRow => Took(i, "plan")
    /\ rows[i].status = StatusCompleted => Took(i, "complete")

FlowInv ==
  /\ LogInv
  /\ \A c \in Calls : CallOK(c)
  /\ RecordsOK
  /\ KeysAreKept
  /\ RowsStay
  /\ HandInHand
  /\ RightsWereUsed

-----------------------------------------------------------------------------
(* What a step does to the calls and to the tables.                        *)

Same(d) ==
  pc'[d] = pc[d] /\ req'[d] = req[d] /\ local'[d] = local[d] /\ reply'[d] = reply[d]

LEMMA Answers ==
  ASSUME TypeOK, NEW c \in Calls, NEW code, NEW i, NEW status, NEW version,
         Answer(c, code, i, status, version),
         \A d \in Calls \ {c} : req'[d] = req[d]
  PROVE  /\ pc'[c] = "done"
         /\ reply'[c].code = code /\ reply'[c].id = i /\ reply'[c].version = version
         /\ \A d \in Calls \ {c} : Same(d)
BY DEF Answer, TypeOK, Same

LEMMA Goes ==
  ASSUME TypeOK, NEW c \in Calls, NEW step, NEW mem, Step(c, step, mem),
         \A d \in Calls \ {c} : req'[d] = req[d]
  PROVE  /\ pc'[c] = step /\ local'[c] = mem /\ reply'[c] = reply[c]
         /\ \A d \in Calls \ {c} : Same(d)
BY DEF Step, TypeOK, Same

\* What keeps its row keeps what the row was made from.
RowsKept ==
  \A i \in Calls : rows[i] # NoRow =>
    \/ "DeleteDraft" \in Uncalled /\ rows'[i] = NoRow
    \/ /\ rows'[i] # NoRow
       /\ rows'[i].kind = rows[i].kind
       /\ rows'[i].payload = rows[i].payload
       /\ rows'[i].by = rows[i].by

EventsKept == \A n \in DOMAIN outbox : n \in DOMAIN outbox' /\ outbox'[n] = outbox[n]

\* Who is issued has left the steps at which a request may change.
LEMMA IssuedIsBusy ==
  ASSUME LogInv, NEW i \in Issued
  PROVE  i \in Calls /\ ~Unborn(i) /\ pc[i] # "idle"
BY IssuedAreCalls DEF LogInv, UnbornHasNoTrace, Unborn

LEMMA OthersKeep ==
  ASSUME FlowInv, NEW d \in Calls, Same(d), RowsKept, EventsKept,
         Issued \subseteq Issued', \A i \in Issued : req'[i] = req[i],
         d \in Issued' => d \in Issued, rows'[d] # NoRow => rows[d] # NoRow,
         Traces(d)' = Traces(d)
  PROVE  CallOK(d)'
<1>1. CallOK(d) /\ LogInv /\ TypeOK
  BY DEF FlowInv, LogInv
<1>2. Allowed(d)' /\ HoldsItsVersion(d)'
  BY <1>1 DEF CallOK, Allowed, HoldsItsVersion, Same
<1>3. StillFinds(d)'
  <2>1. ASSUME "DeleteDraft" \notin Uncalled, pc[d] \in {"update", "reread"}
        PROVE  Found(d)'
    <3>1. req[d].id \in Calls
      BY <1>1, <2>1, MoversRow
    <3>2. rows[req[d].id] # NoRow /\ rows[req[d].id].kind = req[d].kind
      BY <1>1, <2>1 DEF CallOK, StillFinds, Found
    <3>3. rows'[req[d].id] # NoRow /\ rows'[req[d].id].kind = req[d].kind
      BY <2>1, <3>1, <3>2 DEF RowsKept
    <3> QED
      BY <3>3 DEF Found, Same
  <2> QED
    BY <2>1 DEF StillFinds, Same
<1>4. OwnRow(d)'
  <2>1. ASSUME d \in Issued, rows'[d] # NoRow
        PROVE  /\ rows'[d].kind = req[d].kind
               /\ rows'[d].payload = req[d].payload
               /\ rows'[d].by = req[d].actor
    BY <1>1, <2>1 DEF CallOK, OwnRow, RowsKept
  <2> QED
    BY <1>1, <2>1 DEF CallOK, OwnRow, IdemKey, Same
<1>5. Acknowledged(d)'
  BY <1>1 DEF CallOK, Acknowledged, Same
<1>6. ASSUME NEW n \in DOMAIN outbox, TraceIs(d, n)
      PROVE  n \in DOMAIN outbox' /\ outbox'[n] = outbox[n] /\ TraceIs(d, n)'
  BY <1>6 DEF TraceIs, EventsKept, Same
<1>7. Story(d)'
  BY <1>1, <1>6 DEF CallOK, Story, Same
<1> QED
  BY <1>2, <1>3, <1>4, <1>5, <1>7 DEF CallOK

\* The tables of the invariant, for a step that leaves them alone.
LEMMA TablesKept ==
  ASSUME FlowInv, UNCHANGED <<rows, audit, outbox>>,
         \A i \in Issued : req'[i] = req[i]
  PROVE  /\ RowsKept /\ EventsKept /\ Issued' = Issued
         /\ RowsStay' /\ HandInHand' /\ RightsWereUsed'
         /\ \A d : Traces(d)' = Traces(d)
<1>1. RowsKept /\ EventsKept
  BY DEF RowsKept, EventsKept
<1>2. Issued' = Issued
  BY DEF Issued
<1>3. RowsStay' /\ HandInHand'
  BY <1>2 DEF FlowInv, RowsStay, HandInHand
<1>4. RightsWereUsed'
  BY DEF FlowInv, RightsWereUsed, Took
<1> QED
  BY <1>1, <1>2, <1>3, <1>4 DEF Traces

\* A step of one call that writes nothing.
LEMMA QuietStep ==
  ASSUME FlowInv, LogInv', NEW c \in Calls, UNCHANGED db,
         \A d \in Calls \ {c} : Same(d),
         pc[c] = "idle" \/ req'[c] = req[c],
         RowsKept /\ EventsKept /\ Issued' = Issued => CallOK(c)'
  PROVE  FlowInv'
<1>1. \A i \in Issued : req'[i] = req[i]
  BY IssuedIsBusy DEF FlowInv, Same
<1>2. /\ RowsKept /\ EventsKept /\ Issued' = Issued
      /\ RowsStay' /\ HandInHand' /\ RightsWereUsed'
      /\ \A d : Traces(d)' = Traces(d)
  BY <1>1, TablesKept DEF db
<1>3. \A d \in Calls : CallOK(d)'
  BY <1>1, <1>2, OthersKeep DEF db
<1>4. \A i \in Issued : IdemKey(i)' = IdemKey(i) /\ Digest(req'[i]) = Digest(req[i])
  BY <1>1 DEF IdemKey
<1>5. RecordsOK' /\ KeysAreKept'
  BY <1>2, <1>4 DEF FlowInv, RecordsOK, RecordOK, KeysAreKept, db
<1> QED
  BY <1>2, <1>3, <1>5 DEF FlowInv

\* A call that is refused where it has left no trace.
LEMMA RefusalKeeps ==
  ASSUME FlowInv, LogInv', NEW c \in Calls, UNCHANGED db, NEW code,
         Refuse(c, code), code # "ok", \A d \in Calls \ {c} : req'[d] = req[d],
         pc[c] = "idle" \/ req'[c] = req[c],
         \/ pc[c] \notin {"reread", "done"}
         \/ code = "internal"
         \/ "DeleteDraft" \in Uncalled
  PROVE  FlowInv'
<1>1. CallOK(c) /\ LogInv /\ TypeOK
  BY DEF FlowInv, LogInv
<1>2. /\ pc'[c] = "done" /\ reply'[c].code = code
      /\ \A d \in Calls \ {c} : Same(d)
  BY <1>1, Answers DEF Refuse
<1>3. ASSUME Issued' = Issued
      PROVE  CallOK(c)'
  <2>1. OwnRow(c)'
    <3>1. CASE pc[c] = "idle"
      <4>1. c \notin Issued
        BY <1>1, <3>1, IssuedIsBusy
      <4> QED
        BY <1>3, <4>1 DEF OwnRow
    <3>2. CASE req'[c] = req[c]
      BY <1>1, <1>3, <3>2 DEF CallOK, OwnRow, IdemKey, db
    <3> QED
      BY <3>1, <3>2
  <2>2. Traces(c)' = Traces(c)
    BY DEF Traces, db
  <2>3. Story(c)'
    BY <1>1, <1>2, <2>2 DEF CallOK, Story, Refusals
  <2> QED
    BY <1>2, <2>1, <2>3
    DEF CallOK, Allowed, HoldsItsVersion, StillFinds, Acknowledged
<1> QED
  BY <1>2, <1>3, QuietStep

-----------------------------------------------------------------------------
(* The steps that write nothing.                                           *)

\* An operation that begins.
LEMMA ArrivalKeeps ==
  ASSUME FlowInv, LogInv', NEW c \in Calls, NEW q, Arrive(c, q),
         \/ Refuse(c, "invalid")
         \/ Refuse(c, "forbidden")
         \/ Step(c, "create", Nothing) /\ Can(RoleOf[q.actor], "plan")
         \/ /\ Step(c, "transition", Nothing)
            /\ \/ Can(RoleOf[q.actor], TransitionAction(q.target))
               \/ q.target = "canceled"
  PROVE  FlowInv'
<1>1. CallOK(c) /\ LogInv /\ TypeOK
  BY DEF FlowInv, LogInv
<1>2. /\ pc[c] = "idle" /\ req'[c] = q /\ UNCHANGED db
      /\ \A d \in Calls \ {c} : req'[d] = req[d]
  BY <1>1 DEF Arrive, TypeOK
<1>3. CASE Refuse(c, "invalid") \/ Refuse(c, "forbidden")
  BY <1>2, <1>3, RefusalKeeps
<1>4. ASSUME NEW step \in {"create", "transition"}, Step(c, step, Nothing),
             step = "create" => Can(RoleOf[q.actor], "plan"),
             step = "transition" =>
               \/ Can(RoleOf[q.actor], TransitionAction(q.target))
               \/ q.target = "canceled"
      PROVE  FlowInv'
  <2>1. /\ pc'[c] = step /\ reply'[c] = reply[c]
        /\ \A d \in Calls \ {c} : Same(d)
    BY <1>1, <1>2, <1>4, Goes
  <2>2. reply[c].code = "none"
    BY <1>1, <1>2 DEF TypeOK, StepsOK, NoReply
  <2>3. ASSUME Issued' = Issued
        PROVE  CallOK(c)'
    <3>1. c \notin Issued
      BY <1>1, <1>2, IssuedIsBusy
    <3>2. Traces(c)' = Traces(c) /\ Traces(c) = {}
      BY <1>1, <1>2 DEF Traces, db, CallOK, Story
    <3>3. Story(c)' /\ Acknowledged(c)' /\ OwnRow(c)'
      BY <2>1, <2>2, <2>3, <3>1, <3>2 DEF Story, Acknowledged, OwnRow, Refusals
    <3>4. Allowed(c)' /\ HoldsItsVersion(c)' /\ StillFinds(c)'
      BY <1>2, <1>4, <2>1 DEF Allowed, HoldsItsVersion, StillFinds
    <3> QED
      BY <3>3, <3>4 DEF CallOK
  <2> QED
    BY <1>2, <2>1, <2>3, QuietStep
<1> QED
  BY <1>3, <1>4

LEMMA ReceiveKeeps ==
  ASSUME FlowInv, LogInv', NEW c \in Calls, Receive(c)
  PROVE  FlowInv'
<1>1. ASSUME NEW k \in Kinds, ReceiveCreate(c, k)
      PROVE  FlowInv'
  <2>1. PICK u \in Users, key \in Keys \cup {None}, p \in Payloads :
          /\ Arrive(c, CreateCall(k, u, key, p))
          /\ \/ Refuse(c, "invalid")
             \/ Refuse(c, "forbidden")
             \/ Step(c, "create", Nothing) /\ Can(RoleOf[u], "plan")
    BY <1>1 DEF ReceiveCreate
  <2>2. CreateCall(k, u, key, p).actor = u
    BY DEF CreateCall
  <2> QED
    BY <2>1, <2>2, ArrivalKeeps
<1>2. ASSUME NEW k \in Kinds, ReceiveTransition(c, k)
      PROVE  FlowInv'
  <2>1. PICK u \in Users, i \in Issued, target \in Targets, v \in Versions :
          /\ Arrive(c, TransitionCall("transition", k, u, i, target, v))
          /\ \/ Refuse(c, "forbidden")
             \/ Step(c, "transition", Nothing) /\ Can(RoleOf[u], TransitionAction(target))
    BY <1>2 DEF ReceiveTransition
  <2>2. PICK q : q = TransitionCall("transition", k, u, i, target, v)
    OBVIOUS
  <2>3. q.actor = u /\ q.target = target
    BY <2>2 DEF TransitionCall
  <2>4. Can(RoleOf[u], TransitionAction(target))
          => Can(RoleOf[q.actor], TransitionAction(q.target))
    BY <2>3
  <2>5. Arrive(c, q)
    BY <2>1, <2>2
  <2> QED
    BY <2>1, <2>4, <2>5, ArrivalKeeps
<1>3. ASSUME NEW k \in Kinds, ReceiveCancel(c, k)
      PROVE  FlowInv'
  <2>1. PICK u \in Users, i \in Issued, v \in Versions :
          /\ Arrive(c, TransitionCall("cancel", k, u, i, "canceled", v))
          /\ Refuse(c, "invalid") \/ Step(c, "transition", Nothing)
    BY <1>3 DEF ReceiveCancel
  <2>2. TransitionCall("cancel", k, u, i, "canceled", v).target = "canceled"
    BY DEF TransitionCall
  <2> QED
    BY <2>1, <2>2, ArrivalKeeps
<1> QED
  BY <1>1, <1>2, <1>3 DEF Receive

\* A replay names the create that wrote the record, which is another call.
LEMMA ReplayKeeps ==
  ASSUME FlowInv, LogInv', NEW c \in Calls, pc[c] = "create",
         UNCHANGED <<now, db, req>>,
         Live(idem[IdemKey(c)], now), idem[IdemKey(c)].hash = Digest(req[c]),
         Answer(c, "ok", idem[IdemKey(c)].id, StatusPlanned, 1)
  PROVE  FlowInv'
<1>1. CallOK(c) /\ LogInv /\ TypeOK
  BY DEF FlowInv, LogInv
<1>2. PICK k \in Kinds \X Keys : k = IdemKey(c)
  BY <1>1, CreatorsKey
<1>3. PICK i : i = idem[k].id
  OBVIOUS
<1>4. idem[k] # NoRecord
  BY <1>1, <1>2 DEF Live, NoRecord, TypeOK
<1>5. i \in Issued /\ IdemKey(i) = IdemKey(c) /\ Digest(req[i]) = Digest(req[c])
  BY <1>2, <1>3, <1>4 DEF FlowInv, RecordsOK, RecordOK
<1>6. /\ req[i].kind = req[c].kind /\ req[i].payload = req[c].payload
      /\ req[i].actor = req[c].actor
  BY <1>5 DEF IdemKey, Digest
<1>7. c \notin Issued /\ i # c /\ req[c].op = "create"
  BY <1>1, <1>5, IssuedIsBusy, CreatorsKey DEF Unborn
<1>8. /\ pc'[c] = "done" /\ reply'[c].code = "ok" /\ reply'[c].id = i
      /\ \A d \in Calls \ {c} : Same(d)
  BY <1>1, <1>2, <1>3, Answers
<1>9. ASSUME Issued' = Issued
      PROVE  CallOK(c)'
  <2>1. Acknowledged(c)'
    BY <1>5, <1>6, <1>8, <1>9 DEF Acknowledged
  <2>2. Traces(c)' = {}
    BY <1>1 DEF CallOK, Story, Traces, db
  <2>3. Story(c)'
    BY <1>7, <1>8, <2>2 DEF Story, Refusals
  <2>4. OwnRow(c)'
    BY <1>7, <1>9 DEF OwnRow
  <2> QED
    BY <1>8, <2>1, <2>3, <2>4 DEF CallOK, Allowed, HoldsItsVersion, StillFinds
<1> QED
  BY <1>8, <1>9, QuietStep

LEMMA StartKeeps ==
  ASSUME FlowInv, LogInv', NEW c \in Calls, Start(c)
  PROVE  FlowInv'
<1>1. CallOK(c) /\ LogInv /\ TypeOK
  BY DEF FlowInv, LogInv
<1>2. /\ pc[c] = "create" /\ UNCHANGED <<now, db, req>>
      /\ Refuse(c, "invalid") \/ Lookup(c, idem[IdemKey(c)])
  BY DEF Start, StartCreate
<1>3. CASE Refuse(c, "invalid") \/ Refuse(c, "conflict") \/ Refuse(c, "internal")
  BY <1>2, <1>3, RefusalKeeps
<1>4. CASE Step(c, "insert", [at |-> now, row |-> NoRow])
  <2>1. /\ pc'[c] = "insert" /\ reply'[c] = reply[c]
        /\ \A d \in Calls \ {c} : Same(d)
    BY <1>1, <1>2, <1>4, Goes
  <2>2. reply[c].code = "none" /\ c \notin Issued
    BY <1>1, <1>2, IssuedIsBusy DEF TypeOK, StepsOK, NoReply, Unborn
  <2>3. ASSUME Issued' = Issued
        PROVE  CallOK(c)'
    <3>1. Traces(c)' = {}
      BY <1>1, <1>2 DEF Traces, db, CallOK, Story
    <3>2. Story(c)' /\ Acknowledged(c)' /\ OwnRow(c)'
      BY <2>1, <2>2, <2>3, <3>1 DEF Story, Acknowledged, OwnRow, Refusals
    <3>3. Allowed(c)' /\ HoldsItsVersion(c)' /\ StillFinds(c)'
      BY <1>1, <1>2, <2>1 DEF CallOK, Allowed, HoldsItsVersion, StillFinds
    <3> QED
      BY <3>2, <3>3 DEF CallOK
  <2> QED
    BY <1>2, <2>1, <2>3, QuietStep
<1>5. CASE /\ Live(idem[IdemKey(c)], now)
           /\ idem[IdemKey(c)].hash = Digest(req[c])
           /\ Answer(c, "ok", idem[IdemKey(c)].id, StatusPlanned, 1)
  BY <1>2, <1>5, ReplayKeeps
<1> QED
  BY <1>2, <1>3, <1>4, <1>5 DEF Lookup

LEMMA StartTransitionKeeps ==
  ASSUME FlowInv, LogInv', NEW c \in Calls, StartTransition(c, DefaultGraph)
  PROVE  FlowInv'
<1>1. CallOK(c) /\ LogInv /\ TypeOK
  BY DEF FlowInv, LogInv
<1>2. pc[c] = "transition" /\ UNCHANGED <<now, db, req>>
  BY DEF StartTransition
<1>3. CASE Refuse(c, "not_found") \/ Refuse(c, "conflict")
  BY <1>2, <1>3, RefusalKeeps
<1>4. ASSUME NEW row, row = rows[req[c].id], Found(c),
             row.version = req[c].expected, Step(c, "update", [at |-> 0, row |-> row])
      PROVE  FlowInv'
  <2>1. /\ pc'[c] = "update" /\ reply'[c] = reply[c] /\ local'[c].row = row
        /\ \A d \in Calls \ {c} : Same(d)
    BY <1>1, <1>2, <1>4, Goes
  <2>2. reply[c].code = "none"
    BY <1>1, <1>2 DEF TypeOK, StepsOK, NoReply
  <2>3. ASSUME Issued' = Issued
        PROVE  CallOK(c)'
    <3>1. Traces(c)' = {}
      BY <1>1, <1>2 DEF Traces, db, CallOK, Story
    <3>2. Story(c)' /\ Acknowledged(c)'
      BY <2>1, <2>2, <3>1 DEF Story, Acknowledged, Refusals
    <3>3. OwnRow(c)'
      BY <1>1, <1>2, <2>3 DEF CallOK, OwnRow, IdemKey, db
    <3>4. Allowed(c)' /\ HoldsItsVersion(c)'
      BY <1>1, <1>2, <1>4, <2>1 DEF CallOK, Allowed, HoldsItsVersion
    <3>5. StillFinds(c)'
      BY <1>2, <1>4 DEF StillFinds, Found, db
    <3> QED
      BY <3>2, <3>3, <3>4, <3>5 DEF CallOK
  <2> QED
    BY <1>2, <2>1, <2>3, QuietStep
<1> QED
  BY <1>3, <1>4 DEF StartTransition

\* The row that is read again is at the move of c or later.
LEMMA FinishTransitionKeeps ==
  ASSUME FlowInv, LogInv', NEW c \in Calls, FinishTransition(c)
  PROVE  FlowInv'
<1>1. CallOK(c) /\ LogInv /\ TypeOK
  BY DEF FlowInv, LogInv
<1>2. pc[c] = "reread" /\ UNCHANGED <<now, db, req>>
  BY DEF FinishTransition
<1>3. CASE ~Found(c) /\ Refuse(c, "not_found")
  <2>1. "DeleteDraft" \in Uncalled
    BY <1>1, <1>2, <1>3 DEF CallOK, StillFinds
  <2> QED
    BY <1>2, <1>3, <2>1, RefusalKeeps
<1>4. ASSUME NEW row, row = rows[req[c].id], Found(c),
             Answer(c, "ok", req[c].id, row.status, row.version)
      PROVE  FlowInv'
  <2>1. /\ pc'[c] = "done" /\ reply'[c].code = "ok" /\ reply'[c].version = row.version
        /\ \A d \in Calls \ {c} : Same(d)
    BY <1>1, <1>2, <1>4, Answers
  <2>2. req[c].op # "create" /\ req[c].id \in Calls
    BY <1>1, <1>2, MoversRow
  <2>3. PICK n \in DOMAIN outbox : TraceIs(c, n)
    BY <1>1, <1>2 DEF CallOK, Story
  <2>4. outbox[n].version <= row.version
    BY <1>1, <1>4, <2>3 DEF LogInv, RowIsAhead, TraceIs, Found
  <2>5. outbox[n].version \in Nat /\ row.version \in Nat
    <3>1. outbox[n] \in Event
      BY <1>1, <2>3, EventsAreTyped
    <3>2. row \in Row
      BY <1>1, <1>4, <2>2 DEF TypeOK, Found
    <3> QED
      BY <3>1, <3>2 DEF Event, Row
  <2>6. ASSUME Issued' = Issued
        PROVE  CallOK(c)'
    <3>1. n \in DOMAIN outbox' /\ TraceIs(c, n)' /\ reply'[c].version >= outbox'[n].version
      BY <1>2, <2>1, <2>3, <2>4, <2>5 DEF TraceIs, Traces, db
    <3>2. Story(c)'
      BY <1>2, <2>1, <2>2, <3>1 DEF Story, Refusals
    <3>3. OwnRow(c)'
      BY <1>1, <1>2, <2>6 DEF CallOK, OwnRow, IdemKey, db
    <3> QED
      BY <1>2, <2>1, <2>2, <3>2, <3>3
      DEF CallOK, Allowed, HoldsItsVersion, StillFinds, Acknowledged
  <2> QED
    BY <1>2, <2>1, <2>6, QuietStep
<1> QED
  BY <1>3, <1>4 DEF FinishTransition

LEMMA DatabaseFaultKeeps ==
  ASSUME FlowInv, LogInv', NEW c \in Calls, DatabaseFault(c)
  PROVE  FlowInv'
BY RefusalKeeps DEF DatabaseFault

-----------------------------------------------------------------------------
(* The commits.                                                            *)

AuditEntry ==
  [call : Calls, actor : Users, id : Calls, outcome : Statuses \cup {"accepted"}]

\* An entry and an event, appended together.
LEMMA TrailsGrow ==
  ASSUME FlowInv, NEW a \in AuditEntry, NEW e \in Event, a.id = e.id,
         audit' = Append(audit, a), outbox' = Append(outbox, e)
  PROVE  \E last :
           /\ last \notin DOMAIN outbox /\ last \notin DOMAIN audit
           /\ last \in DOMAIN outbox' /\ outbox'[last] = e
           /\ last \in DOMAIN audit' /\ audit'[last] = a
           /\ EventsKept
           /\ \A n \in DOMAIN audit : n \in DOMAIN audit' /\ audit'[n] = audit[n]
           /\ HandInHand'
           /\ Traces(a.call)' = Traces(a.call) \cup {last}
           /\ \A d : d # a.call => Traces(d)' = Traces(d)
<1>1. TypeOK /\ HandInHand
  BY DEF FlowInv, LogInv
<1>2. audit \in Seq(AuditEntry) /\ outbox \in Seq(Event)
  BY <1>1, EventsAreTyped DEF TypeOK, AuditEntry
<1>3. PICK last : last = Len(outbox) + 1
  OBVIOUS
<1>4. /\ DOMAIN outbox' = DOMAIN outbox \cup {last}
      /\ last \notin DOMAIN outbox /\ outbox'[last] = e
      /\ \A n \in DOMAIN outbox : outbox'[n] = outbox[n]
      /\ Len(outbox') = Len(outbox) + 1
  BY <1>2, <1>3, AppendProperties, LenProperties
<1>5. /\ DOMAIN audit' = DOMAIN audit \cup {last}
      /\ last \notin DOMAIN audit /\ audit'[last] = a
      /\ \A n \in DOMAIN audit : audit'[n] = audit[n]
      /\ Len(audit') = Len(audit) + 1
  BY <1>1, <1>2, <1>3, AppendProperties, LenProperties DEF HandInHand
<1>6. DOMAIN audit = DOMAIN outbox
  BY <1>1, <1>2, LenProperties DEF HandInHand
<1>7. HandInHand'
  BY <1>1, <1>4, <1>5, <1>6 DEF HandInHand
<1>8. Traces(a.call)' = Traces(a.call) \cup {last}
  BY <1>5 DEF Traces
<1>9. \A d : d # a.call => Traces(d)' = Traces(d)
  BY <1>5 DEF Traces
<1> QED
  BY <1>4, <1>5, <1>7, <1>8, <1>9 DEF EventsKept

\* Whoever used a right has used it for good.
LEMMA TookForGood ==
  ASSUME \A n \in DOMAIN audit : n \in DOMAIN audit' /\ audit'[n] = audit[n],
         NEW i, NEW action, Took(i, action)
  PROVE  Took(i, action)'
BY DEF Took

LEMMA InsertKeeps ==
  ASSUME FlowInv, LogInv', NEW c \in Calls, pc[c] = "insert", KeyFree(c),
         InsertAll(c), Answer(c, "ok", c, StatusPlanned, 1), req' = req
  PROVE  FlowInv'
<1>1. CallOK(c) /\ LogInv /\ TypeOK /\ TypeOK'
  BY DEF FlowInv, LogInv
<1>2. PICK k \in Kinds \X Keys : k = IdemKey(c)
  BY <1>1, CreatorsKey
<1>3. /\ req[c].op = "create" /\ req[c].actor \in Users
      /\ c \notin Issued /\ rows[c] = NoRow
  BY <1>1, CreatorsKey, IssuedIsBusy DEF LogInv, UnbornHasNoTrace, Unborn
<1>4. PICK a, e : /\ a = [call |-> c, actor |-> req[c].actor, id |-> c,
                          outcome |-> "accepted"]
                  /\ e = [id |-> c, from |-> Absent, to |-> StatusPlanned, version |-> 1]
  OBVIOUS
<1>5. /\ a \in AuditEntry /\ a.id = c /\ a.call = c /\ a.actor = req[c].actor
      /\ e \in Event /\ e.id = c
  BY <1>3, <1>4 DEF AuditEntry, Event, StatusPlanned, Statuses
<1>6. PICK last :
        /\ last \notin DOMAIN outbox /\ last \in DOMAIN outbox'
        /\ last \in DOMAIN audit' /\ audit'[last] = a
        /\ EventsKept
        /\ \A n \in DOMAIN audit : n \in DOMAIN audit' /\ audit'[n] = audit[n]
        /\ HandInHand'
        /\ Traces(c)' = Traces(c) \cup {last}
        /\ \A d : d # c => Traces(d)' = Traces(d)
  BY <1>4, <1>5, TrailsGrow DEF InsertAll
<1>7. Issued' = Issued \cup {c} /\ \A d \in Calls \ {c} : rows'[d] = rows[d]
  BY <1>1, InsertKeepsLog
<1>8. /\ rows'[c].kind = req[c].kind /\ rows'[c].payload = req[c].payload
      /\ rows'[c].by = req[c].actor /\ rows'[c].status = StatusPlanned
      /\ rows'[c].version = 1
  BY <1>1 DEF InsertAll, TypeOK
<1>9. rows'[c] # NoRow
  BY <1>8 DEF NoRow
<1>10. /\ pc'[c] = "done" /\ reply'[c].code = "ok" /\ reply'[c].id = c
       /\ \A d \in Calls \ {c} : Same(d)
  BY <1>1, Answers
<1>11. /\ idem'[k].id = c /\ idem'[k].hash = Digest(req[c]) /\ idem'[k].expires > 0
       /\ idem[k] = NoRecord
       /\ \A j \in Kinds \X Keys : j # k => idem'[j] = idem[j]
  <2>1. local[c].at + Retention > 0
    BY <1>1, ConstantsAssumption DEF TypeOK
  <2> QED
    BY <1>1, <1>2, <2>1 DEF InsertAll, KeyFree, TypeOK
<1>12. idem'[k] # NoRecord
  BY <1>11 DEF NoRecord
<1>13. RowsKept
  BY <1>3, <1>7 DEF RowsKept
<1>14. ASSUME NEW d \in Calls \ {c}
       PROVE  CallOK(d)'
  <2>1. d \in Issued' => d \in Issued
    BY <1>7
  <2>2. rows'[d] # NoRow => rows[d] # NoRow
    BY <1>7
  <2>3. Traces(d)' = Traces(d)
    BY <1>6
  <2> QED
    BY <1>6, <1>7, <1>10, <1>13, <2>1, <2>2, <2>3, OthersKeep
<1>15. CallOK(c)'
  <2>1. Traces(c)' # {}
    BY <1>6
  <2>2. Story(c)'
    BY <1>3, <1>10, <2>1 DEF Story, Refusals
  <2>3. OwnRow(c)'
    BY <1>2, <1>3, <1>8 DEF OwnRow, IdemKey
  <2>4. Acknowledged(c)'
    BY <1>7, <1>10 DEF Acknowledged
  <2> QED
    BY <1>10, <2>2, <2>3, <2>4 DEF CallOK, Allowed, HoldsItsVersion, StillFinds
<1>16. RecordsOK'
  <2>1. ASSUME NEW j \in Kinds \X Keys
        PROVE  RecordOK(j)'
    <3>1. CASE j = k
      BY <1>2, <1>7, <1>11, <3>1 DEF RecordOK, IdemKey
    <3>2. CASE j # k
      <4>1. idem'[j] = idem[j] /\ RecordOK(j)
        BY <1>11, <3>2 DEF FlowInv, RecordsOK
      <4>2. req' = req
        OBVIOUS
      <4> QED
        BY <1>7, <4>1, <4>2 DEF RecordOK, IdemKey
    <3> QED
      BY <3>1, <3>2
  <2> QED
    BY <2>1 DEF RecordsOK
<1>17. KeysAreKept'
  <2>1. ASSUME "Prune" \notin Uncalled, NEW d \in Issued'
        PROVE  idem'[IdemKey(d)] # NoRecord /\ idem'[IdemKey(d)].id = d
    <3>1. CASE d = c
      BY <1>2, <1>11, <1>12, <3>1
    <3>2. CASE d # c
      <4>1. d \in Issued /\ d \in Calls
        BY <1>1, <1>7, <3>2, IssuedIsBusy
      <4>2. IdemKey(d) \in Kinds \X Keys
        BY <4>1 DEF FlowInv, CallOK, OwnRow
      <4>3. idem[IdemKey(d)] # NoRecord /\ idem[IdemKey(d)].id = d
        BY <2>1, <4>1 DEF FlowInv, KeysAreKept
      <4> QED
        BY <1>11, <4>2, <4>3
    <3> QED
      BY <3>1, <3>2
  <2>2. \A d : IdemKey(d)' = IdemKey(d)
    BY DEF IdemKey
  <2> QED
    BY <2>1, <2>2 DEF KeysAreKept
<1>18. RowsStay'
  <2>1. ASSUME "DeleteDraft" \notin Uncalled, NEW i \in Issued, i # c
        PROVE  rows'[i] # NoRow
    <3>1. i \in Calls
      BY <1>1, IssuedIsBusy
    <3>2. rows[i] # NoRow
      BY <2>1 DEF FlowInv, RowsStay
    <3> QED
      BY <1>7, <2>1, <3>1, <3>2
  <2> QED
    BY <1>7, <1>9, <2>1 DEF RowsStay
<1>19. RightsWereUsed'
  <2>1. Took(c, "plan")'
    BY <1>1, <1>5, <1>6 DEF CallOK, Allowed, Took
  <2>2. rows'[c].status # StatusCompleted
    BY <1>8 DEF StatusPlanned, StatusCompleted
  <2>3. ASSUME NEW d \in Calls \ {c}
        PROVE  /\ rows'[d] # NoRow => Took(d, "plan")'
               /\ rows'[d].status = StatusCompleted => Took(d, "complete")'
    BY <1>6, <1>7, TookForGood DEF FlowInv, RightsWereUsed
  <2> QED
    BY <2>1, <2>2, <2>3 DEF RightsWereUsed
<1> QED
  BY <1>6, <1>14, <1>15, <1>16, <1>17, <1>18, <1>19 DEF FlowInv

LEMMA UpdateKeeps ==
  ASSUME FlowInv, LogInv', NEW c \in Calls, pc[c] = "update", Unchanged(c),
         UpdateAll(c), Step(c, "reread", Nothing), req' = req
  PROVE  FlowInv'
<1>1. CallOK(c) /\ LogInv /\ TypeOK /\ TypeOK'
  BY DEF FlowInv, LogInv
<1>2. PICK i \in Calls : i = req[c].id
  BY <1>1, MoversRow
<1>3. /\ local[c].row \in Row /\ req[c].target \in Statuses
      /\ req[c].actor \in Users /\ req[c].op \in {"transition", "cancel"}
      /\ local[c].row.version = req[c].expected
  BY <1>1, MoversRow DEF CallOK, HoldsItsVersion
<1>4. PICK a, e :
        /\ a = [call |-> c, actor |-> req[c].actor, id |-> i,
                outcome |-> req[c].target]
        /\ e = [id |-> i, from |-> local[c].row.status, to |-> req[c].target,
                version |-> local[c].row.version + 1]
  OBVIOUS
<1>5. /\ a \in AuditEntry /\ a.id = i /\ a.call = c /\ a.actor = req[c].actor
      /\ e \in Event /\ e.id = i /\ e.to = req[c].target
      /\ e.version = req[c].expected + 1
  BY <1>3, <1>4 DEF AuditEntry, Event, Row
<1>6. PICK last :
        /\ last \in DOMAIN outbox' /\ outbox'[last] = e
        /\ last \in DOMAIN audit' /\ audit'[last] = a
        /\ EventsKept
        /\ \A n \in DOMAIN audit : n \in DOMAIN audit' /\ audit'[n] = audit[n]
        /\ HandInHand'
        /\ Traces(c)' = Traces(c) \cup {last}
        /\ \A d : d # c => Traces(d)' = Traces(d)
  <2>1. audit' = Append(audit, a) /\ outbox' = Append(outbox, e)
    BY <1>2, <1>4 DEF UpdateAll
  <2> QED
    BY <1>5, <2>1, TrailsGrow
<1>7. /\ Issued' = Issued /\ rows[i] # NoRow
      /\ \A d \in Calls \ {i} : rows'[d] = rows[d]
  BY <1>1, <1>2, UpdateKeepsLog
<1>8. rows[i] \in Row
  BY <1>1, <1>7 DEF TypeOK
<1>9. /\ rows'[i].kind = rows[i].kind /\ rows'[i].payload = rows[i].payload
      /\ rows'[i].by = rows[i].by /\ rows'[i].status = req[c].target
      /\ rows'[i].version = rows[i].version + 1
  BY <1>1, <1>2, <1>8 DEF UpdateAll, TypeOK, Row
<1>10. rows'[i] # NoRow
  BY <1>8, <1>9 DEF NoRow, Row
<1>11. RowsKept
  BY <1>7, <1>9, <1>10 DEF RowsKept
<1>12. /\ pc'[c] = "reread" /\ reply'[c] = reply[c]
       /\ \A d \in Calls \ {c} : Same(d)
  BY <1>1, Goes
<1>13. ASSUME NEW d \in Calls \ {c}
       PROVE  CallOK(d)'
  <2>1. rows'[d] # NoRow => rows[d] # NoRow
    BY <1>7
  <2>2. Traces(d)' = Traces(d)
    BY <1>6
  <2> QED
    BY <1>6, <1>7, <1>11, <1>12, <2>1, <2>2, OthersKeep
<1>14. CallOK(c)'
  <2>1. reply[c].code = "none"
    BY <1>1 DEF TypeOK, StepsOK, NoReply
  <2>2. Traces(c)' = {last}
    BY <1>1, <1>6 DEF CallOK, Story
  <2>3. TraceIs(c, last)'
    BY <1>2, <1>5, <1>6, <2>2 DEF TraceIs
  <2>4. Story(c)'
    BY <1>6, <1>12, <2>1, <2>3 DEF Story, Refusals
  <2>5. OwnRow(c)'
    BY <1>1, <1>3, <1>7 DEF CallOK, OwnRow
  <2>6. Acknowledged(c)' /\ Allowed(c)' /\ HoldsItsVersion(c)'
    BY <1>12, <2>1 DEF Acknowledged, Allowed, HoldsItsVersion
  <2>7. StillFinds(c)'
    <3>1. "DeleteDraft" \notin Uncalled => rows[i].kind = req[c].kind
      BY <1>1, <1>2 DEF CallOK, StillFinds, Found
    <3> QED
      BY <1>2, <1>9, <1>10, <3>1 DEF StillFinds, Found
  <2> QED
    BY <2>4, <2>5, <2>6, <2>7 DEF CallOK
<1>15. RecordsOK' /\ KeysAreKept'
  <2>1. idem' = idem
    BY DEF UpdateAll
  <2> QED
    BY <1>7, <2>1
    DEF FlowInv, RecordsOK, RecordOK, KeysAreKept, IdemKey
<1>16. RowsStay'
  <2>1. ASSUME "DeleteDraft" \notin Uncalled, NEW d \in Issued
        PROVE  rows'[d] # NoRow
    <3>1. d \in Calls /\ rows[d] # NoRow
      BY <1>1, <2>1, IssuedIsBusy DEF FlowInv, RowsStay
    <3> QED
      BY <1>7, <1>10, <3>1
  <2> QED
    BY <1>7, <2>1 DEF RowsStay
<1>17. RightsWereUsed'
  <2>1. Took(i, "plan")'
    BY <1>6, <1>7, TookForGood DEF FlowInv, RightsWereUsed
  <2>2. ASSUME req[c].target = StatusCompleted
        PROVE  Took(i, "complete")'
    <3>1. Can(RoleOf[req[c].actor], "complete")
      BY <1>1, <2>2
      DEF CallOK, Allowed, StatusCompleted, TransitionAction
    <3> QED
      BY <1>5, <1>6, <3>1 DEF Took
  <2>3. ASSUME NEW d \in Calls \ {i}
        PROVE  /\ rows'[d] # NoRow => Took(d, "plan")'
               /\ rows'[d].status = StatusCompleted => Took(d, "complete")'
    BY <1>6, <1>7, TookForGood DEF FlowInv, RightsWereUsed
  <2> QED
    BY <1>9, <2>1, <2>2, <2>3 DEF RightsWereUsed
<1> QED
  BY <1>6, <1>13, <1>14, <1>15, <1>16, <1>17 DEF FlowInv

\* A draft that is deleted stays issued: its key, entries and events remain.
LEMMA DeleteKeeps ==
  ASSUME FlowInv, LogInv', NEW i \in Calls, DeleteDraft(i)
  PROVE  FlowInv'
<1>1. LogInv /\ TypeOK /\ TypeOK'
  BY DEF FlowInv, LogInv
<1>2. /\ "DeleteDraft" \in Uncalled
      /\ rows' = [rows EXCEPT ![i] = NoRow]
      /\ UNCHANGED <<now, idem, audit, outbox, pc, req, local, reply>>
  BY DEF DeleteDraft
<1>3. /\ rows'[i] = NoRow
      /\ \A d \in Calls \ {i} : rows'[d] = rows[d]
  BY <1>1, <1>2 DEF TypeOK
<1>4. Issued' = Issued /\ EventsKept /\ HandInHand'
  BY <1>2 DEF Issued, EventsKept, HandInHand, FlowInv
<1>5. RowsKept
  BY <1>2, <1>3 DEF RowsKept
<1>6. ASSUME NEW d \in Calls
      PROVE  CallOK(d)'
  <2>1. Same(d) /\ Traces(d)' = Traces(d)
    BY <1>2 DEF Same, Traces
  <2>2. rows'[d] # NoRow => rows[d] # NoRow
    BY <1>3
  <2>3. \A j \in Issued : req'[j] = req[j]
    BY <1>2
  <2> QED
    BY <1>4, <1>5, <2>1, <2>2, <2>3, OthersKeep
<1>7. RecordsOK' /\ KeysAreKept'
  BY <1>2, <1>4 DEF FlowInv, RecordsOK, RecordOK, KeysAreKept, IdemKey
<1>8. RowsStay'
  BY <1>2 DEF RowsStay
<1>9. RightsWereUsed'
  <2>1. NoRow.status # StatusCompleted
    BY DEF NoRow, Absent, StatusCompleted
  <2>2. \A d, action : Took(d, action)' <=> Took(d, action)
    BY <1>2 DEF Took
  <2> QED
    BY <1>3, <2>1, <2>2 DEF FlowInv, RightsWereUsed
<1> QED
  BY <1>4, <1>6, <1>7, <1>8, <1>9 DEF FlowInv

LEMMA CommitKeeps ==
  ASSUME FlowInv, LogInv', NEW c \in Calls, Commit(c)
  PROVE  FlowInv'
<1>1. /\ pc[c] = "insert" /\ req' = req
      /\ \/ /\ Refuse(c, "internal") \/ Refuse(c, "conflict")
            /\ UNCHANGED db
         \/ KeyFree(c) /\ InsertAll(c) /\ Answer(c, "ok", c, StatusPlanned, 1)
  BY DEF Commit, CommitCreate
<1>2. CASE UNCHANGED db /\ (Refuse(c, "internal") \/ Refuse(c, "conflict"))
  BY <1>1, <1>2, RefusalKeeps
<1> QED
  BY <1>1, <1>2, InsertKeeps

LEMMA CommitTransitionKeeps ==
  ASSUME FlowInv, LogInv', NEW c \in Calls, CommitTransition(c)
  PROVE  FlowInv'
<1>1. pc[c] = "update" /\ req' = req
  BY DEF CommitTransition
<1>2. CASE Refuse(c, "conflict") /\ UNCHANGED db
  BY <1>1, <1>2, RefusalKeeps
<1>3. CASE Unchanged(c) /\ UpdateAll(c) /\ Step(c, "reread", Nothing)
  BY <1>1, <1>3, UpdateKeeps
<1> QED
  BY <1>2, <1>3 DEF CommitTransition

-----------------------------------------------------------------------------
(* The rest of the world.                                                  *)

LEMMA StillKeeps ==
  ASSUME FlowInv, LogInv', UNCHANGED <<db, pc, req, local, reply>>
  PROVE  FlowInv'
<1>1. /\ RowsKept /\ EventsKept /\ Issued' = Issued
      /\ RowsStay' /\ HandInHand' /\ RightsWereUsed'
      /\ \A d : Traces(d)' = Traces(d)
  BY TablesKept DEF db
<1>2. ASSUME NEW d \in Calls
      PROVE  CallOK(d)'
  BY <1>1, OthersKeep DEF Same, db
<1>3. RecordsOK' /\ KeysAreKept'
  BY <1>1 DEF FlowInv, RecordsOK, RecordOK, KeysAreKept, IdemKey, db
<1> QED
  BY <1>1, <1>2, <1>3 DEF FlowInv

\* A call that dies has been told nothing, whatever it has committed.
LEMMA CrashKeeps ==
  ASSUME FlowInv, LogInv', Crash
  PROVE  FlowInv'
<1>1. UNCHANGED <<db, req>>
  BY DEF Crash
<1>2. /\ RowsKept /\ EventsKept /\ Issued' = Issued
      /\ RowsStay' /\ HandInHand' /\ RightsWereUsed'
      /\ \A d : Traces(d)' = Traces(d)
  BY <1>1, TablesKept DEF db
<1>3. ASSUME NEW d \in Calls
      PROVE  CallOK(d)'
  <2>1. CASE d \in InFlight
    <3>1. pc'[d] = "done" /\ reply'[d].code = "lost"
      BY <2>1 DEF Crash, NoReply
    <3>2. OwnRow(d)'
      BY <1>1, <1>2 DEF FlowInv, CallOK, OwnRow, IdemKey, db
    <3>3. Story(d)'
      BY <3>1 DEF Story, Refusals
    <3> QED
      BY <3>1, <3>2, <3>3
      DEF CallOK, Allowed, HoldsItsVersion, StillFinds, Acknowledged
  <2>2. CASE d \notin InFlight
    <3>1. Same(d)
      BY <2>2 DEF Crash, Same
    <3> QED
      BY <1>1, <1>2, <3>1, OthersKeep DEF db
  <2> QED
    BY <2>1, <2>2
<1>4. RecordsOK' /\ KeysAreKept'
  BY <1>1, <1>2 DEF FlowInv, RecordsOK, RecordOK, KeysAreKept, IdemKey, db
<1> QED
  BY <1>2, <1>3, <1>4 DEF FlowInv

LEMMA PruneKeeps ==
  ASSUME FlowInv, LogInv', Prune
  PROVE  FlowInv'
<1>1. /\ "Prune" \in Uncalled
      /\ UNCHANGED <<now, rows, audit, outbox, pc, req, local, reply>>
  BY DEF Prune
<1>2. /\ RowsKept /\ EventsKept /\ Issued' = Issued
      /\ RowsStay' /\ HandInHand' /\ RightsWereUsed'
      /\ \A d : Traces(d)' = Traces(d)
  BY <1>1, TablesKept
<1>3. ASSUME NEW d \in Calls
      PROVE  CallOK(d)'
  BY <1>1, <1>2, OthersKeep DEF Same
<1>4. ASSUME NEW k \in Kinds \X Keys
      PROVE  RecordOK(k)'
  <2>1. RecordOK(k)
    BY DEF FlowInv, RecordsOK
  <2>2. idem'[k] = idem[k] \/ idem'[k] = NoRecord
    BY DEF Prune, FlowInv, LogInv, TypeOK
  <2> QED
    BY <1>1, <1>2, <2>1, <2>2 DEF RecordOK, IdemKey
<1> QED
  BY <1>1, <1>2, <1>3, <1>4 DEF FlowInv, RecordsOK, KeysAreKept

LEMMA StepKeepsFlow ==
  ASSUME FlowInv, [Next]_vars
  PROVE  FlowInv'
<1>1. LogInv'
  BY StepKeepsLog DEF FlowInv
<1>2. ASSUME NEW c \in Calls, CallStep(c)
      PROVE  FlowInv'
  BY <1>1, <1>2, ReceiveKeeps, StartKeeps, CommitKeeps, StartTransitionKeeps,
     CommitTransitionKeeps, FinishTransitionKeeps, DatabaseFaultKeeps,
     DeleteKeeps
  DEF CallStep
<1>3. CASE Tick \/ UNCHANGED vars
  <2>1. UNCHANGED <<db, pc, req, local, reply>>
    BY <1>3 DEF Tick, vars, db
  <2> QED
    BY <1>1, <2>1, StillKeeps
<1> QED
  BY <1>1, <1>2, <1>3, StepIsGeneric, CrashKeeps, PruneKeeps

LEMMA InitialFlow == Init => FlowInv
<1> SUFFICES ASSUME Init PROVE FlowInv
  OBVIOUS
<1>1. LogInv
  BY InitialLog
<1>2. Issued = {} /\ DOMAIN audit = {} /\ DOMAIN outbox = {}
  BY DEF Init, Issued
<1>3. HandInHand
  BY <1>2 DEF Init, HandInHand
<1>4. ASSUME NEW c \in Calls
      PROVE  CallOK(c)
  <2>1. /\ pc[c] = "idle" /\ reply[c].code = "none" /\ Traces(c) = {}
    BY <1>2 DEF Init, NoReply, Traces
  <2> QED
    BY <1>2, <2>1
    DEF CallOK, Allowed, HoldsItsVersion, StillFinds, OwnRow, Acknowledged,
        Story, Refusals
<1>5. RecordsOK /\ KeysAreKept /\ RowsStay
  BY <1>2 DEF Init, RecordsOK, RecordOK, KeysAreKept, RowsStay
<1>6. RightsWereUsed
  BY DEF Init, RightsWereUsed, NoRow, Absent, StatusCompleted
<1> QED
  BY <1>1, <1>3, <1>4, <1>5, <1>6 DEF FlowInv

(***************************************************************************)
(* Every reachable state agrees with what the calls, the keys and the      *)
(* audit trail say of it.                                                  *)
(***************************************************************************)
THEOREM FlowInvariant == Spec => []FlowInv
BY InitialFlow, StepKeepsFlow, PTL DEF Spec

-----------------------------------------------------------------------------
(* What the invariant says.                                                *)

(***************************************************************************)
(* A key of a service names at most one row: creates with the same key may *)
(* all pass the lookup, one of them writes the record and the row.         *)
(***************************************************************************)
THEOREM KeysNameOneRow == Spec => []OneRowPerKey
<1>1. ASSUME FlowInv, "Prune" \notin Uncalled,
             NEW c \in Calls, NEW d \in Calls,
             rows[c] # NoRow, rows[d] # NoRow, IdemKey(c) = IdemKey(d)
      PROVE  c = d
  <2>1. c \in Issued /\ d \in Issued
    BY <1>1 DEF FlowInv, LogInv, RowIsIssued
  <2>2. idem[IdemKey(c)].id = c /\ idem[IdemKey(d)].id = d
    BY <1>1, <2>1 DEF FlowInv, KeysAreKept
  <2> QED
    BY <1>1, <2>2
<1>2. FlowInv => OneRowPerKey
  BY <1>1 DEF OneRowPerKey
<1> QED
  BY <1>2, FlowInvariant, PTL

(***************************************************************************)
(* A create that was answered with success, at once or by a replay, names  *)
(* a row made from this body by this user; nothing but DeleteDraft takes   *)
(* the row away again.                                                     *)
(***************************************************************************)
THEOREM AcknowledgedIsThere == Spec => []AcknowledgedCreateExists
<1>1. ASSUME FlowInv, NEW c \in Calls, req[c].op = "create", reply[c].code = "ok",
             NEW i, i = reply[c].id
      PROVE  \/ /\ rows[i] # NoRow
                /\ rows[i].kind = req[c].kind
                /\ rows[i].payload = req[c].payload
                /\ rows[i].by = req[c].actor
             \/ /\ "DeleteDraft" \in Uncalled
                /\ rows[i] = NoRow
                /\ i \in Issued
  <2>1. /\ i \in Issued
        /\ req[i].kind = req[c].kind
        /\ req[i].payload = req[c].payload
        /\ req[i].actor = req[c].actor
    BY <1>1 DEF FlowInv, CallOK, Acknowledged
  <2>2. i \in Calls
    BY <1>1, <2>1, IssuedIsBusy DEF FlowInv
  <2>3. CASE rows[i] # NoRow
    <3>1. OwnRow(i)
      BY <1>1, <2>2 DEF FlowInv, CallOK
    <3> QED
      BY <2>1, <2>3, <3>1 DEF OwnRow
  <2>4. CASE rows[i] = NoRow
    BY <1>1, <2>1, <2>4 DEF FlowInv, RowsStay
  <2> QED
    BY <2>3, <2>4
<1>2. FlowInv => AcknowledgedCreateExists
  BY <1>1 DEF AcknowledgedCreateExists
<1> QED
  BY <1>2, FlowInvariant, PTL

(***************************************************************************)
(* What a call was told agrees with what it did: a refused call left no    *)
(* trace, a successful one exactly one, at the version it asked to leave.  *)
(***************************************************************************)
THEOREM AnswersAreTrue == Spec => []RepliesTellTheTruth
<1>1. ASSUME FlowInv, "DeleteDraft" \notin Uncalled, NEW c \in Calls
      PROVE  /\ reply[c].code \in Refusals => Traces(c) = {}
             /\ reply[c].code = "ok" /\ req[c].op = "create" =>
                  (Traces(c) # {} <=> reply[c].id = c)
             /\ reply[c].code = "ok" /\ req[c].op # "create" =>
                  \E n \in Traces(c) :
                    /\ Traces(c) = {n}
                    /\ outbox[n].id = req[c].id
                    /\ outbox[n].to = req[c].target
                    /\ outbox[n].version = req[c].expected + 1
                    /\ reply[c].version >= outbox[n].version
  <2>1. Story(c)
    BY <1>1 DEF FlowInv, CallOK
  <2>2. ASSUME reply[c].code = "ok", req[c].op # "create"
        PROVE  \E n \in Traces(c) :
                 /\ Traces(c) = {n}
                 /\ outbox[n].id = req[c].id
                 /\ outbox[n].to = req[c].target
                 /\ outbox[n].version = req[c].expected + 1
                 /\ reply[c].version >= outbox[n].version
    <3>1. PICK n \in DOMAIN outbox :
            TraceIs(c, n) /\ reply[c].version >= outbox[n].version
      BY <2>1, <2>2 DEF Story
    <3>2. n \in Traces(c)
      BY <3>1 DEF TraceIs
    <3> QED
      BY <3>1, <3>2 DEF TraceIs
  <2> QED
    BY <1>1, <2>1, <2>2 DEF Story
<1>2. FlowInv => RepliesTellTheTruth
  BY <1>1 DEF RepliesTellTheTruth
<1> QED
  BY <1>2, FlowInvariant, PTL

LEMMA WhoMay ==
  ASSUME NEW role
  PROVE  /\ Can(role, "plan") => role \in {"platform_admin", "transport_dispatcher"}
         /\ Can(role, "complete") => role \in {"platform_admin", "field_operator"}
BY DEF Can, Permissions

(***************************************************************************)
(* An object that is completed was opened by one who may plan and          *)
(* completed by one who may complete: no single role but the               *)
(* administrator's does both.                                              *)
(***************************************************************************)
THEOREM TwoRolesComplete == Spec => []CompletionTakesTwoRoles
<1>1. ASSUME FlowInv, NEW i \in Calls, rows[i].status = StatusCompleted
      PROVE  \/ "platform_admin" \in RolesOn(i)
             \/ {"transport_dispatcher", "field_operator"} \subseteq RolesOn(i)
  <2>1. rows[i] # NoRow
    BY <1>1 DEF NoRow, Absent, StatusCompleted
  <2>2. Took(i, "plan") /\ Took(i, "complete")
    BY <1>1, <2>1 DEF FlowInv, RightsWereUsed
  <2>3. \A action : Took(i, action) => \E role \in RolesOn(i) : Can(role, action)
    BY DEF Took, RolesOn
  <2>4. PICK p, q \in RolesOn(i) : Can(p, "plan") /\ Can(q, "complete")
    BY <2>2, <2>3
  <2> QED
    BY <2>4, WhoMay
<1>2. FlowInv => CompletionTakesTwoRoles
  BY <1>1 DEF CompletionTakesTwoRoles
<1> QED
  BY <1>2, FlowInvariant, PTL

-----------------------------------------------------------------------------
(* What ends, ends for good: the edges of the graph are all that a         *)
(* transition may take, and a create only writes the row of its own call.  *)

LEMMA NoWayOut ==
  ASSUME NEW from, NEW to, Allows(DefaultGraph, from, to)
  PROVE  ~IsTerminal(from)
BY DEF Allows, DefaultGraph, IsTerminal

LEMMA CallLeavesEnded ==
  ASSUME LogInv, LogInv', NEW c \in Calls, CallStep(c), NEW i \in Calls
  PROVE  /\ IsTerminal(rows[i].status) => rows'[i] = rows[i]
         /\ rows[i] = NoRow /\ i \in Issued => rows'[i] = NoRow
<1>1. TypeOK /\ TypeOK'
  BY DEF LogInv
<1>2. CASE UNCHANGED db
  BY <1>2 DEF db
<1>3. CASE pc[c] = "insert" /\ InsertAll(c)
  <2>1. c \notin Issued /\ rows[c] = NoRow
    BY <1>3 DEF LogInv, UnbornHasNoTrace, Unborn
  <2>2. ~IsTerminal(NoRow.status)
    BY DEF NoRow, Absent, IsTerminal
  <2> QED
    BY <1>1, <1>3, <2>1, <2>2, InsertKeepsLog
<1>4. CASE pc[c] = "update" /\ Unchanged(c) /\ UpdateAll(c)
  <2>1. /\ rows[req[c].id] # NoRow
        /\ \A d \in Calls \ {req[c].id} : rows'[d] = rows[d]
    BY <1>1, <1>4, UpdateKeepsLog
  <2>2. Allows(DefaultGraph, local[c].row.status, req[c].target)
    BY <1>4 DEF LogInv, UpdateIsAllowed
  <2>3. ~IsTerminal(rows[req[c].id].status)
    BY <1>4, <2>2, NoWayOut DEF Unchanged
  <2> QED
    BY <2>1, <2>3
<1>5. CASE DeleteDraft(c)
  <2>1. ~IsTerminal(rows[c].status) /\ rows'[c] = NoRow
    BY <1>1, <1>5 DEF DeleteDraft, TypeOK, IsTerminal, StatusPlanned
  <2>2. \A d \in Calls \ {c} : rows'[d] = rows[d]
    BY <1>1, <1>5 DEF DeleteDraft, TypeOK
  <2> QED
    BY <2>1, <2>2
<1> QED
  BY <1>1, <1>2, <1>3, <1>4, <1>5, EffectOfCall

(***************************************************************************)
(* No call, and no interleaving of calls, changes an object that is        *)
(* completed or canceled, or brings a deleted one back.                    *)
(***************************************************************************)
THEOREM EndedForGood == Spec => EndedStaysEnded
<1>1. ASSUME LogInv, [Next]_vars, NEW i \in Calls
      PROVE  /\ IsTerminal(rows[i].status) => rows'[i] = rows[i]
             /\ rows[i] = NoRow /\ i \in Issued => rows'[i] = NoRow
  <2>1. LogInv'
    BY <1>1, StepKeepsLog
  <2>2. ASSUME NEW c \in Calls, CallStep(c)
        PROVE  /\ IsTerminal(rows[i].status) => rows'[i] = rows[i]
               /\ rows[i] = NoRow /\ i \in Issued => rows'[i] = NoRow
    BY <1>1, <2>1, <2>2, CallLeavesEnded
  <2>3. Tick \/ Crash \/ Prune \/ UNCHANGED vars => rows' = rows
    BY DEF Tick, Crash, Prune, vars, db
  <2> QED
    BY <1>1, <2>2, <2>3, StepIsGeneric
<1>2. ASSUME LogInv, [Next]_vars
      PROVE  [\A i \in Calls :
                /\ IsTerminal(rows[i].status) => rows'[i] = rows[i]
                /\ rows[i] = NoRow /\ (\E n \in DOMAIN outbox : outbox[n].id = i)
                     => rows'[i] = NoRow]_vars
  BY <1>1, <1>2 DEF Issued
<1> QED
  BY <1>2, LogInvariant, PTL DEF Spec, EndedStaysEnded

-----------------------------------------------------------------------------
(* What the services inherit from the ledger they implement.               *)

History ==
  INSTANCE LedgerProofs
  WITH Ids <- Calls,
       Graph <- DefaultGraph,
       First <- StatusPlanned,
       Withdrawals <- "DeleteDraft" \in Uncalled,
       state <- [c \in Calls |-> [status |-> rows[c].status,
                                  version |-> rows[c].version]],
       log <- outbox

LEMMA GraphIsInside == History!GoneIsOutside
BY DEF History!GoneIsOutside, History!States, History!Absent, DefaultGraph,
       StatusPlanned

LEMMA LedgerStepIsHistoryStep ==
  ASSUME [Ledger!Next]_(Ledger!ledgerVars)
  PROVE  [History!Next]_(History!ledgerVars)
BY DEF Ledger!Next, Ledger!Open, Ledger!Advance, Ledger!Withdraw, Ledger!Entry,
       Ledger!Logged, Ledger!Gone, Ledger!Absent, Ledger!States, Ledger!Allows,
       Ledger!ledgerVars,
       History!Next, History!Open, History!Advance, History!Withdraw,
       History!Entry, History!Logged, History!Gone, History!Absent,
       History!States, History!Allows, History!ledgerVars

LEMMA LedgerStartIsHistoryStart == Ledger!Init => History!Init
BY DEF Ledger!Init, Ledger!Gone, Ledger!Absent,
       History!Init, History!Gone, History!Absent

(***************************************************************************)
(* A reader of the outbox can rebuild every row: the events of an object   *)
(* form a chain whose last one is where the row is.                        *)
(***************************************************************************)
THEOREM OutboxIsAHistory == Spec => []EventsRebuildRows
<1>1. Init => History!LedgerInv
  BY InitialLedger, LedgerStartIsHistoryStart, History!InitialLedgerInv
<1>2. LogInv /\ [Next]_vars /\ History!LedgerInv => History!LedgerInv'
  BY StepImplementsLedger, LedgerStepIsHistoryStep, GraphIsInside,
     History!StepKeepsLedger
<1>3. History!LedgerInv => EventsRebuildRows
  BY DEF History!LedgerInv, History!MovesAreChained, History!LogReplays,
         History!Gone, History!Absent, EventsRebuildRows,
         Ledger!MovesAreChained, Ledger!LogReplays, Ledger!Gone, Ledger!Absent
<1> QED
  BY <1>1, <1>2, <1>3, LogInvariant, PTL DEF Spec

=============================================================================
