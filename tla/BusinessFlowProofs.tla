------------------------- MODULE BusinessFlowProofs -------------------------
(***************************************************************************)
(* Theorems about BusinessFlow, for every set of calls, users, keys and    *)
(* payloads, every clock and every combination of the uncalled operations. *)
(***************************************************************************)
EXTENDS BusinessFlow, SequenceTheorems, TLAPS

(***************************************************************************)
(* The six services share their actions: a step of any of them is a step   *)
(* of one of these, whatever its kind validates and demands.               *)
(***************************************************************************)
Receive(c) ==
  \E k \in Kinds :
    ReceiveCreate(c, k) \/ ReceiveTransition(c, k) \/ ReceiveCancel(c, k)

Start(c) == \E valid \in BOOLEAN : StartCreate(c, valid)

Commit(c) ==
  \E complete, linked \in BOOLEAN : CommitCreate(c, complete, linked)

CallStep(c) ==
  \/ Receive(c)
  \/ Start(c)
  \/ Commit(c)
  \/ StartTransition(c, DefaultGraph)
  \/ CommitTransition(c)
  \/ FinishTransition(c)
  \/ DatabaseFault(c)
  \/ DeleteDraft(c)

LEMMA ServiceIsGeneric ==
  ASSUME NEW c, NEW valid, NEW complete \in BOOLEAN, NEW linked,
         Service(c, valid, complete, linked, DefaultGraph)
  PROVE  CallStep(c)
<1>1. CASE StartCreate(c, valid)
  BY <1>1 DEF CallStep, Start, StartCreate
<1>2. ASSUME NEW enforced \in ForeignKeys,
             CommitCreate(c, complete, enforced => linked)
      PROVE  CallStep(c)
  <2>1. (enforced => linked) \in BOOLEAN
    OBVIOUS
  <2>2. Commit(c)
    BY <1>2, <2>1 DEF Commit
  <2> QED
    BY <2>2 DEF CallStep
<1> QED
  BY <1>1, <1>2 DEF Service, CallStep


LEMMA StepIsGeneric ==
  ASSUME Next
  PROVE  (\E c \in Calls : CallStep(c)) \/ Tick \/ Crash \/ Prune
<1>1. ASSUME NEW c \in Calls, NEW k \in Kinds, ReceiveCancel(c, k)
      PROVE  CallStep(c)
  BY <1>1 DEF CallStep, Receive
<1>2. ASSUME NEW c \in Calls, NEW k, Handlers(c, k)
      PROVE  CallStep(c)
  BY <1>2 DEF CallStep, Receive, Handlers
<1>3. ASSUME NEW c \in Calls, MissionService(c)
      PROVE  CallStep(c)
  BY <1>3, ServiceIsGeneric DEF MissionService, MissionLifecycle
<1>4. ASSUME NEW c \in Calls, InspectionService(c)
      PROVE  CallStep(c)
  BY <1>4, ServiceIsGeneric DEF InspectionService, InspectionLifecycle
<1>5. ASSUME NEW c \in Calls, TransferService(c)
      PROVE  CallStep(c)
  <2>1. (req[c].payload.resource # None) \in BOOLEAN
    OBVIOUS
  <2> QED
    BY <1>5, <2>1, ServiceIsGeneric DEF TransferService, TransferLifecycle
<1>6. ASSUME NEW c \in Calls, SortingService(c)
      PROVE  CallStep(c)
  BY <1>6, ServiceIsGeneric DEF SortingService, SortingLifecycle
<1>7. ASSUME NEW c \in Calls, IncidentService(c)
      PROVE  CallStep(c)
  BY <1>7, ServiceIsGeneric DEF IncidentService, IncidentLifecycle
<1>8. ASSUME NEW c \in Calls, MaintenanceService(c)
      PROVE  CallStep(c)
  BY <1>8, ServiceIsGeneric DEF MaintenanceService, MaintenanceLifecycle
<1>9. ASSUME NEW c \in Calls, DatabaseFault(c) \/ DeleteDraft(c)
      PROVE  CallStep(c)
  BY <1>9 DEF CallStep
<1> QED
  BY <1>1, <1>2, <1>3, <1>4, <1>5, <1>6, <1>7, <1>8, <1>9
  DEF Next, Mission, Inspection, Transfer, Sorting, Incident, Maintenance,
      MissionHandlers, InspectionHandlers, TransferHandlers, SortingHandlers,
      IncidentHandlers, MaintenanceHandlers

-----------------------------------------------------------------------------
(* What the steps of a call do to its place, memory and reply.             *)

LEMMA StepKeepsShape ==
  ASSUME TypeOK, NEW c \in Calls,
         NEW step \in {"create", "insert", "transition", "update", "reread"},
         NEW mem \in [at : Nat, row : Row \cup {NoRow}],
         Step(c, step, mem)
  PROVE  /\ pc' \in [Calls -> {"idle", "create", "insert", "transition",
                               "update", "reread", "done"}]
         /\ local' \in [Calls -> [at : Nat, row : Row \cup {NoRow}]]
         /\ reply' = reply
         /\ pc'[c] = step /\ local'[c] = mem
         /\ \A d \in Calls \ {c} : pc'[d] = pc[d] /\ local'[d] = local[d]
BY DEF Step, TypeOK

Codes ==
  {"none", "ok", "invalid", "forbidden", "conflict", "not_found", "internal",
   "lost"}

ReplyType ==
  [code : Codes, id : Calls \cup {None}, status : Statuses \cup {Absent},
   version : Nat]

LEMMA NothingIsTyped == Nothing \in [at : Nat, row : Row \cup {NoRow}]
BY DEF Nothing

LEMMA AnswerKeepsShape ==
  ASSUME TypeOK, NEW c \in Calls, NEW code \in Codes,
         NEW i \in Calls \cup {None}, NEW status \in Statuses \cup {Absent},
         NEW version \in Nat, Answer(c, code, i, status, version)
  PROVE  /\ pc' \in [Calls -> {"idle", "create", "insert", "transition",
                               "update", "reread", "done"}]
         /\ local' \in [Calls -> [at : Nat, row : Row \cup {NoRow}]]
         /\ reply' \in [Calls -> ReplyType]
         /\ pc'[c] = "done"
         /\ reply'[c] = [code |-> code, id |-> i, status |-> status,
                         version |-> version]
         /\ \A d \in Calls \ {c} :
              pc'[d] = pc[d] /\ local'[d] = local[d] /\ reply'[d] = reply[d]
BY NothingIsTyped DEF Answer, TypeOK, ReplyType, Codes

Memory == [at : Nat, row : Row \cup {NoRow}]

LEMMA RequestKinds ==
  ASSUME TypeOK, NEW c \in Calls
  PROVE  /\ req[c].op = "create" =>
              /\ req[c].kind \in Kinds /\ req[c].actor \in Users
              /\ req[c].key \in Keys \cup {None}
              /\ req[c].payload \in Payloads
         /\ req[c].op \in {"transition", "cancel"} =>
              /\ req[c].kind \in Kinds /\ req[c].actor \in Users
              /\ req[c].id \in Calls /\ req[c].target \in Statuses
              /\ req[c].expected \in Versions
<1>1. req[c] \in Request
  BY DEF TypeOK
<1>2. Targets \cup {"canceled"} \subseteq Statuses
  BY ConstantsAssumption DEF Statuses
<1>3. req[c] # NoCall \/ req[c].op = "none"
  BY DEF NoCall, TransitionCall
<1> QED
  BY <1>1, <1>2, <1>3 DEF Request

Event ==
  [id : Calls, from : Statuses \cup {Absent}, to : Statuses,
   version : Nat \ {0}]

LEMMA EventsAreTyped ==
  ASSUME TypeOK
  PROVE  /\ outbox \in Seq(Event)
         /\ \A n \in DOMAIN outbox : outbox[n] \in Event
<1>1. outbox \in Seq(Event)
  BY DEF TypeOK, Event
<1> QED
  BY <1>1, ElementOfSeq

LEMMA IssuedAreCalls == ASSUME TypeOK PROVE Issued \subseteq Calls
BY EventsAreTyped DEF Issued, Event

-----------------------------------------------------------------------------
(* Typing, one lemma per action.                                           *)

LEMMA AnswerKeepsSteps ==
  ASSUME TypeOK, NEW c \in Calls, NEW code \in Codes,
         NEW i \in Calls \cup {None}, NEW status \in Statuses \cup {Absent},
         NEW version \in Nat, Answer(c, code, i, status, version),
         \A d \in Calls \ {c} : req'[d] = req[d]
  PROVE  StepsOK'
<1>1. pc'[c] = "done"
  BY AnswerKeepsShape
<1>2. ASSUME NEW d \in Calls, d # c
      PROVE  /\ pc'[d] = pc[d] /\ local'[d] = local[d]
             /\ reply'[d] = reply[d] /\ req'[d] = req[d]
  BY <1>2, AnswerKeepsShape, ZenonT(40)
<1> QED
  BY <1>1, <1>2, ZenonT(40) DEF StepsOK, TypeOK

LEMMA ReceiveKeepsTypes ==
  ASSUME TypeOK, NEW c \in Calls, Receive(c)
  PROVE  TypeOK'
<1>1. ASSUME NEW q \in Request, Arrive(c, q)
      PROVE  /\ req' \in [Calls -> Request]
             /\ req'[c] = q
             /\ \A d \in Calls \ {c} : req'[d] = req[d]
             /\ UNCHANGED <<now, db>>
  BY <1>1 DEF Arrive, TypeOK
<1>2. ASSUME NEW q \in Request, Arrive(c, q),
             NEW step \in {"create", "transition"}, Step(c, step, Nothing),
             step = "create" => q.op = "create" /\ q.key # None,
             step = "transition" => q.op \in {"transition", "cancel"}
      PROVE  TypeOK'
  <2>1. /\ pc'[c] = step /\ reply' = reply
        /\ \A d \in Calls \ {c} : pc'[d] = pc[d] /\ local'[d] = local[d]
    BY <1>2, StepKeepsShape, NothingIsTyped
  <2>2. reply[c] = NoReply
    BY <1>2 DEF Arrive, TypeOK, StepsOK
  <2>3. ASSUME NEW d \in Calls, d # c
        PROVE  pc'[d] = pc[d] /\ local'[d] = local[d] /\ req'[d] = req[d]
    BY <1>1, <1>2, <2>1, <2>3
  <2>4. StepsOK'
    BY <1>1, <1>2, <2>1, <2>2, <2>3 DEF StepsOK, TypeOK
  <2>5. /\ pc' \in [Calls -> {"idle", "create", "insert", "transition",
                              "update", "reread", "done"}]
        /\ local' \in [Calls -> [at : Nat, row : Row \cup {NoRow}]]
    BY <1>2, StepKeepsShape, NothingIsTyped
  <2>6. reply' = reply /\ req' \in [Calls -> Request] /\ UNCHANGED <<now, db>>
    BY <1>1, <1>2, <2>1
  <2> QED
    BY <2>4, <2>5, <2>6 DEF TypeOK, db
<1>3. ASSUME NEW q \in Request, Arrive(c, q),
             NEW code \in {"invalid", "forbidden"}, Refuse(c, code)
      PROVE  TypeOK'
  <2>1. code \in Codes
    BY DEF Codes
  <2>2. StepsOK'
    BY <1>1, <1>3, <2>1, AnswerKeepsSteps DEF Refuse
  <2>3. /\ pc' \in [Calls -> {"idle", "create", "insert", "transition",
                              "update", "reread", "done"}]
        /\ local' \in [Calls -> [at : Nat, row : Row \cup {NoRow}]]
        /\ reply' \in [Calls -> ReplyType]
    BY <1>3, <2>1, AnswerKeepsShape DEF Refuse
  <2>4. req' \in [Calls -> Request] /\ UNCHANGED <<now, db>>
    BY <1>1, <1>3
  <2> QED
    BY <2>2, <2>3, <2>4 DEF TypeOK, db, ReplyType, Codes
<1>4. ASSUME NEW k \in Kinds, ReceiveCreate(c, k)
      PROVE  TypeOK'
  <2>1. PICK u \in Users, key \in Keys \cup {None}, p \in Payloads :
          /\ Arrive(c, CreateCall(k, u, key, p))
          /\ \/ Refuse(c, "invalid")
             \/ Refuse(c, "forbidden")
             \/ key # None /\ Step(c, "create", Nothing)
    BY <1>4 DEF ReceiveCreate
  <2>2. CreateCall(k, u, key, p) \in Request
    BY DEF CreateCall, Request
  <2> QED
    BY <1>2, <1>3, <2>1, <2>2 DEF CreateCall
<1>5. ASSUME NEW k \in Kinds, NEW op \in {"transition", "cancel"},
             NEW u \in Users, NEW i \in Issued,
             NEW target \in Targets \cup {"canceled"}, NEW v \in Versions,
             Arrive(c, TransitionCall(op, k, u, i, target, v)),
             \/ Refuse(c, "invalid")
             \/ Refuse(c, "forbidden")
             \/ Step(c, "transition", Nothing)
      PROVE  TypeOK'
  <2>1. i \in Calls
    BY IssuedAreCalls
  <2>2. TransitionCall(op, k, u, i, target, v) \in Request
    BY <2>1 DEF TransitionCall, Request
  <2> QED
    BY <1>2, <1>3, <1>5, <2>2 DEF TransitionCall
<1>6. ASSUME NEW k \in Kinds, ReceiveTransition(c, k)
      PROVE  TypeOK'
  BY <1>5, <1>6 DEF ReceiveTransition
<1>7. ASSUME NEW k \in Kinds, ReceiveCancel(c, k)
      PROVE  TypeOK'
  BY <1>5, <1>7 DEF ReceiveCancel
<1> QED
  BY <1>4, <1>6, <1>7 DEF Receive


TablesOK ==
  /\ rows \in [Calls -> Row \cup {NoRow}]
  /\ idem \in [Kinds \X Keys ->
       [hash : Payloads \X Users, id : Calls, expires : Nat] \cup {NoRecord}]
  /\ audit \in Seq([call : Calls, actor : Users, id : Calls,
                    outcome : Statuses \cup {"accepted"}])
  /\ outbox \in Seq(Event)

LEMMA TablesAreTyped == ASSUME TypeOK PROVE TablesOK
BY DEF TypeOK, TablesOK, Event

\* A call that goes on to its next step, whatever it did to the tables.
LEMMA GoingOnKeepsTypes ==
  ASSUME TypeOK, TablesOK', NEW c \in Calls,
         NEW step \in {"insert", "update", "reread"}, NEW mem \in Memory,
         Step(c, step, mem), UNCHANGED <<now, req>>,
         step = "insert" => pc[c] = "create",
         step \in {"update", "reread"} => pc[c] \in {"transition", "update"},
         step = "update" => mem.row # NoRow
  PROVE  TypeOK'
<1>1. /\ pc'[c] = step /\ local'[c] = mem /\ reply' = reply
      /\ \A d \in Calls \ {c} : pc'[d] = pc[d] /\ local'[d] = local[d]
      /\ pc' \in [Calls -> {"idle", "create", "insert", "transition",
                            "update", "reread", "done"}]
      /\ local' \in [Calls -> Memory]
  BY StepKeepsShape DEF Memory
<1>2. StepsOK'
  BY <1>1 DEF StepsOK, TypeOK
<1> QED
  BY <1>1, <1>2 DEF TypeOK, TablesOK, Memory, Event

\* A call that is answered, whatever it did to the tables.
LEMMA AnswerKeepsTypes ==
  ASSUME TypeOK, TablesOK', NEW c \in Calls, NEW code \in Codes,
         NEW i \in Calls \cup {None}, NEW status \in Statuses \cup {Absent},
         NEW version \in Nat, Answer(c, code, i, status, version),
         UNCHANGED <<now, req>>
  PROVE  TypeOK'
<1>1. StepsOK'
  BY AnswerKeepsSteps
<1> QED
  BY <1>1, AnswerKeepsShape DEF TypeOK, TablesOK, Event, ReplyType, Codes

LEMMA RefusalKeepsTypes ==
  ASSUME TypeOK, NEW c \in Calls, NEW code \in Codes, Refuse(c, code),
         UNCHANGED <<now, db, req>>
  PROVE  TypeOK'
<1>1. TablesOK'
  BY TablesAreTyped DEF TablesOK, db
<1> QED
  BY <1>1, AnswerKeepsTypes DEF Refuse

LEMMA CreatorsKey ==
  ASSUME TypeOK, NEW c \in Calls, pc[c] \in {"create", "insert"}
  PROVE  /\ IdemKey(c) \in Kinds \X Keys
         /\ req[c].op = "create"
         /\ req[c].kind \in Kinds /\ req[c].actor \in Users
         /\ req[c].payload \in Payloads
         /\ Digest(req[c]) \in Payloads \X Users
<1>1. req[c].op = "create" /\ req[c].key # None
  BY DEF TypeOK, StepsOK
<1> QED
  BY <1>1, RequestKinds DEF IdemKey, Digest

LEMMA StartKeepsTypes ==
  ASSUME TypeOK, NEW c \in Calls, Start(c)
  PROVE  TypeOK'
<1> DEFINE record == idem[IdemKey(c)]
<1>1. /\ pc[c] = "create"
      /\ Refuse(c, "invalid") \/ Lookup(c, record)
      /\ UNCHANGED <<now, db, req>>
  BY DEF Start, StartCreate
<1>2. record \in [hash : Payloads \X Users, id : Calls, expires : Nat]
                 \cup {NoRecord}
  BY <1>1, CreatorsKey DEF TypeOK
<1>3. TablesOK'
  BY <1>1, TablesAreTyped DEF TablesOK, db
<1>4. CASE Refuse(c, "invalid") \/ Refuse(c, "conflict") \/ Refuse(c, "internal")
  BY <1>1, <1>4, RefusalKeepsTypes DEF Codes
<1>5. CASE Step(c, "insert", [at |-> now, row |-> NoRow])
  <2>1. [at |-> now, row |-> NoRow] \in Memory
    BY DEF Memory, TypeOK
  <2> QED
    BY <1>1, <1>3, <1>5, <2>1, GoingOnKeepsTypes
<1>6. CASE Live(record, now) /\ Answer(c, "ok", record.id, StatusPlanned, 1)
  <2>1. record.id \in Calls \cup {None}
    BY <1>2 DEF NoRecord
  <2>2. StatusPlanned \in Statuses
    BY DEF StatusPlanned, Statuses
  <2> QED
    BY <1>1, <1>3, <1>6, <2>1, <2>2, AnswerKeepsTypes DEF Codes
<1> QED
  BY <1>1, <1>4, <1>5, <1>6 DEF Lookup

\* The rows, entries and records that a commit of Create adds are typed.
LEMMA InsertKeepsTables ==
  ASSUME TypeOK, NEW c \in Calls, pc[c] = "insert", InsertAll(c)
  PROVE  TablesOK'
<1>1. StatusPlanned \in Statuses
  BY DEF StatusPlanned, Statuses
<1>2. rows' \in [Calls -> Row \cup {NoRow}]
  BY <1>1, CreatorsKey DEF InsertAll, TypeOK, Row
<1>3. local[c].at + Retention \in Nat
  BY ConstantsAssumption DEF TypeOK
<1>4. idem' \in [Kinds \X Keys ->
        [hash : Payloads \X Users, id : Calls, expires : Nat] \cup {NoRecord}]
  BY <1>3, CreatorsKey DEF InsertAll, TypeOK
<1>5. audit' \in Seq([call : Calls, actor : Users, id : Calls,
                      outcome : Statuses \cup {"accepted"}])
  BY CreatorsKey, AppendProperties DEF InsertAll, TypeOK
<1>6. outbox' \in Seq(Event)
  BY <1>1, EventsAreTyped, AppendProperties DEF InsertAll, Event
<1> QED
  BY <1>2, <1>4, <1>5, <1>6 DEF TablesOK

LEMMA CommitKeepsTypes ==
  ASSUME TypeOK, NEW c \in Calls, Commit(c)
  PROVE  TypeOK'
<1>1. /\ pc[c] = "insert"
      /\ \/ /\ Refuse(c, "internal") \/ Refuse(c, "conflict")
            /\ UNCHANGED db
         \/ InsertAll(c) /\ Answer(c, "ok", c, StatusPlanned, 1)
      /\ UNCHANGED <<now, req>>
  BY DEF Commit, CommitCreate
<1>2. CASE UNCHANGED db
  BY <1>1, <1>2, RefusalKeepsTypes, TablesAreTyped, AnswerKeepsTypes,
     InsertKeepsTables
  DEF Codes, StatusPlanned, Statuses
<1>3. CASE InsertAll(c) /\ Answer(c, "ok", c, StatusPlanned, 1)
  BY <1>1, <1>3, AnswerKeepsTypes, InsertKeepsTables
  DEF Codes, StatusPlanned, Statuses
<1> QED
  BY <1>1, <1>2, <1>3


\* The row a transition has read, and may update, is the row of its request.
LEMMA MoversRow ==
  ASSUME TypeOK, NEW c \in Calls, pc[c] \in {"transition", "update", "reread"}
  PROVE  /\ req[c].op \in {"transition", "cancel"}
         /\ req[c].id \in Calls /\ req[c].target \in Statuses
         /\ req[c].actor \in Users
         /\ rows[req[c].id] \in Row \cup {NoRow}
         /\ pc[c] = "update" => local[c].row \in Row
<1>1. req[c].op \in {"transition", "cancel"}
  BY DEF TypeOK, StepsOK
<1>2. pc[c] = "update" => local[c].row \in Row
  BY DEF TypeOK, StepsOK
<1> QED
  BY <1>1, <1>2, RequestKinds DEF TypeOK

LEMMA StartTransitionKeepsTypes ==
  ASSUME TypeOK, NEW c \in Calls, StartTransition(c, DefaultGraph)
  PROVE  TypeOK'
<1> DEFINE row == rows[req[c].id]
<1>1. /\ pc[c] = "transition"
      /\ UNCHANGED <<now, db, req>>
  BY DEF StartTransition
<1>2. CASE Refuse(c, "not_found") \/ Refuse(c, "conflict")
  BY <1>1, <1>2, RefusalKeepsTypes DEF Codes
<1>3. CASE Found(c) /\ Step(c, "update", [at |-> 0, row |-> row])
  <2>1. [at |-> 0, row |-> row] \in Memory
    BY <1>1, MoversRow DEF Memory
  <2>2. TablesOK'
    BY <1>1, TablesAreTyped DEF TablesOK, db
  <2>3. row # NoRow
    BY <1>3 DEF Found
  <2> QED
    BY <1>1, <1>3, <2>1, <2>2, <2>3, GoingOnKeepsTypes
<1> QED
  BY <1>2, <1>3 DEF StartTransition

\* So are those that a commit of Transition adds.
LEMMA UpdateKeepsTables ==
  ASSUME TypeOK, NEW c \in Calls, pc[c] = "update", Unchanged(c), UpdateAll(c)
  PROVE  TablesOK'
<1> DEFINE i == req[c].id
           old == rows[i]
           new == [old EXCEPT !.status = req[c].target,
                              !.version = old.version + 1]
<1>1. i \in Calls /\ local[c].row \in Row /\ req[c].target \in Statuses
      /\ req[c].actor \in Users
  BY MoversRow
<1>2. old \in Row
  <2>1. old.version # NoRow.version
    BY <1>1 DEF Unchanged, Row, NoRow
  <2> QED
    BY <1>1, <2>1 DEF TypeOK
<1>3. new \in Row
  <2>1. /\ old.kind \in Kinds /\ old.payload \in Payloads /\ old.by \in Users
        /\ old.version + 1 \in Nat \ {0}
    BY <1>2 DEF Row
  <2>2. [old EXCEPT !.status = req[c].target] \in Row
    BY <1>1, <1>2 DEF Row
  <2>3. new = [[old EXCEPT !.status = req[c].target]
                 EXCEPT !.version = old.version + 1]
    BY <1>2
  <2> QED
    BY <2>1, <2>2, <2>3 DEF Row
<1>4. rows' = [rows EXCEPT ![i] = new]
  BY <1>1, <1>2 DEF UpdateAll, TypeOK, Row
<1>5. rows' \in [Calls -> Row \cup {NoRow}]
  BY <1>1, <1>3, <1>4 DEF TypeOK
<1>6. audit' \in Seq([call : Calls, actor : Users, id : Calls,
                      outcome : Statuses \cup {"accepted"}])
  BY <1>1, AppendProperties DEF UpdateAll, TypeOK
<1>7. outbox' \in Seq(Event)
  BY <1>1, EventsAreTyped, AppendProperties DEF UpdateAll, Event, Row
<1>8. idem' = idem
  BY DEF UpdateAll
<1> QED
  BY <1>5, <1>6, <1>7, <1>8 DEF TablesOK, TypeOK

LEMMA CommitTransitionKeepsTypes ==
  ASSUME TypeOK, NEW c \in Calls, CommitTransition(c)
  PROVE  TypeOK'
<1>1. pc[c] = "update" /\ UNCHANGED <<now, req>>
  BY DEF CommitTransition
<1>2. CASE Refuse(c, "conflict") /\ UNCHANGED db
  BY <1>1, <1>2, RefusalKeepsTypes DEF Codes
<1>3. CASE Unchanged(c) /\ UpdateAll(c) /\ Step(c, "reread", Nothing)
  BY <1>1, <1>3, UpdateKeepsTables, GoingOnKeepsTypes, NothingIsTyped
  DEF Memory
<1> QED
  BY <1>2, <1>3 DEF CommitTransition

LEMMA FinishTransitionKeepsTypes ==
  ASSUME TypeOK, NEW c \in Calls, FinishTransition(c)
  PROVE  TypeOK'
<1> DEFINE row == rows[req[c].id]
<1>1. pc[c] = "reread" /\ UNCHANGED <<now, db, req>>
  BY DEF FinishTransition
<1>2. CASE Refuse(c, "not_found")
  BY <1>1, <1>2, RefusalKeepsTypes DEF Codes
<1>3. CASE Found(c) /\ Answer(c, "ok", req[c].id, row.status, row.version)
  <2>1. row \in Row /\ req[c].id \in Calls
    BY <1>1, <1>3, MoversRow DEF Found
  <2>2. TablesOK'
    BY <1>1, TablesAreTyped DEF TablesOK, db
  <2>3. row.status \in Statuses /\ row.version \in Nat
    BY <2>1 DEF Row
  <2> QED
    BY <1>1, <1>3, <2>1, <2>2, <2>3, AnswerKeepsTypes DEF Codes
<1> QED
  BY <1>2, <1>3 DEF FinishTransition

LEMMA DeleteDraftKeepsTypes ==
  ASSUME TypeOK, NEW i \in Calls, DeleteDraft(i)
  PROVE  TypeOK'
<1>1. rows' \in [Calls -> Row \cup {NoRow}]
  BY DEF DeleteDraft, TypeOK
<1>2. StepsOK'
  BY DEF DeleteDraft, TypeOK, StepsOK
<1> QED
  BY <1>1, <1>2 DEF DeleteDraft, TypeOK

LEMMA CrashKeepsTypes ==
  ASSUME TypeOK, Crash
  PROVE  TypeOK'
<1>1. /\ pc' \in [Calls -> {"idle", "create", "insert", "transition",
                            "update", "reread", "done"}]
      /\ local' \in [Calls -> [at : Nat, row : Row \cup {NoRow}]]
  BY NothingIsTyped DEF Crash, TypeOK
<1>2. [NoReply EXCEPT !.code = "lost"] \in ReplyType
  BY DEF NoReply, ReplyType, Codes
<1>3. reply' \in [Calls -> ReplyType]
  BY <1>2 DEF Crash, TypeOK, ReplyType, Codes
<1>4. StepsOK'
  BY DEF Crash, TypeOK, StepsOK, InFlight
<1> QED
  BY <1>1, <1>3, <1>4 DEF Crash, TypeOK, ReplyType, Codes, db

LEMMA PruneKeepsTypes ==
  ASSUME TypeOK, Prune
  PROVE  TypeOK'
<1>1. StepsOK'
  BY DEF Prune, TypeOK, StepsOK
<1> QED
  BY <1>1 DEF Prune, TypeOK

LEMMA TickKeepsTypes ==
  ASSUME TypeOK, Tick
  PROVE  TypeOK'
<1>1. StepsOK'
  BY DEF Tick, TypeOK, StepsOK
<1> QED
  BY <1>1 DEF Tick, TypeOK, db

LEMMA StepKeepsTypes ==
  ASSUME TypeOK, [Next]_vars
  PROVE  TypeOK'
<1>1. ASSUME NEW c \in Calls, CallStep(c)
      PROVE  TypeOK'
  <2>1. CASE DatabaseFault(c)
    BY <2>1, RefusalKeepsTypes DEF DatabaseFault, Codes
  <2> QED
    BY <1>1, <2>1, ReceiveKeepsTypes, StartKeepsTypes, CommitKeepsTypes,
       StartTransitionKeepsTypes, CommitTransitionKeepsTypes,
       FinishTransitionKeepsTypes, DeleteDraftKeepsTypes
    DEF CallStep
<1>2. CASE UNCHANGED vars
  BY <1>2 DEF vars, TypeOK, StepsOK
<1> QED
  BY <1>1, <1>2, StepIsGeneric, TickKeepsTypes, CrashKeepsTypes,
     PruneKeepsTypes

(***************************************************************************)
(* The tables hold rows of their schemas and every call is at a step of    *)
(* the operation it asked for, for any number of calls.                    *)
(***************************************************************************)
THEOREM TypeCorrect == Spec => []TypeOK
<1>1. Init => TypeOK
  BY EmptySeq, NothingIsTyped, ConstantsAssumption
  DEF Init, TypeOK, StepsOK, NoReply, Request
<1>2. TypeOK /\ [Next]_vars => TypeOK'
  BY StepKeepsTypes
<1> QED
  BY <1>1, <1>2, PTL DEF Spec

-----------------------------------------------------------------------------
(* No lost update.  The invariant: a call that has not committed its       *)
(* create has no row and no event, so the first event of an object is its  *)
(* creation; an object that exists is at least as far as its events; and a *)
(* call about to update holds a row its target may follow.                 *)

Unborn(c) == pc[c] \in {"idle", "create", "insert"}

UnbornHasNoTrace == \A c \in Calls : Unborn(c) => rows[c] = NoRow /\ c \notin Issued

RowIsIssued == \A i \in Calls : rows[i] # NoRow => i \in Issued

RowIsAhead ==
  \A n \in DOMAIN outbox :
    LET row == rows[outbox[n].id]
    IN  row # NoRow => outbox[n].version <= row.version

UpdateIsAllowed ==
  \A c \in Calls :
    pc[c] = "update" =>
      Allows(DefaultGraph, local[c].row.status, req[c].target)

LogInv ==
  /\ TypeOK
  /\ UnbornHasNoTrace
  /\ RowIsIssued
  /\ RowIsAhead
  /\ UpdateIsAllowed
  /\ OneWriterPerVersion

\* A step of a call: what it does to the tables, and where it leaves the call.
LEMMA EffectOfCall ==
  ASSUME TypeOK, NEW c \in Calls, CallStep(c)
  PROVE  \/ UNCHANGED db
         \/ pc[c] = "insert" /\ InsertAll(c) /\ Answer(c, "ok", c, StatusPlanned, 1)
         \/ pc[c] = "update" /\ Unchanged(c) /\ UpdateAll(c) /\ Step(c, "reread", Nothing)
         \/ DeleteDraft(c)
BY DEF CallStep, Receive, ReceiveCreate, ReceiveTransition, ReceiveCancel,
       Arrive, Start, StartCreate, Commit, CommitCreate, StartTransition,
       CommitTransition, FinishTransition, DatabaseFault

LEMMA AnswerMovesOne ==
  ASSUME TypeOK, NEW c \in Calls, NEW code, NEW i, NEW status, NEW version,
         Answer(c, code, i, status, version)
  PROVE  /\ pc'[c] = "done"
         /\ \A d \in Calls \ {c} : pc'[d] = pc[d] /\ local'[d] = local[d]
BY DEF Answer, TypeOK

LEMMA StepMovesOne ==
  ASSUME TypeOK, NEW c \in Calls, NEW step, NEW mem, Step(c, step, mem)
  PROVE  /\ pc'[c] = step /\ local'[c] = mem
         /\ \A d \in Calls \ {c} : pc'[d] = pc[d] /\ local'[d] = local[d]
BY DEF Step, TypeOK

LEMMA CallMovesOne ==
  ASSUME TypeOK, NEW c \in Calls, CallStep(c)
  PROVE  /\ \A d \in Calls \ {c} :
              pc'[d] = pc[d] /\ local'[d] = local[d] /\ req'[d] = req[d]
         /\ Unborn(c)' => Unborn(c)
         /\ pc'[c] = "update" =>
              \/ Allows(DefaultGraph, local'[c].row.status, req'[c].target)
              \/ pc[c] = "update" /\ local'[c] = local[c] /\ req'[c] = req[c]
<1>1. CASE Receive(c)
  <2>1. PICK q : Arrive(c, q)
    BY <1>1 DEF Receive, ReceiveCreate, ReceiveTransition, ReceiveCancel
  <2>2. \/ Refuse(c, "invalid") \/ Refuse(c, "forbidden")
        \/ Step(c, "create", Nothing) \/ Step(c, "transition", Nothing)
    BY <1>1 DEF Receive, ReceiveCreate, ReceiveTransition, ReceiveCancel
  <2>3. \A d \in Calls \ {c} : req'[d] = req[d]
    BY <2>1 DEF Arrive, TypeOK
  <2>4. pc[c] = "idle"
    BY <2>1 DEF Arrive
  <2> QED
    BY <2>2, <2>3, <2>4, AnswerMovesOne, StepMovesOne DEF Refuse, Unborn
<1>2. CASE Start(c)
  <2>1. pc[c] = "create" /\ req' = req
    BY <1>2 DEF Start, StartCreate
  <2>2. \/ \E code, i, status, version : Answer(c, code, i, status, version)
        \/ \E mem : Step(c, "insert", mem)
    BY <1>2 DEF Start, StartCreate, Lookup, Refuse
  <2> QED
    BY <2>1, <2>2, AnswerMovesOne, StepMovesOne DEF Unborn
<1>3. CASE Commit(c)
  <2>1. \E code, i, status, version : Answer(c, code, i, status, version)
    BY <1>3 DEF Commit, CommitCreate, Refuse
  <2> QED
    BY <1>3, <2>1, AnswerMovesOne DEF Commit, CommitCreate, Unborn
<1>4. CASE StartTransition(c, DefaultGraph)
  <2>1. pc[c] = "transition" /\ req' = req
    BY <1>4 DEF StartTransition
  <2>2. CASE Refuse(c, "not_found") \/ Refuse(c, "conflict")
    BY <2>1, <2>2, AnswerMovesOne DEF Refuse, Unborn
  <2>3. ASSUME NEW row, row = rows[req[c].id],
               Allows(DefaultGraph, row.status, req[c].target),
               Step(c, "update", [at |-> 0, row |-> row])
        PROVE  /\ \A d \in Calls \ {c} : pc'[d] = pc[d] /\ local'[d] = local[d]
               /\ pc'[c] = "update"
               /\ Allows(DefaultGraph, local'[c].row.status, req[c].target)
    BY <2>3, StepMovesOne
  <2> QED
    BY <1>4, <2>1, <2>2, <2>3 DEF StartTransition, Unborn
<1>5. CASE CommitTransition(c)
  BY <1>5, AnswerMovesOne, StepMovesOne DEF CommitTransition, Refuse, Unborn
<1>6. CASE FinishTransition(c) \/ DatabaseFault(c)
  <2>1. \E code, i, status, version : Answer(c, code, i, status, version)
    BY <1>6 DEF FinishTransition, DatabaseFault, Refuse
  <2> QED
    BY <1>6, <2>1, AnswerMovesOne DEF FinishTransition, DatabaseFault, Unborn
<1>7. CASE DeleteDraft(c)
  BY <1>7 DEF DeleteDraft, Unborn
<1> QED
  BY <1>1, <1>2, <1>3, <1>4, <1>5, <1>6, <1>7 DEF CallStep

\* Appending an event issues its identity and keeps every older event.
LEMMA AppendedEvent ==
  ASSUME NEW log \in Seq(Event), NEW e \in Event
  PROVE  /\ DOMAIN Append(log, e) = DOMAIN log \cup {Len(log) + 1}
         /\ Len(log) + 1 \notin DOMAIN log
         /\ Append(log, e)[Len(log) + 1] = e
         /\ \A n \in DOMAIN log : Append(log, e)[n] = log[n]
BY AppendProperties, LenProperties

\* The tables and the events of LogInv, for a step that leaves them alone.
LEMMA QuietStepKeepsLog ==
  ASSUME LogInv, TypeOK', UNCHANGED <<rows, outbox>>
  PROVE  RowIsIssued' /\ RowIsAhead' /\ OneWriterPerVersion' /\ Issued' = Issued
BY DEF LogInv, RowIsIssued, RowIsAhead, OneWriterPerVersion, Issued

LEMMA InsertKeepsLog ==
  ASSUME LogInv, TypeOK', NEW c \in Calls, pc[c] = "insert", InsertAll(c)
  PROVE  /\ RowIsIssued' /\ RowIsAhead' /\ OneWriterPerVersion'
         /\ Issued' = Issued \cup {c}
         /\ \A d \in Calls \ {c} : rows'[d] = rows[d]
<1> DEFINE e == [id |-> c, from |-> Absent, to |-> StatusPlanned, version |-> 1]
           last == Len(outbox) + 1
<1>1. e \in Event
  BY DEF Event, StatusPlanned, Statuses
<1>2. outbox' = Append(outbox, e)
  BY DEF InsertAll
<1>3. /\ DOMAIN outbox' = DOMAIN outbox \cup {last}
      /\ last \notin DOMAIN outbox
      /\ outbox'[last] = e
      /\ \A n \in DOMAIN outbox : outbox'[n] = outbox[n]
  BY <1>1, <1>2, AppendedEvent, EventsAreTyped DEF LogInv
<1>4. c \notin Issued
  BY DEF LogInv, UnbornHasNoTrace, Unborn
<1>5. Issued' = Issued \cup {c}
  BY <1>3 DEF Issued
<1>6. /\ \A d \in Calls \ {c} : rows'[d] = rows[d]
      /\ rows'[c].version = 1
  BY DEF InsertAll, LogInv, TypeOK
<1>7. RowIsIssued'
  BY <1>5, <1>6 DEF RowIsIssued, LogInv
<1>8. RowIsAhead'
  <2> SUFFICES ASSUME NEW n \in DOMAIN outbox', rows'[outbox'[n].id] # NoRow
               PROVE  outbox'[n].version <= rows'[outbox'[n].id].version
    BY DEF RowIsAhead
  <2>1. CASE n = last
    BY <1>3, <1>6, <2>1
  <2>2. CASE n \in DOMAIN outbox
    <3>1. outbox[n].id \in Calls \ {c}
      BY <1>4, <2>2, IssuedAreCalls DEF Issued, LogInv
    <3> QED
      BY <1>3, <1>6, <2>2, <3>1 DEF RowIsAhead, LogInv
  <2> QED
    BY <1>3, <2>1, <2>2
<1>9. OneWriterPerVersion'
  <2>1. \A n \in DOMAIN outbox : outbox[n].id # c
    BY <1>4 DEF Issued
  <2> QED
    BY <1>3, <2>1 DEF OneWriterPerVersion, LogInv
<1> QED
  BY <1>5, <1>6, <1>7, <1>8, <1>9

LEMMA UpdateKeepsLog ==
  ASSUME LogInv, TypeOK', NEW c \in Calls, pc[c] = "update",
         Unchanged(c), UpdateAll(c)
  PROVE  /\ RowIsIssued' /\ RowIsAhead' /\ OneWriterPerVersion'
         /\ Issued' = Issued
         /\ rows[req[c].id] # NoRow
         /\ \A d \in Calls \ {req[c].id} : rows'[d] = rows[d]
<1> DEFINE i == req[c].id
           version == local[c].row.version
           e == [id |-> i, from |-> local[c].row.status, to |-> req[c].target,
                 version |-> version + 1]
           last == Len(outbox) + 1
<1>1. i \in Calls /\ local[c].row \in Row /\ req[c].target \in Statuses
  BY MoversRow DEF LogInv
<1>2. version \in Nat \ {0} /\ e \in Event
  BY <1>1 DEF Event, Row
<1>3. rows[i] # NoRow /\ rows[i].version = version
  BY <1>2 DEF Unchanged, NoRow
<1>4. /\ rows'[i].version = version + 1
      /\ \A d \in Calls \ {i} : rows'[d] = rows[d]
  BY <1>1, <1>3 DEF UpdateAll, LogInv, TypeOK, Row
<1>5. i \in Issued
  BY <1>1, <1>3 DEF LogInv, RowIsIssued
<1>6. /\ DOMAIN outbox' = DOMAIN outbox \cup {last}
      /\ last \notin DOMAIN outbox
      /\ outbox'[last] = e
      /\ \A n \in DOMAIN outbox : outbox'[n] = outbox[n]
  BY <1>2, AppendedEvent, EventsAreTyped DEF LogInv, UpdateAll
<1>7. Issued' = Issued
  <2>1. Issued' = Issued \cup {i}
    BY <1>6 DEF Issued
  <2> QED
    BY <1>5, <2>1
<1>8. RowIsIssued'
  BY <1>1, <1>4, <1>5, <1>7 DEF RowIsIssued, LogInv
<1>9. \A n \in DOMAIN outbox : outbox[n].id = i => outbox[n].version <= version
  BY <1>3 DEF LogInv, RowIsAhead
<1>10. \A n \in DOMAIN outbox : outbox[n].version \in Nat /\ outbox[n].id \in Calls
  BY EventsAreTyped DEF LogInv, Event
<1>11. RowIsAhead'
  <2> SUFFICES ASSUME NEW n \in DOMAIN outbox', rows'[outbox'[n].id] # NoRow
               PROVE  outbox'[n].version <= rows'[outbox'[n].id].version
    BY DEF RowIsAhead
  <2>1. CASE n = last
    <3>1. outbox'[n] = e /\ e.id = i /\ e.version = version + 1
      BY <1>6, <2>1
    <3> QED
      BY <1>2, <1>4, <3>1
  <2>2. CASE n \in DOMAIN outbox /\ outbox[n].id = i
    BY <1>2, <1>4, <1>6, <1>9, <1>10, <2>2
  <2>3. CASE n \in DOMAIN outbox /\ outbox[n].id # i
    BY <1>4, <1>6, <1>10, <2>3 DEF RowIsAhead, LogInv
  <2> QED
    BY <1>6, <2>1, <2>2, <2>3
<1>12. OneWriterPerVersion'
  <2>1. \A n \in DOMAIN outbox : outbox[n].id = i => outbox[n].version # version + 1
    BY <1>2, <1>9, <1>10
  <2> QED
    BY <1>6, <2>1 DEF OneWriterPerVersion, LogInv
<1> QED
  BY <1>3, <1>4, <1>7, <1>8, <1>11, <1>12

LEMMA DeleteKeepsLog ==
  ASSUME LogInv, TypeOK', NEW i \in Calls, DeleteDraft(i)
  PROVE  /\ RowIsIssued' /\ RowIsAhead' /\ OneWriterPerVersion'
         /\ Issued' = Issued
         /\ \A d \in Calls : rows'[d] # NoRow => rows'[d] = rows[d]
<1>1. /\ rows' = [rows EXCEPT ![i] = NoRow] /\ outbox' = outbox
  BY DEF DeleteDraft
<1>2. \A d \in Calls : rows'[d] # NoRow => rows'[d] = rows[d]
  BY <1>1 DEF LogInv, TypeOK
<1>3. Issued' = Issued
  BY <1>1 DEF Issued
<1>4. \A n \in DOMAIN outbox : outbox[n].id \in Calls
  BY EventsAreTyped DEF LogInv, Event
<1> QED
  BY <1>1, <1>2, <1>3, <1>4
  DEF LogInv, RowIsIssued, RowIsAhead, OneWriterPerVersion

LEMMA CallKeepsLog ==
  ASSUME LogInv, TypeOK', NEW c \in Calls, CallStep(c)
  PROVE  LogInv'
<1>1. /\ \A d \in Calls \ {c} :
           pc'[d] = pc[d] /\ local'[d] = local[d] /\ req'[d] = req[d]
      /\ Unborn(c)' => Unborn(c)
      /\ pc'[c] = "update" =>
           \/ Allows(DefaultGraph, local'[c].row.status, req'[c].target)
           \/ pc[c] = "update" /\ local'[c] = local[c] /\ req'[c] = req[c]
  BY CallMovesOne DEF LogInv
<1>2. UpdateIsAllowed'
  BY <1>1 DEF LogInv, UpdateIsAllowed
<1>3. \A d \in Calls : Unborn(d)' => Unborn(d)
  BY <1>1 DEF Unborn
<1>4. CASE UNCHANGED db
  <2>1. RowIsIssued' /\ RowIsAhead' /\ OneWriterPerVersion' /\ Issued' = Issued
    BY <1>4, QuietStepKeepsLog DEF db
  <2>2. UnbornHasNoTrace'
    BY <1>3, <1>4, <2>1 DEF LogInv, UnbornHasNoTrace, db
  <2> QED
    BY <1>2, <2>1, <2>2 DEF LogInv
<1>5. CASE pc[c] = "insert" /\ InsertAll(c) /\ Answer(c, "ok", c, StatusPlanned, 1)
  <2>1. ~Unborn(c)'
    BY <1>5, AnswerMovesOne DEF Unborn, LogInv
  <2>2. UnbornHasNoTrace'
    BY <1>3, <1>5, <2>1, InsertKeepsLog DEF LogInv, UnbornHasNoTrace
  <2> QED
    BY <1>2, <1>5, <2>2, InsertKeepsLog DEF LogInv
<1>6. CASE pc[c] = "update" /\ Unchanged(c) /\ UpdateAll(c) /\ Step(c, "reread", Nothing)
  <2>1. UnbornHasNoTrace'
    BY <1>3, <1>6, UpdateKeepsLog DEF LogInv, UnbornHasNoTrace
  <2> QED
    BY <1>2, <1>6, <2>1, UpdateKeepsLog DEF LogInv
<1>7. CASE DeleteDraft(c)
  <2>1. UnbornHasNoTrace'
    BY <1>3, <1>7, DeleteKeepsLog DEF LogInv, UnbornHasNoTrace
  <2> QED
    BY <1>2, <1>7, <2>1, DeleteKeepsLog DEF LogInv
<1> QED
  BY <1>4, <1>5, <1>6, <1>7, EffectOfCall DEF LogInv

LEMMA StepKeepsLog ==
  ASSUME LogInv, [Next]_vars
  PROVE  LogInv'
<1>1. TypeOK'
  BY StepKeepsTypes DEF LogInv
<1>2. CASE Tick \/ Crash \/ Prune \/ UNCHANGED vars
  <2>1. UNCHANGED <<rows, outbox, req>>
    BY <1>2 DEF Tick, Crash, Prune, vars, db
  <2>2. \A c \in Calls : pc'[c] = "done" \/ (pc'[c] = pc[c] /\ local'[c] = local[c])
    <3>1. CASE Crash
      BY <3>1 DEF Crash
    <3>2. CASE UNCHANGED <<pc, local>>
      BY <3>2
    <3> QED
      BY <1>2, <3>1, <3>2 DEF Tick, Prune, vars
  <2>3. UnbornHasNoTrace' /\ UpdateIsAllowed'
    BY <2>1, <2>2
    DEF LogInv, UnbornHasNoTrace, UpdateIsAllowed, Unborn, Issued
  <2> QED
    BY <1>1, <2>1, <2>3, QuietStepKeepsLog DEF LogInv
<1> QED
  BY <1>1, <1>2, StepIsGeneric, CallKeepsLog

LEMMA InitialLog == Init => LogInv
<1> SUFFICES ASSUME Init PROVE LogInv
  OBVIOUS
<1>1. TypeOK
  BY EmptySeq, NothingIsTyped, ConstantsAssumption
  DEF Init, TypeOK, StepsOK, NoReply, Request
<1> QED
  BY <1>1
  DEF Init, LogInv, UnbornHasNoTrace, RowIsIssued, RowIsAhead,
      UpdateIsAllowed, OneWriterPerVersion, Issued, Unborn

THEOREM LogInvariant == Spec => []LogInv
BY InitialLog, StepKeepsLog, PTL DEF Spec

(***************************************************************************)
(* No lost update: of any number of calls that read the same row, at most  *)
(* one commits its transition.                                             *)
(***************************************************************************)
THEOREM NoLostUpdate == Spec => []OneWriterPerVersion
<1>1. LogInv => OneWriterPerVersion
  BY DEF LogInv
<1> QED
  BY <1>1, LogInvariant, PTL

-----------------------------------------------------------------------------
(* The services implement the ledger.                                      *)

Shown == [c \in Calls |-> [status |-> rows[c].status,
                           version |-> rows[c].version]]

\* The ledger has the vocabulary of Lifecycle under names of its own.
LEMMA SameVocabulary ==
  /\ Ledger!Absent = Absent
  /\ \A graph, from, to : Ledger!Allows(graph, from, to) <=> Allows(graph, from, to)
  /\ \A from, to : Allows(DefaultGraph, from, to) => to \in Ledger!States
BY DEF Ledger!Absent, Absent, Ledger!Allows, Allows, Ledger!States

LEMMA InitialLedger == Init => Ledger!Init
BY SameVocabulary DEF Init, Ledger!Init, Ledger!Gone, NoRow

LEMMA InsertOpens ==
  ASSUME LogInv, NEW c \in Calls, pc[c] = "insert", InsertAll(c)
  PROVE  Ledger!Open(c)
<1>1. rows[c] = NoRow /\ c \notin Issued
  BY DEF LogInv, UnbornHasNoTrace, Unborn
<1>2. Shown[c] = Ledger!Gone
  BY <1>1, SameVocabulary DEF Shown, NoRow, Ledger!Gone
<1>3. ~Ledger!Logged(c)
  BY <1>1 DEF Issued, Ledger!Logged
<1>4. rows' = [rows EXCEPT ![c] = rows'[c]]
      /\ rows'[c].status = StatusPlanned /\ rows'[c].version = 1
  BY DEF InsertAll, LogInv, TypeOK
<1>5. Shown' = [Shown EXCEPT ![c] = [status |-> StatusPlanned, version |-> 1]]
  BY <1>4 DEF Shown, LogInv, TypeOK
<1> QED
  BY <1>2, <1>3, <1>5, SameVocabulary
  DEF Ledger!Open, Ledger!Entry, Shown, InsertAll

LEMMA UpdateAdvances ==
  ASSUME LogInv, NEW c \in Calls, pc[c] = "update", Unchanged(c), UpdateAll(c),
         NEW i, i = req[c].id, NEW to, to = req[c].target
  PROVE  Ledger!Advance(i, to)
<1>1. i \in Calls /\ to \in Statuses /\ local[c].row \in Row
  BY MoversRow DEF LogInv
<1>2. /\ rows[i].status = local[c].row.status
      /\ rows[i].version = local[c].row.version
  BY DEF Unchanged
<1>3. rows[i] \in Row
  <2>1. rows[i].version # NoRow.version
    BY <1>1, <1>2 DEF Row, NoRow
  <2> QED
    BY <1>1, <2>1 DEF LogInv, TypeOK
<1>4. Allows(DefaultGraph, Shown[i].status, to)
  BY <1>1, <1>2 DEF LogInv, UpdateIsAllowed, Shown
<1>5. rows'[i].status = to /\ rows'[i].version = rows[i].version + 1
      /\ \A d \in Calls \ {i} : rows'[d] = rows[d]
  BY <1>1, <1>3 DEF UpdateAll, LogInv, TypeOK, Row
<1>6. Shown' = [Shown EXCEPT ![i] = [status |-> to, version |-> Shown[i].version + 1]]
  BY <1>1, <1>5 DEF Shown
<1>7. outbox' = Append(outbox, [id |-> i, from |-> Shown[i].status, to |-> to,
                                version |-> Shown[i].version + 1])
  BY <1>1, <1>2 DEF UpdateAll, Shown
<1> QED
  BY <1>4, <1>6, <1>7, SameVocabulary DEF Ledger!Advance, Ledger!Entry, Shown

LEMMA DeleteWithdraws ==
  ASSUME LogInv, NEW i \in Calls, DeleteDraft(i)
  PROVE  Ledger!Withdraw(i)
<1>1. "DeleteDraft" \in Uncalled /\ Shown[i].status = StatusPlanned
  BY DEF DeleteDraft, Shown
<1>2. Shown' = [Shown EXCEPT ![i] = Ledger!Gone]
  BY SameVocabulary
  DEF DeleteDraft, LogInv, TypeOK, Shown, NoRow, Ledger!Gone
<1> QED
  BY <1>1, <1>2, SameVocabulary DEF Ledger!Withdraw, DeleteDraft, Shown

LEMMA StepImplementsLedger ==
  ASSUME LogInv, [Next]_vars
  PROVE  [Ledger!Next]_(Ledger!ledgerVars)
<1>1. CASE UNCHANGED <<rows, outbox>>
  BY <1>1 DEF Ledger!ledgerVars
<1>2. ASSUME NEW c \in Calls, CallStep(c)
      PROVE  [Ledger!Next]_(Ledger!ledgerVars)
  <2>1. CASE pc[c] = "insert" /\ InsertAll(c)
    BY <2>1, InsertOpens DEF Ledger!Next
  <2>2. CASE pc[c] = "update" /\ Unchanged(c) /\ UpdateAll(c)
    <3>1. PICK i \in Calls, to \in Statuses :
            i = req[c].id /\ to = req[c].target
      BY <2>2, MoversRow DEF LogInv
    <3>2. Ledger!Advance(i, to)
      BY <2>2, <3>1, UpdateAdvances
    <3>3. to \in Ledger!States
      BY <3>2, SameVocabulary DEF Ledger!Advance
    <3> QED
      BY <3>1, <3>2, <3>3 DEF Ledger!Next
  <2>3. CASE DeleteDraft(c)
    BY <2>3, DeleteWithdraws DEF Ledger!Next
  <2> QED
    BY <1>1, <1>2, <2>1, <2>2, <2>3, EffectOfCall DEF LogInv, db
<1>3. Tick \/ Crash \/ Prune \/ UNCHANGED vars => UNCHANGED <<rows, outbox>>
  BY DEF Tick, Crash, Prune, vars, db
<1> QED
  BY <1>1, <1>2, <1>3, StepIsGeneric

(***************************************************************************)
(* The six services, whatever their calls interleave, fault or crash,      *)
(* implement the ledger: objects are opened once, moved one edge of the    *)
(* graph at a time, and every move is logged with the version it reached.  *)
(***************************************************************************)
THEOREM ServicesImplementLedger == Spec => ImplementsLedger
<1>1. LogInv /\ [Next]_vars => [Ledger!Next]_(Ledger!ledgerVars)
  BY StepImplementsLedger
<1> QED
  BY <1>1, InitialLedger, LogInvariant, PTL DEF Spec, ImplementsLedger, Ledger!Spec

=============================================================================
