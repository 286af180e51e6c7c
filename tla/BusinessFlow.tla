---------------------------- MODULE BusinessFlow ----------------------------
(***************************************************************************)
(* The six business services (mission, inspection, transfer, sorting,      *)
(* incident, maintenance) behind their HTTP handlers, over one SQLite      *)
(* database.  Every call is a goroutine of its own.  Its steps are the     *)
(* points where it meets the database:                                     *)
(*                                                                         *)
(*   Create      handler -> validate and look the key up -> commit         *)
(*   Transition  handler -> read the row -> commit -> read the row again   *)
(*                                                                         *)
(* and other calls run between any two of them.  A commit is one step: its *)
(* transaction begins with a write, so SQLite's write lock is held from    *)
(* the first statement to the end, readers see all of it or nothing, and a *)
(* statement that fails rolls all of it back.                              *)
(***************************************************************************)
EXTENDS Naturals, Sequences, FiniteSets, Lifecycle

CONSTANTS
  Kinds,        \* the services in use
  Calls,        \* calls that may be made, each at most once
  Users,        \* authenticated users
  RoleOf,       \* [Users -> Roles]
  Keys,         \* idempotency keys clients choose
  Payloads,     \* bodies of create requests, number, parent, resource, amount, detail, due
  Targets,      \* statuses clients ask for
  Versions,     \* versions clients present
  Hubs, Assets, \* identities that exist in the catalogue
  ForeignKeys,  \* PRAGMA foreign_keys of the pooled connections: {TRUE} when
                \* all enforce them, {TRUE, FALSE} when some do not
  Uncalled,     \* exported operations no production code calls, in use here
  Retention,    \* how long an idempotency record is valid
  MaxInFlight,  \* bound: calls handled at the same time
  MaxTime,      \* bound: last instant of the clock
  None          \* an empty string, NULL, or no value

AllKinds ==
  {"mission", "inspection", "transfer", "sorting", "incident", "maintenance"}

ASSUME ConstantsAssumption ==
  /\ Kinds \subseteq AllKinds
  /\ RoleOf \in [Users -> Roles]
  /\ Targets \subseteq Statuses
  /\ Versions \subseteq Nat
  /\ ForeignKeys \subseteq BOOLEAN
  /\ Uncalled \subseteq {"Prune", "DeleteDraft", "Cancel"}
  /\ Retention \in Nat \ {0}
  /\ MaxInFlight \in Nat
  /\ MaxTime \in Nat

VARIABLES
  now,      \* the clock
  rows,     \* the business tables: [Calls -> row], by the call that inserted
  idem,     \* idempotency_records: [Kinds \X Keys -> record]
  audit,    \* audit_events, in order of id
  outbox,   \* outbox_events, in order of id
  pc,       \* where each call is
  req,      \* what each call asks
  local,    \* what each call remembers between two steps
  reply     \* what each call was told

db == <<rows, idem, audit, outbox>>
vars == <<now, rows, idem, audit, outbox, pc, req, local, reply>>

-----------------------------------------------------------------------------
(* Records.                                                                *)

NoRow ==
  [kind |-> None, payload |-> None, by |-> None,
   status |-> Absent, version |-> 0]

NoRecord == [hash |-> None, id |-> None, expires |-> 0]

NoReply == [code |-> "none", id |-> None, status |-> Absent, version |-> 0]

\* The instant Create read from the clock, or the row Transition read.
Nothing == [at |-> 0, row |-> NoRow]

CreateCall(k, u, key, p) ==
  [op |-> "create", kind |-> k, actor |-> u, key |-> key, payload |-> p,
   id |-> None, target |-> None, expected |-> 0]

TransitionCall(op, k, u, i, target, v) ==
  [op |-> op, kind |-> k, actor |-> u, key |-> None, payload |-> None,
   id |-> i, target |-> target, expected |-> v]

NoCall == TransitionCall("none", None, None, None, None, 0)

\* A bug to detect: the digest leaves the body out.
DigestOfActor(q) == <<None, q.actor>>

(***************************************************************************)
(* requestDigest: SHA-256 of the JSON of the whole request, taken to be    *)
(* injective.  The kind and the key select the record.                     *)
(***************************************************************************)
Digest(q) == <<q.payload, q.actor>>

Step(c, step, mem) ==
  /\ pc' = [pc EXCEPT ![c] = step]
  /\ local' = [local EXCEPT ![c] = mem]
  /\ UNCHANGED reply

Answer(c, code, i, status, version) ==
  /\ pc' = [pc EXCEPT ![c] = "done"]
  /\ local' = [local EXCEPT ![c] = Nothing]
  /\ reply' = [reply EXCEPT
       ![c] = [code |-> code, id |-> i, status |-> status,
               version |-> version]]

Refuse(c, code) == Answer(c, code, None, Absent, 0)

-----------------------------------------------------------------------------
(* The handlers: decode the request, require the permission, then call the *)
(* service.                                                                *)

InFlight == {c \in Calls : pc[c] \notin {"idle", "done"}}

Arrive(c, q) ==
  /\ pc[c] = "idle"
  /\ Cardinality(InFlight) < MaxInFlight
  /\ req' = [req EXCEPT ![c] = q]
  /\ UNCHANGED <<now, db>>

ReceiveCreate(c, k) ==
  \E u \in Users, key \in Keys \cup {None}, p \in Payloads :
    /\ Arrive(c, CreateCall(k, u, key, p))
    /\ \/ /\ key = None
          /\ Refuse(c, "invalid")
       \/ /\ key # None
          /\ ~Can(RoleOf[u], "plan")
          /\ Refuse(c, "forbidden")
       \/ /\ key # None
          /\ Can(RoleOf[u], "plan")
          /\ Step(c, "create", Nothing)

\* Identities are random UUIDs: nobody presents one that was never issued.
Issued == {outbox[n].id : n \in DOMAIN outbox}

ReceiveTransition(c, k) ==
  \E u \in Users, i \in Issued, target \in Targets, v \in Versions :
    /\ Arrive(c, TransitionCall("transition", k, u, i, target, v))
    /\ \/ /\ ~Can(RoleOf[u], TransitionAction(target))
          /\ Refuse(c, "forbidden")
       \/ /\ Can(RoleOf[u], TransitionAction(target))
          /\ Step(c, "transition", Nothing)

\* Service.Cancel, which no handler calls: a reason instead of a permission.
ReceiveCancel(c, k) ==
  \E u \in Users, i \in Issued, v \in Versions, hasReason \in BOOLEAN :
    /\ "Cancel" \in Uncalled
    /\ Arrive(c, TransitionCall("cancel", k, u, i, "canceled", v))
    /\ \/ ~hasReason /\ Refuse(c, "invalid")
       \/ hasReason /\ Step(c, "transition", Nothing)

-----------------------------------------------------------------------------
(* Create.                                                                 *)

\* A bug to detect: the scope is left out of the lookup.
IdemKeyOfAnyScope(c) == <<CHOOSE k \in Kinds : TRUE, req[c].key>>

IdemKey(c) == <<req[c].kind, req[c].key>>

Live(record, t) == record.expires > t

(***************************************************************************)
(* idempotency.Lookup, outside any transaction: an expired record counts   *)
(* as none, and a live one answers the call or refuses it.                 *)
(***************************************************************************)
Lookup(c, record) ==
  \/ /\ ~Live(record, now)
     /\ Step(c, "insert", [at |-> now, row |-> NoRow])
  \/ /\ Live(record, now)
     /\ record.hash # Digest(req[c])
     /\ Refuse(c, "conflict")
  \/ /\ Live(record, now)
     /\ record.hash = Digest(req[c])
     /\ Answer(c, "ok", record.id, StatusPlanned, 1)
  \/ Refuse(c, "internal")              \* the query fails

StartCreate(c, valid) ==
  /\ pc[c] = "create"
  /\ \/ ~valid /\ Refuse(c, "invalid")
     \/ valid /\ Lookup(c, idem[IdemKey(c)])
  /\ UNCHANGED <<now, db, req>>

\* The UNIQUE business number of the kind's table.
NumberTaken(c) ==
  \E d \in Calls :
    /\ rows[d] # NoRow
    /\ rows[d].kind = req[c].kind
    /\ rows[d].payload.number = req[c].payload.number

\* A bug to detect: INSERT OR REPLACE.
KeyAlwaysFree(c) == TRUE

\* idempotency.SaveTx is a plain INSERT: even an expired record is in its way.
KeyFree(c) == idem[IdemKey(c)] = NoRecord

(***************************************************************************)
(* The transaction of Create: the row, its audit entry, its event and the  *)
(* idempotency record, or none of them.  "complete" says that no NOT NULL  *)
(* column is NULL, "linked" that the foreign keys hold where enforced.     *)
(***************************************************************************)
InsertAll(c) ==
  /\ rows' = [rows EXCEPT
       ![c] = [kind |-> req[c].kind, payload |-> req[c].payload,
               by |-> req[c].actor, status |-> StatusPlanned, version |-> 1]]
  /\ audit' = Append(audit,
       [call |-> c, actor |-> req[c].actor, id |-> c, outcome |-> "accepted"])
  /\ outbox' = Append(outbox,
       [id |-> c, from |-> Absent, to |-> StatusPlanned, version |-> 1])
  /\ idem' = [idem EXCEPT
       ![IdemKey(c)] = [hash |-> Digest(req[c]), id |-> c,
                        expires |-> local[c].at + Retention]]

CommitCreate(c, complete, linked) ==
  /\ pc[c] = "insert"
  /\ \/ /\ ~complete
        /\ Refuse(c, "internal")
        /\ UNCHANGED db
     \/ /\ complete
        /\ NumberTaken(c)
        /\ Refuse(c, "conflict")
        /\ UNCHANGED db
     \/ /\ complete
        /\ ~NumberTaken(c)
        /\ ~linked \/ ~KeyFree(c)
        /\ Refuse(c, "internal")
        /\ UNCHANGED db
     \/ /\ complete
        /\ ~NumberTaken(c)
        /\ linked
        /\ KeyFree(c)
        /\ InsertAll(c)
        /\ Answer(c, "ok", c, StatusPlanned, 1)
  /\ UNCHANGED <<now, req>>

-----------------------------------------------------------------------------
(* Transition.                                                             *)

\* Get, in the table of the kind.
Found(c) ==
  /\ rows[req[c].id] # NoRow
  /\ rows[req[c].id].kind = req[c].kind

StartTransition(c, lifecycle) ==
  /\ pc[c] = "transition"
  /\ \/ /\ ~Found(c)
        /\ Refuse(c, "not_found")
     \/ /\ Found(c)
        /\ LET row == rows[req[c].id]
           IN  \/ /\ \/ row.version # req[c].expected
                     \/ ~Allows(lifecycle, row.status, req[c].target)
                  /\ Refuse(c, "conflict")
               \/ /\ row.version = req[c].expected
                  /\ Allows(lifecycle, row.status, req[c].target)
                  /\ Step(c, "update", [at |-> 0, row |-> row])
  /\ UNCHANGED <<now, db, req>>

\* A bug to detect: UPDATE ... WHERE id=?
AnyState(c) == rows[req[c].id] # NoRow

\* The WHERE clause of TransitionTx still matches the row that was read.
Unchanged(c) ==
  /\ rows[req[c].id].status = local[c].row.status
  /\ rows[req[c].id].version = local[c].row.version

UpdateAll(c) ==
  LET i == req[c].id
      from == local[c].row
  IN  /\ rows' = [rows EXCEPT ![i].status = req[c].target,
                              ![i].version = rows[i].version + 1]
      /\ audit' = Append(audit,
           [call |-> c, actor |-> req[c].actor, id |-> i,
            outcome |-> req[c].target])
      /\ outbox' = Append(outbox,
           [id |-> i, from |-> from.status, to |-> req[c].target,
            version |-> from.version + 1])
      /\ UNCHANGED idem

CommitTransition(c) ==
  /\ pc[c] = "update"
  /\ \/ /\ ~Unchanged(c)
        /\ Refuse(c, "conflict")
        /\ UNCHANGED db
     \/ /\ Unchanged(c)
        /\ UpdateAll(c)
        /\ Step(c, "reread", Nothing)
  /\ UNCHANGED <<now, req>>

\* The answer is the row as it is by now: other calls may have moved it on.
FinishTransition(c) ==
  /\ pc[c] = "reread"
  /\ \/ /\ ~Found(c)
        /\ Refuse(c, "not_found")
     \/ /\ Found(c)
        /\ LET row == rows[req[c].id]
           IN  Answer(c, "ok", req[c].id, row.status, row.version)
  /\ UNCHANGED <<now, db, req>>

\* A bug to detect: every database error is reported as a conflict.
DatabaseFaultAsConflict(c) ==
  /\ pc[c] \in {"insert", "transition", "update", "reread"}
  /\ Refuse(c, "conflict")
  /\ UNCHANGED <<now, db, req>>

(***************************************************************************)
(* A statement fails, the busy timeout passes, or the caller's context is  *)
(* canceled: what was not committed is rolled back, and a transition that  *)
(* was committed is answered with an error all the same.                   *)
(***************************************************************************)
DatabaseFault(c) ==
  /\ pc[c] \in {"insert", "transition", "update", "reread"}
  /\ Refuse(c, "internal")
  /\ UNCHANGED <<now, db, req>>

-----------------------------------------------------------------------------
(* The six services: what each validates, what its table demands, its      *)
(* graph, its handlers and its two operations.                             *)

Filled(p) ==
  /\ p.number # None
  /\ p.parent # None
  /\ p.amount > 0
  /\ p.detail # None

MissionValid(p, t) == Filled(p) /\ p.due > t
InspectionValid(p, t) == Filled(p) /\ p.due > t
TransferValid(p, t) == Filled(p) /\ p.due > t
SortingValid(p, t) == Filled(p) /\ p.due > t
IncidentValid(p, t) == Filled(p) /\ p.due > t
MaintenanceValid(p, t) == Filled(p) /\ p.due > t

\* asset_id may be NULL and references assets; hub_id references hubs.
MissionLinked(p) == p.parent \in Hubs /\ p.resource \in Assets \cup {None}
InspectionLinked(p) == p.parent \in Hubs /\ p.resource \in Assets \cup {None}
MaintenanceLinked(p) == p.parent \in Hubs /\ p.resource \in Assets \cup {None}

\* The resource of a transfer is its destination, a hub that Validate does
\* not ask for and the table does.
TransferLinked(p) == p.parent \in Hubs /\ p.resource \in Hubs

\* A chute code and an assignee are free text.
SortingLinked(p) == p.parent \in Hubs
IncidentLinked(p) == p.parent \in Hubs

MissionLifecycle == DefaultGraph
InspectionLifecycle == DefaultGraph
TransferLifecycle == DefaultGraph
SortingLifecycle == DefaultGraph
IncidentLifecycle == DefaultGraph
MaintenanceLifecycle == DefaultGraph

Handlers(c, k) ==
  /\ k \in Kinds
  /\ \/ ReceiveCreate(c, k)
     \/ ReceiveTransition(c, k)

MissionHandlers(c) == Handlers(c, "mission")
InspectionHandlers(c) == Handlers(c, "inspection")
TransferHandlers(c) == Handlers(c, "transfer")
SortingHandlers(c) == Handlers(c, "sorting")
IncidentHandlers(c) == Handlers(c, "incident")
MaintenanceHandlers(c) == Handlers(c, "maintenance")

\* Whichever connection of the pool the call gets enforces foreign keys or not.
Service(c, valid, complete, linked, lifecycle) ==
  \/ StartCreate(c, valid)
  \/ \E enforced \in ForeignKeys :
       CommitCreate(c, complete, enforced => linked)
  \/ StartTransition(c, lifecycle)
  \/ CommitTransition(c)
  \/ FinishTransition(c)

MissionService(c) ==
  LET p == req[c].payload
  IN  /\ req[c].kind = "mission"
      /\ Service(c, MissionValid(p, now), TRUE, MissionLinked(p),
                 MissionLifecycle)

InspectionService(c) ==
  LET p == req[c].payload
  IN  /\ req[c].kind = "inspection"
      /\ Service(c, InspectionValid(p, now), TRUE, InspectionLinked(p),
                 InspectionLifecycle)

TransferService(c) ==
  LET p == req[c].payload
  IN  /\ req[c].kind = "transfer"
      /\ Service(c, TransferValid(p, now), p.resource # None,
                 TransferLinked(p), TransferLifecycle)

SortingService(c) ==
  LET p == req[c].payload
  IN  /\ req[c].kind = "sorting"
      /\ Service(c, SortingValid(p, now), TRUE, SortingLinked(p),
                 SortingLifecycle)

IncidentService(c) ==
  LET p == req[c].payload
  IN  /\ req[c].kind = "incident"
      /\ Service(c, IncidentValid(p, now), TRUE, IncidentLinked(p),
                 IncidentLifecycle)

MaintenanceService(c) ==
  LET p == req[c].payload
  IN  /\ req[c].kind = "maintenance"
      /\ Service(c, MaintenanceValid(p, now), TRUE, MaintenanceLinked(p),
                 MaintenanceLifecycle)

-----------------------------------------------------------------------------
(* The rest of the world.                                                  *)

Tick ==
  /\ now < MaxTime
  /\ now' = now + 1
  /\ UNCHANGED <<db, pc, req, local, reply>>

\* The process dies: no call in flight is answered, the database stays.
Crash ==
  /\ InFlight # {}
  /\ pc' = [c \in Calls |-> IF c \in InFlight THEN "done" ELSE pc[c]]
  /\ local' = [c \in Calls |-> IF c \in InFlight THEN Nothing ELSE local[c]]
  /\ reply' = [c \in Calls |->
       IF c \in InFlight THEN [NoReply EXCEPT !.code = "lost"] ELSE reply[c]]
  /\ UNCHANGED <<now, db, req>>

\* idempotency.Prune, which nothing calls.
Prune ==
  /\ "Prune" \in Uncalled
  /\ \E k \in DOMAIN idem : idem[k] # NoRecord /\ ~Live(idem[k], now)
  /\ idem' = [k \in DOMAIN idem |->
       IF Live(idem[k], now) THEN idem[k] ELSE NoRecord]
  /\ UNCHANGED <<now, rows, audit, outbox, pc, req, local, reply>>

\* A bug to detect: a draft is deleted whatever its status.
DeleteAnything(i) ==
  /\ "DeleteDraft" \in Uncalled
  /\ rows[i] # NoRow
  /\ rows' = [rows EXCEPT ![i] = NoRow]
  /\ UNCHANGED <<now, idem, audit, outbox, pc, req, local, reply>>

\* Repository.DeleteDraft, which nothing calls: no audit entry and no event.
DeleteDraft(i) ==
  /\ "DeleteDraft" \in Uncalled
  /\ rows[i].status = StatusPlanned
  /\ \E v \in Versions : rows[i].version = v
  /\ rows' = [rows EXCEPT ![i] = NoRow]
  /\ UNCHANGED <<now, idem, audit, outbox, pc, req, local, reply>>

-----------------------------------------------------------------------------
Init ==
  /\ now = 0
  /\ rows = [c \in Calls |-> NoRow]
  /\ idem = [k \in Kinds \X Keys |-> NoRecord]
  /\ audit = <<>>
  /\ outbox = <<>>
  /\ pc = [c \in Calls |-> "idle"]
  /\ req = [c \in Calls |-> NoCall]
  /\ local = [c \in Calls |-> Nothing]
  /\ reply = [c \in Calls |-> NoReply]

Mission(c) == MissionHandlers(c) \/ MissionService(c)
Inspection(c) == InspectionHandlers(c) \/ InspectionService(c)
Transfer(c) == TransferHandlers(c) \/ TransferService(c)
Sorting(c) == SortingHandlers(c) \/ SortingService(c)
Incident(c) == IncidentHandlers(c) \/ IncidentService(c)
Maintenance(c) == MaintenanceHandlers(c) \/ MaintenanceService(c)

Next ==
  \/ \E c \in Calls :
       \/ Mission(c)
       \/ Inspection(c)
       \/ Transfer(c)
       \/ Sorting(c)
       \/ Incident(c)
       \/ Maintenance(c)
       \/ \E k \in Kinds : ReceiveCancel(c, k)
       \/ DatabaseFault(c)
       \/ DeleteDraft(c)
  \/ Tick
  \/ Crash
  \/ Prune

Spec == Init /\ [][Next]_vars

-----------------------------------------------------------------------------
(* Properties.                                                             *)

Row ==
  [kind : Kinds, payload : Payloads, by : Users, status : Statuses,
   version : Nat \ {0}]

Request ==
  [op : {"create"}, kind : Kinds, actor : Users, key : Keys \cup {None},
   payload : Payloads, id : {None}, target : {None}, expected : {0}]
  \cup
  [op : {"transition", "cancel"}, kind : Kinds, actor : Users, key : {None},
   payload : {None}, id : Calls, target : Targets \cup {"canceled"},
   expected : Versions]
  \cup {NoCall}

\* Every call is at a step of the operation it asked for.
StepsOK ==
  \A c \in Calls :
    /\ pc[c] \in {"create", "insert"} =>
         req[c].op = "create" /\ req[c].key # None
    /\ pc[c] \in {"transition", "update", "reread"} =>
         req[c].op \in {"transition", "cancel"}
    /\ pc[c] = "update" => local[c].row # NoRow
    /\ pc[c] # "done" => reply[c] = NoReply

(***************************************************************************)
(* The shape of the state: every table holds rows of its schema, and every *)
(* call is at one of the steps of the operation it asked for.              *)
(***************************************************************************)
TypeOK ==
  /\ now \in Nat
  /\ rows \in [Calls -> Row \cup {NoRow}]
  /\ idem \in [Kinds \X Keys ->
       [hash : Payloads \X Users, id : Calls, expires : Nat] \cup {NoRecord}]
  /\ audit \in Seq([call : Calls, actor : Users, id : Calls,
                    outcome : Statuses \cup {"accepted"}])
  /\ outbox \in Seq([id : Calls, from : Statuses \cup {Absent},
                     to : Statuses, version : Nat \ {0}])
  /\ pc \in [Calls -> {"idle", "create", "insert", "transition", "update",
                       "reread", "done"}]
  /\ req \in [Calls -> Request]
  /\ local \in [Calls -> [at : Nat, row : Row \cup {NoRow}]]
  /\ reply \in [Calls ->
       [code : {"none", "ok", "invalid", "forbidden", "conflict",
                "not_found", "internal", "lost"},
        id : Calls \cup {None}, status : Statuses \cup {Absent},
        version : Nat]]
  /\ StepsOK

(***************************************************************************)
(* An idempotency key of a service names at most one row, however its      *)
(* creates interleave, whatever was answered, and even once the key has    *)
(* expired: without Prune the stored key is never given up.                *)
(***************************************************************************)
OneRowPerKey ==
  "Prune" \notin Uncalled =>
    \A c, d \in Calls :
      /\ rows[c] # NoRow
      /\ rows[d] # NoRow
      /\ IdemKey(c) = IdemKey(d)
      => c = d

(***************************************************************************)
(* A create that was answered with success, by its own commit or by a      *)
(* replay, names a row of its service that was made from this very body by *)
(* this very user and, unless drafts are deleted, still exists.            *)
(***************************************************************************)
AcknowledgedCreateExists ==
  \A c \in Calls :
    req[c].op = "create" /\ reply[c].code = "ok" =>
      LET row == rows[reply[c].id]
      IN  \/ /\ row # NoRow
             /\ row.kind = req[c].kind
             /\ row.payload = req[c].payload
             /\ row.by = req[c].actor
          \/ /\ "DeleteDraft" \in Uncalled
             /\ row = NoRow
             /\ reply[c].id \in Issued

(***************************************************************************)
(* What a call was told agrees with what it did.  A refused call left no   *)
(* audit entry; a successful transition left exactly one, next to the      *)
(* event for the version it asked to leave; a successful create left one   *)
(* exactly when it names its own row.  ("internal" and "lost" tell the     *)
(* caller nothing: the commit may or may not have happened.)               *)
(***************************************************************************)
Refusals == {"invalid", "forbidden", "conflict", "not_found"}

Traces(c) == {n \in DOMAIN audit : audit[n].call = c}

RepliesTellTheTruth ==
  "DeleteDraft" \notin Uncalled =>
    \A c \in Calls :
      /\ reply[c].code \in Refusals => Traces(c) = {}
      /\ reply[c].code = "ok" /\ req[c].op = "create" =>
           (Traces(c) # {} <=> reply[c].id = c)
      /\ reply[c].code = "ok" /\ req[c].op # "create" =>
           \E n \in Traces(c) :
             /\ Traces(c) = {n}
             /\ outbox[n].id = req[c].id
             /\ outbox[n].to = req[c].target
             /\ outbox[n].version = req[c].expected + 1
             /\ reply[c].version >= outbox[n].version

(***************************************************************************)
(* Two events of one object never carry the same version: of two calls     *)
(* that read the same row at most one commits.                             *)
(***************************************************************************)
OneWriterPerVersion ==
  \A m, n \in DOMAIN outbox :
    /\ outbox[m].id = outbox[n].id
    /\ outbox[m].version = outbox[n].version
    => m = n

(***************************************************************************)
(* Nobody but an administrator brings an object to completion alone: its   *)
(* audit trail names a dispatcher and a field operator.                    *)
(***************************************************************************)
RolesOn(i) ==
  {RoleOf[audit[n].actor] : n \in {m \in DOMAIN audit : audit[m].id = i}}

CompletionTakesTwoRoles ==
  \A i \in Calls :
    rows[i].status = StatusCompleted =>
      \/ "platform_admin" \in RolesOn(i)
      \/ {"transport_dispatcher", "field_operator"} \subseteq RolesOn(i)

(***************************************************************************)
(* A step never changes an object that is completed or canceled, and a     *)
(* deleted object never comes back.                                        *)
(***************************************************************************)
EndedStaysEnded ==
  [][\A i \in Calls :
       /\ IsTerminal(rows[i].status) => rows'[i] = rows[i]
       /\ rows[i] = NoRow /\ (\E n \in DOMAIN outbox : outbox[n].id = i)
            => rows'[i] = NoRow]_vars

(***************************************************************************)
(* The rows and the outbox implement the ledger: every step opens one      *)
(* object, moves one object along the graph from where it is and logs the  *)
(* move, deletes a draft, or changes neither.                              *)
(***************************************************************************)
Ledger ==
  INSTANCE LifecycleLedger
  WITH Ids <- Calls,
       Graph <- DefaultGraph,
       First <- StatusPlanned,
       Withdrawals <- "DeleteDraft" \in Uncalled,
       state <- [c \in Calls |-> [status |-> rows[c].status,
                                  version |-> rows[c].version]],
       log <- outbox

ImplementsLedger == Ledger!Spec

(***************************************************************************)
(* Whoever reads the outbox alone can rebuild the rows: every event of an  *)
(* object but its first starts from the status and the version an earlier  *)
(* one reached, and the last one is where the row is now.                  *)
(***************************************************************************)
EventsRebuildRows == Ledger!MovesAreChained /\ Ledger!LogReplays

-----------------------------------------------------------------------------
(* What the documentation says of the services, and the code does not keep. *)

(***************************************************************************)
(* README.md:9: a vehicle carries out one mission at a time.               *)
(***************************************************************************)
OneMissionPerVehicle ==
  \A c, d \in Calls :
    /\ rows[c].kind = "mission" /\ rows[c].status \in {"dispatched", "active"}
    /\ rows[d].kind = "mission" /\ rows[d].status \in {"dispatched", "active"}
    /\ rows[c].payload.resource = rows[d].payload.resource
    /\ rows[c].payload.resource # None
    => c = d

(***************************************************************************)
(* README.md:10 and the name of TestInspectionLifecycleRequiresReview-     *)
(* BeforeCompletion: an inspection is reviewed before it is completed.     *)
(***************************************************************************)
InspectionReviewedBeforeCompletion ==
  \A i \in Calls :
    rows[i].kind = "inspection" /\ rows[i].status = StatusCompleted =>
      \E n \in DOMAIN outbox :
        outbox[n].id = i /\ outbox[n].to = StatusAwaitingReview

=============================================================================
