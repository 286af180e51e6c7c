---------------------------- MODULE Reservations ----------------------------
(***************************************************************************)
(* The reservation service.  Reserve looks for conflicts and inserts in    *)
(* one transaction, but nothing in it locks the resource: between the two  *)
(* statements other calls commit.  What keeps the book free of double      *)
(* bookings is SQLite.  A transaction that begins with a read keeps the    *)
(* snapshot of that read, and its first write fails when anybody, on any   *)
(* table, has committed since; a write that succeeds keeps the write lock  *)
(* to the end, so the writes of a transaction and its commit are one step. *)
(***************************************************************************)
EXTENDS Integers, Sequences, FiniteSets

CONSTANTS
  Calls,        \* calls that may be made, each at most once
  Resources,    \* type and key of what is reserved
  Instants,     \* starts and ends of windows
  Versions,     \* versions callers present
  Limits,       \* batch sizes Expire is called with
  MaxWindow,    \* longest window, 72 hours in the code
  MaxTime,      \* bound: last instant of the clock
  None          \* an empty string, or no value

ASSUME ConstantsAssumption ==
  /\ Instants \subseteq Int
  /\ Versions \subseteq Nat
  /\ Limits \subseteq Nat \ {0}
  /\ MaxWindow \in Nat
  /\ MaxTime \in Nat
  /\ None \notin Resources
  /\ None \notin Calls

VARIABLES
  now,      \* the clock
  rows,     \* resource_reservations: [Calls -> row], by the call that inserted
  trail,    \* audit_events and outbox_events, which are written together
  current,  \* transactions whose snapshot is still the latest state
  pc,       \* where each call is
  req,      \* what each call asks
  local,    \* what each call remembers between two steps
  reply     \* what each call was told

vars == <<now, rows, trail, current, pc, req, local, reply>>

-----------------------------------------------------------------------------
NoRow ==
  [resource |-> None, from |-> 0, to |-> 0, status |-> "none", version |-> 0]

NoReply == [code |-> "none", status |-> "none", version |-> 0]

\* The instant read from the clock, and the rows Expire has selected.
Nothing == [at |-> 0, found |-> {}]

Request(op, resource, from, to, i, version, limit) ==
  [op |-> op, resource |-> resource, from |-> from, to |-> to, id |-> i,
   version |-> version, limit |-> limit]

ReserveRequest(resource, from, to) ==
  Request("reserve", resource, from, to, None, 0, 0)

ReleaseRequest(i, version) == Request("release", None, 0, 0, i, version, 0)

ExpireRequest(limit) == Request("expire", None, 0, 0, None, 0, limit)

NoRequest == Request("none", None, 0, 0, None, 0, 0)

Step(c, step, mem) ==
  /\ pc' = [pc EXCEPT ![c] = step]
  /\ local' = [local EXCEPT ![c] = mem]
  /\ UNCHANGED reply

Answer(c, code, status, version) ==
  /\ pc' = [pc EXCEPT ![c] = "done"]
  /\ local' = [local EXCEPT ![c] = Nothing]
  /\ reply' = [reply EXCEPT
       ![c] = [code |-> code, status |-> status, version |-> version]]

Refuse(c, code) == Answer(c, code, "none", 0)

Ask(c, q) ==
  /\ pc[c] = "idle"
  /\ req' = [req EXCEPT ![c] = q]
  /\ UNCHANGED <<now, rows, trail, current>>

\* A transaction of c reads first: its snapshot is the state of this moment.
Snapshot(c) == current' = current \cup {c}

\* A transaction ends without a write.
Forget(c) == current' = current \ {c}

\* A commit, of anybody: every other snapshot is out of date.
Commit == current' = {}

\* A bug to detect: reads are not repeatable, as under READ COMMITTED.
MayAlwaysWrite(c) == TRUE

MayWrite(c) == c \in current

-----------------------------------------------------------------------------
(* Reserve.                                                                *)

\* A bug to detect: nobody compares the two ends of the window.
ValidInAnyOrder(q, t) ==
  /\ q.resource # None
  /\ q.to > t
  /\ q.to - q.from <= MaxWindow

Valid(q, t) ==
  /\ q.resource # None
  /\ q.to > q.from
  /\ q.to > t
  /\ q.to - q.from <= MaxWindow

StartReserve(c) ==
  \E resource \in Resources \cup {None}, from, to \in Instants :
    LET q == ReserveRequest(resource, from, to)
    IN  /\ Ask(c, q)
        /\ \/ ~Valid(q, now) /\ Refuse(c, "invalid")
           \/ Valid(q, now) /\ Step(c, "conflicts", Nothing)

\* A bug to detect: windows that only touch are taken for overlapping.
OverlapsClosed(leftStart, leftEnd, rightStart, rightEnd) ==
  leftStart <= rightEnd /\ rightStart <= leftEnd

\* Overlaps, and the WHERE clause of ConflictsTx.
Overlaps(leftStart, leftEnd, rightStart, rightEnd) ==
  leftStart < rightEnd /\ rightStart < leftEnd

Conflicts(q) ==
  {i \in Calls :
     /\ rows[i].status = "active"
     /\ rows[i].resource = q.resource
     /\ Overlaps(rows[i].from, rows[i].to, q.from, q.to)}

ReadConflicts(c) ==
  /\ pc[c] = "conflicts"
  /\ \/ /\ Conflicts(req[c]) # {}
        /\ Refuse(c, "conflict")
        /\ UNCHANGED current
     \/ /\ Conflicts(req[c]) = {}
        /\ Step(c, "insert", Nothing)
        /\ Snapshot(c)
  /\ UNCHANGED <<now, rows, trail, req>>

(***************************************************************************)
(* InsertTx, the audit entry, the event and the commit.  The unique index  *)
(* on active exact windows never objects: an equal window overlaps.        *)
(***************************************************************************)
InsertReservation(c) ==
  /\ pc[c] = "insert"
  /\ \/ /\ ~MayWrite(c)
        /\ Refuse(c, "internal")
        /\ UNCHANGED <<rows, trail, current>>
     \/ /\ MayWrite(c)
        /\ rows' = [rows EXCEPT
             ![c] = [resource |-> req[c].resource, from |-> req[c].from,
                     to |-> req[c].to, status |-> "active", version |-> 1]]
        /\ trail' = Append(trail, [topic |-> "reserved", id |-> c, call |-> c])
        /\ Commit
        /\ Answer(c, "ok", "active", 1)
  /\ UNCHANGED <<now, req>>

-----------------------------------------------------------------------------
(* Release.                                                                *)

\* Identities are random UUIDs: nobody presents one that was never issued.
Issued == {i \in Calls : rows[i] # NoRow}

StartRelease(c) ==
  \E i \in Issued, version \in Versions, hasReason \in BOOLEAN :
    /\ Ask(c, ReleaseRequest(i, version))
    /\ \/ ~hasReason /\ Refuse(c, "invalid")
       \/ hasReason /\ Step(c, "get", Nothing)

GetReservation(c) ==
  /\ pc[c] = "get"
  /\ \/ rows[req[c].id].status # "active" /\ Refuse(c, "conflict")
     \/ rows[req[c].id].status = "active" /\ Step(c, "release", Nothing)
  /\ UNCHANGED <<now, rows, trail, current, req>>

\* A bug to detect: UPDATE ... WHERE id=?
AnyRow(c) == TRUE

\* The WHERE clause of ReleaseTx, with the version the caller presents.
Releasable(c) ==
  /\ rows[req[c].id].status = "active"
  /\ rows[req[c].id].version = req[c].version

\* The transaction begins with its UPDATE: it has no snapshot to outlive.
ReleaseReservation(c) ==
  /\ pc[c] = "release"
  /\ \/ /\ ~Releasable(c)
        /\ Refuse(c, "conflict")
        /\ UNCHANGED <<rows, trail, current>>
     \/ /\ Releasable(c)
        /\ rows' = [rows EXCEPT
             ![req[c].id].status = "released",
             ![req[c].id].version = rows[req[c].id].version + 1]
        /\ trail' = Append(trail,
             [topic |-> "released", id |-> req[c].id, call |-> c])
        /\ Commit
        /\ Step(c, "reread", Nothing)
  /\ UNCHANGED <<now, req>>

FinishRelease(c) ==
  /\ pc[c] = "reread"
  /\ Answer(c, "ok", rows[req[c].id].status, rows[req[c].id].version)
  /\ UNCHANGED <<now, rows, trail, current, req>>

-----------------------------------------------------------------------------
(* Repository.Expire, which no production code calls.                      *)

StartExpire(c) ==
  \E limit \in Limits :
    /\ Ask(c, ExpireRequest(limit))
    /\ Step(c, "select", [at |-> now, found |-> {}])

\* A bug to detect: a reservation lapses when its window begins.
OverdueAtStart(at) ==
  {i \in Calls : rows[i].status = "active" /\ rows[i].from <= at}

Overdue(at) == {i \in Calls : rows[i].status = "active" /\ rows[i].to <= at}

\* ORDER BY ends_at, id LIMIT: identities are random, so ties break anyhow.
EarliestOf(S, limit, batch) ==
  /\ batch \subseteq S
  /\ \/ batch = S /\ Cardinality(S) <= limit
     \/ Cardinality(batch) = limit
  /\ \A i \in batch, j \in S \ batch : rows[i].to <= rows[j].to

SelectOverdue(c) ==
  /\ pc[c] = "select"
  /\ \E batch \in SUBSET Calls :
       /\ EarliestOf(Overdue(local[c].at), req[c].limit, batch)
       /\ \/ batch = {} /\ Answer(c, "ok", "none", 0) /\ UNCHANGED current
          \/ /\ batch # {}
             /\ Step(c, "expire", [at |-> local[c].at, found |-> batch])
             /\ Snapshot(c)
  /\ UNCHANGED <<now, rows, trail, req>>

\* No audit entry and no event.
ExpireSelected(c) ==
  /\ pc[c] = "expire"
  /\ \/ /\ ~MayWrite(c)
        /\ Refuse(c, "internal")
        /\ UNCHANGED <<rows, current>>
     \/ /\ MayWrite(c)
        /\ rows' = [i \in Calls |->
             IF i \in local[c].found
             THEN [rows[i] EXCEPT !.status = "expired", !.version = @ + 1]
             ELSE rows[i]]
        /\ Commit
        /\ Answer(c, "ok", "none", 0)
  /\ UNCHANGED <<now, trail, req>>

-----------------------------------------------------------------------------
(* The rest of the world.                                                  *)

InFlight == {c \in Calls : pc[c] \notin {"idle", "done"}}

\* A statement fails or the caller's context is canceled: a rollback.
DatabaseFault(c) ==
  /\ c \in InFlight
  /\ Refuse(c, "internal")
  /\ Forget(c)
  /\ UNCHANGED <<now, rows, trail, req>>

\* Another component of the process commits to a table of its own.
ForeignCommit ==
  /\ current # {}
  /\ Commit
  /\ UNCHANGED <<now, rows, trail, pc, req, local, reply>>

Tick ==
  /\ now < MaxTime
  /\ now' = now + 1
  /\ UNCHANGED <<rows, trail, current, pc, req, local, reply>>

\* The process dies: no call in flight is answered, the database stays.
Crash ==
  /\ InFlight # {}
  /\ pc' = [c \in Calls |-> IF c \in InFlight THEN "done" ELSE pc[c]]
  /\ local' = [c \in Calls |-> IF c \in InFlight THEN Nothing ELSE local[c]]
  /\ reply' = [c \in Calls |->
       IF c \in InFlight THEN [NoReply EXCEPT !.code = "lost"] ELSE reply[c]]
  /\ current' = {}
  /\ UNCHANGED <<now, rows, trail, req>>

Init ==
  /\ now = 0
  /\ rows = [c \in Calls |-> NoRow]
  /\ trail = <<>>
  /\ current = {}
  /\ pc = [c \in Calls |-> "idle"]
  /\ req = [c \in Calls |-> NoRequest]
  /\ local = [c \in Calls |-> Nothing]
  /\ reply = [c \in Calls |-> NoReply]

Next ==
  \/ \E c \in Calls :
       \/ StartReserve(c)
       \/ ReadConflicts(c)
       \/ InsertReservation(c)
       \/ StartRelease(c)
       \/ GetReservation(c)
       \/ ReleaseReservation(c)
       \/ FinishRelease(c)
       \/ StartExpire(c)
       \/ SelectOverdue(c)
       \/ ExpireSelected(c)
       \/ DatabaseFault(c)
  \/ ForeignCommit
  \/ Tick
  \/ Crash

Spec == Init /\ [][Next]_vars

-----------------------------------------------------------------------------
(* Properties.                                                             *)

Row ==
  [resource : Resources, from : Instants, to : Instants,
   status : {"active", "released", "expired"}, version : Nat \ {0}]

Requests ==
  [op : {"reserve"}, resource : Resources \cup {None}, from : Instants,
   to : Instants, id : {None}, version : {0}, limit : {0}]
  \cup
  [op : {"release"}, resource : {None}, from : {0}, to : {0}, id : Calls,
   version : Versions, limit : {0}]
  \cup
  [op : {"expire"}, resource : {None}, from : {0}, to : {0}, id : {None},
   version : {0}, limit : Limits]
  \cup {NoRequest}

\* Every call is at a step of the operation it asked for, and only a reserve
\* that was validated reaches the database.
StepsOK ==
  \A c \in Calls :
    /\ pc[c] \in {"conflicts", "insert"} =>
         /\ req[c].op = "reserve"
         /\ req[c].resource # None
         /\ req[c].from < req[c].to
    /\ pc[c] \in {"get", "release", "reread"} =>
         /\ req[c].op = "release"
         /\ rows[req[c].id] # NoRow
    /\ pc[c] \in {"select", "expire"} => req[c].op = "expire"
    /\ pc[c] # "done" => reply[c] = NoReply

(***************************************************************************)
(* The shape of the state, and every call at a step of its operation.      *)
(***************************************************************************)
TypeOK ==
  /\ now \in Nat
  /\ rows \in [Calls -> Row \cup {NoRow}]
  /\ trail \in Seq([topic : {"reserved", "released"}, id : Calls, call : Calls])
  /\ current \in SUBSET Calls
  /\ pc \in [Calls -> {"idle", "conflicts", "insert", "get", "release",
                       "reread", "select", "expire", "done"}]
  /\ req \in [Calls -> Requests]
  /\ local \in [Calls -> [at : Nat, found : SUBSET Calls]]
  /\ reply \in [Calls ->
       [code : {"none", "ok", "invalid", "conflict", "internal", "lost"},
        status : {"none", "active", "released", "expired"}, version : Nat]]
  /\ StepsOK

\* The instants of a half-open window.
Covered(row) == row.from .. row.to - 1

(***************************************************************************)
(* No instant of a resource is held by two active reservations, however    *)
(* the calls that look for conflicts and insert interleave.                *)
(***************************************************************************)
NoDoubleBooking ==
  \A c, d \in Calls :
    /\ rows[c].status = "active"
    /\ rows[d].status = "active"
    /\ rows[c].resource = rows[d].resource
    /\ Covered(rows[c]) \cap Covered(rows[d]) # {}
    => c = d

(***************************************************************************)
(* A reserve is refused with a conflict only when an active reservation    *)
(* holds an instant it asked for: windows that touch do not conflict.      *)
(***************************************************************************)
ConflictsAreReal ==
  [][\A c \in Calls :
       /\ req[c].op = "reserve"
       /\ reply[c].code # "conflict"
       /\ reply'[c].code = "conflict"
       => \E d \in Calls :
            /\ rows[d].status = "active"
            /\ rows[d].resource = req[c].resource
            /\ Covered(rows[d]) \cap Covered(req[c]) # {}]_vars

(***************************************************************************)
(* The trail tells the book: every reservation left one "reserved", and    *)
(* was released exactly when one "released" follows it, so no reservation  *)
(* is given up twice, nor after it has expired.                            *)
(***************************************************************************)
Told(topic, i) == {n \in DOMAIN trail : trail[n].topic = topic /\ trail[n].id = i}

TrailTellsTheBook ==
  \A i \in Calls :
    /\ Cardinality(Told("reserved", i)) = IF rows[i] # NoRow THEN 1 ELSE 0
    /\ Cardinality(Told("released", i)) =
         IF rows[i].status = "released" THEN 1 ELSE 0
    /\ \A m \in Told("reserved", i), n \in Told("released", i) : m < n

(***************************************************************************)
(* The transactions implement the book, one commit at a time.              *)
(***************************************************************************)
Book ==
  INSTANCE ReservationBook
  WITH Ids <- Calls,
       clock <- now,
       book <- [c \in Calls |->
                  [resource |-> rows[c].resource, from |-> rows[c].from,
                   to |-> rows[c].to, status |-> rows[c].status]]

ImplementsBook == Book!Spec

=============================================================================
