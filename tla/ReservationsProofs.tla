------------------------- MODULE ReservationsProofs -------------------------
(***************************************************************************)
(* Theorems about Reservations, for any number of calls, resources and     *)
(* windows, and any clock.                                                 *)
(***************************************************************************)
EXTENDS Reservations, SequenceTheorems, FiniteSetTheorems, TLAPS

Memory == [at : Nat, found : SUBSET Calls]

Steps ==
  {"idle", "conflicts", "insert", "get", "release", "reread", "select",
   "expire", "done"}

Codes == {"none", "ok", "invalid", "conflict", "internal", "lost"}

RowStatuses == {"none", "active", "released", "expired"}

ReplyType == [code : Codes, status : RowStatuses, version : Nat]

Entry == [topic : {"reserved", "released"}, id : Calls, call : Calls]

LEMMA NothingIsTyped == Nothing \in Memory
BY DEF Nothing, Memory

LEMMA StepMovesOne ==
  ASSUME TypeOK, NEW c \in Calls, NEW step \in Steps, NEW mem \in Memory,
         Step(c, step, mem)
  PROVE  /\ pc' \in [Calls -> Steps] /\ local' \in [Calls -> Memory]
         /\ pc'[c] = step /\ local'[c] = mem /\ reply' = reply
         /\ \A d \in Calls \ {c} : pc'[d] = pc[d] /\ local'[d] = local[d]
BY DEF Step, TypeOK, Steps, Memory

LEMMA AnswerMovesOne ==
  ASSUME TypeOK, NEW c \in Calls, NEW code \in Codes,
         NEW status \in RowStatuses, NEW version \in Nat,
         Answer(c, code, status, version)
  PROVE  /\ pc' \in [Calls -> Steps] /\ local' \in [Calls -> Memory]
         /\ reply' \in [Calls -> ReplyType]
         /\ pc'[c] = "done"
         /\ \A d \in Calls \ {c} :
              pc'[d] = pc[d] /\ local'[d] = local[d] /\ reply'[d] = reply[d]
BY NothingIsTyped DEF Answer, TypeOK, Steps, Memory, ReplyType, Codes, RowStatuses

-----------------------------------------------------------------------------
(* Typing.                                                                 *)

TablesOK ==
  /\ rows \in [Calls -> Row \cup {NoRow}]
  /\ trail \in Seq(Entry)
  /\ current \in SUBSET Calls

LEMMA RowsNeverVanish ==
  ASSUME TypeOK, TablesOK', \A i \in Calls : rows[i] # NoRow => rows'[i] # NoRow,
         NEW c \in Calls, NEW step \in Steps, NEW mem \in Memory,
         Step(c, step, mem), UNCHANGED <<now, req>>,
         step = "insert" => pc[c] = "conflicts",
         step \in {"release", "reread"} => pc[c] \in {"get", "release"},
         step = "expire" => pc[c] = "select",
         step \in {"insert", "release", "reread", "expire"}
  PROVE  TypeOK'
<1>1. /\ pc' \in [Calls -> Steps] /\ local' \in [Calls -> Memory]
      /\ pc'[c] = step /\ reply' = reply
      /\ \A d \in Calls \ {c} : pc'[d] = pc[d]
  BY StepMovesOne
<1>2. \A d \in Calls : pc[d] \in {"get", "release", "reread"} => req[d].id \in Calls
  BY DEF TypeOK, StepsOK, Requests, NoRequest, Request
<1>3. StepsOK'
  BY <1>1, <1>2 DEF StepsOK, TypeOK
<1> QED
  BY <1>1, <1>3 DEF TypeOK, TablesOK, Memory, Entry, Steps

LEMMA AnswerKeepsTypes ==
  ASSUME TypeOK, TablesOK', \A i \in Calls : rows[i] # NoRow => rows'[i] # NoRow,
         NEW c \in Calls, NEW code \in Codes, NEW status \in RowStatuses,
         NEW version \in Nat, Answer(c, code, status, version),
         UNCHANGED <<now, req>>
  PROVE  TypeOK'
<1>1. /\ pc' \in [Calls -> Steps] /\ local' \in [Calls -> Memory]
      /\ reply' \in [Calls -> ReplyType] /\ pc'[c] = "done"
      /\ \A d \in Calls \ {c} : pc'[d] = pc[d] /\ reply'[d] = reply[d]
  BY AnswerMovesOne
<1>2. \A d \in Calls : pc[d] \in {"get", "release", "reread"} => req[d].id \in Calls
  BY DEF TypeOK, StepsOK, Requests, NoRequest, Request
<1>3. StepsOK'
  BY <1>1, <1>2 DEF StepsOK, TypeOK
<1> QED
  BY <1>1, <1>3 DEF TypeOK, TablesOK, Memory, Entry, Steps, ReplyType, Codes,
     RowStatuses

LEMMA RefusalKeepsTypes ==
  ASSUME TypeOK, NEW c \in Calls, NEW code \in Codes, Refuse(c, code),
         current' \in SUBSET Calls, UNCHANGED <<now, rows, trail, req>>
  PROVE  TypeOK'
<1>1. TablesOK'
  BY DEF TablesOK, TypeOK, Entry
<1> QED
  BY <1>1, AnswerKeepsTypes DEF Refuse, RowStatuses

\* A call that arrives is refused at once or takes its first step.
LEMMA ArrivalKeepsTypes ==
  ASSUME TypeOK, NEW c \in Calls, NEW q \in Requests, Ask(c, q),
         NEW step \in {"conflicts", "get", "select"}, NEW mem \in Memory,
         \/ Refuse(c, "invalid")
         \/ Step(c, step, mem),
         step = "conflicts" /\ Step(c, step, mem) =>
           q.op = "reserve" /\ q.resource # None /\ q.from < q.to,
         step = "get" => q.op = "release" /\ q.id \in Calls /\ rows[q.id] # NoRow,
         step = "select" => q.op = "expire"
  PROVE  TypeOK'
<1>1. /\ pc[c] = "idle" /\ req' \in [Calls -> Requests] /\ req'[c] = q
      /\ \A d \in Calls \ {c} : req'[d] = req[d]
      /\ UNCHANGED <<now, rows, trail, current>>
  BY DEF Ask, TypeOK
<1>2. CASE Refuse(c, "invalid")
  <2>1. /\ pc' \in [Calls -> Steps] /\ local' \in [Calls -> Memory]
        /\ reply' \in [Calls -> ReplyType] /\ pc'[c] = "done"
        /\ \A d \in Calls \ {c} : pc'[d] = pc[d] /\ reply'[d] = reply[d]
    BY <1>2, AnswerMovesOne DEF Refuse, Codes, RowStatuses
  <2>2. StepsOK'
    BY <1>1, <2>1, ZenonT(40) DEF StepsOK, TypeOK
  <2> QED
    BY <1>1, <2>1, <2>2 DEF TypeOK, Memory, Steps, ReplyType, Codes, RowStatuses
<1>3. CASE Step(c, step, mem)
  <2>1. /\ pc' \in [Calls -> Steps] /\ local' \in [Calls -> Memory]
        /\ pc'[c] = step /\ reply' = reply
        /\ \A d \in Calls \ {c} : pc'[d] = pc[d]
    BY <1>3, StepMovesOne DEF Steps
  <2>2. StepsOK'
    BY <1>1, <1>3, <2>1 DEF StepsOK, TypeOK
  <2> QED
    BY <1>1, <2>1, <2>2 DEF TypeOK, Memory, Steps
<1> QED
  BY <1>2, <1>3

LEMMA StartKeepsTypes ==
  ASSUME TypeOK, NEW c \in Calls,
         StartReserve(c) \/ StartRelease(c) \/ StartExpire(c)
  PROVE  TypeOK'
<1>1. CASE StartReserve(c)
  <2>1. PICK resource \in Resources \cup {None}, from \in Instants, to \in Instants :
          LET q == ReserveRequest(resource, from, to)
          IN  /\ Ask(c, q)
              /\ \/ ~Valid(q, now) /\ Refuse(c, "invalid")
                 \/ Valid(q, now) /\ Step(c, "conflicts", Nothing)
    BY <1>1 DEF StartReserve
  <2> DEFINE q == ReserveRequest(resource, from, to)
  <2>2. q \in Requests /\ q.op = "reserve"
    BY DEF ReserveRequest, Request, Requests
  <2>3. Valid(q, now) => q.resource # None /\ q.from < q.to
    BY ConstantsAssumption DEF Valid, ReserveRequest, Request
  <2>4. CASE Refuse(c, "invalid")
    \* The step of the lemma is unused here: any will do.
    <3>1. ~Step(c, "conflicts", Nothing)
      BY <2>4, AnswerMovesOne DEF Refuse, Answer, Step, Codes, RowStatuses, TypeOK
    <3> QED
      BY <2>1, <2>2, <2>4, <3>1, ArrivalKeepsTypes, NothingIsTyped
  <2>5. CASE Valid(q, now) /\ Step(c, "conflicts", Nothing)
    BY <2>1, <2>2, <2>3, <2>5, ArrivalKeepsTypes, NothingIsTyped
  <2> QED
    BY <2>1, <2>4, <2>5
<1>2. CASE StartRelease(c)
  <2>1. PICK i \in Issued, version \in Versions :
          /\ Ask(c, ReleaseRequest(i, version))
          /\ Refuse(c, "invalid") \/ Step(c, "get", Nothing)
    BY <1>2 DEF StartRelease
  <2>2. /\ ReleaseRequest(i, version) \in Requests
        /\ ReleaseRequest(i, version).op = "release"
        /\ ReleaseRequest(i, version).id = i
    BY DEF ReleaseRequest, Request, Requests, Issued
  <2> QED
    BY <2>1, <2>2, ArrivalKeepsTypes, NothingIsTyped DEF Issued
<1>3. CASE StartExpire(c)
  <2>1. PICK limit \in Limits :
          /\ Ask(c, ExpireRequest(limit))
          /\ Step(c, "select", [at |-> now, found |-> {}])
    BY <1>3 DEF StartExpire
  <2>2. ExpireRequest(limit) \in Requests /\ ExpireRequest(limit).op = "expire"
    BY DEF ExpireRequest, Request, Requests
  <2>3. [at |-> now, found |-> {}] \in Memory
    BY DEF Memory, TypeOK
  <2> QED
    BY <2>1, <2>2, <2>3, ArrivalKeepsTypes
<1> QED
  BY <1>1, <1>2, <1>3


\* The operation behind a step, and the typed parts of its request.
LEMMA RequestOfStep ==
  ASSUME TypeOK, NEW c \in Calls
  PROVE  /\ pc[c] \in {"conflicts", "insert"} =>
              /\ req[c].resource \in Resources
              /\ req[c].from \in Instants /\ req[c].to \in Instants
              /\ req[c].from < req[c].to
         /\ pc[c] \in {"get", "release", "reread"} =>
              req[c].id \in Calls /\ rows[req[c].id] \in Row
<1>1. req[c] \in Requests
  BY DEF TypeOK
<1>2. req[c].op = "reserve" =>
        /\ req[c].resource \in Resources \cup {None}
        /\ req[c].from \in Instants /\ req[c].to \in Instants
  BY <1>1 DEF Requests, NoRequest, Request
<1>3. req[c].op = "release" => req[c].id \in Calls
  BY <1>1 DEF Requests, NoRequest, Request
<1>4. CASE pc[c] \in {"conflicts", "insert"}
  BY <1>2, <1>4 DEF TypeOK, StepsOK
<1>5. CASE pc[c] \in {"get", "release", "reread"}
  BY <1>3, <1>5 DEF TypeOK, StepsOK
<1> QED
  BY <1>4, <1>5

LEMMA InsertKeepsTables ==
  ASSUME TypeOK, NEW c \in Calls, pc[c] = "insert", MayWrite(c),
         InsertReservation(c)
  PROVE  /\ TablesOK'
         /\ \A i \in Calls : rows[i] # NoRow => rows'[i] # NoRow
<1> DEFINE new == [resource |-> req[c].resource, from |-> req[c].from,
                   to |-> req[c].to, status |-> "active", version |-> 1]
<1>1. new \in Row
  BY RequestOfStep DEF Row
<1>2. new # NoRow
  BY DEF NoRow
<1>3. rows' = [rows EXCEPT ![c] = new]
  BY DEF InsertReservation
<1>4. trail' \in Seq(Entry)
  <2>1. trail' = Append(trail, [topic |-> "reserved", id |-> c, call |-> c])
    BY DEF InsertReservation
  <2>2. trail \in Seq(Entry) /\ [topic |-> "reserved", id |-> c, call |-> c] \in Entry
    BY DEF TypeOK, Entry
  <2> QED
    BY <2>1, <2>2, AppendProperties
<1> QED
  BY <1>1, <1>2, <1>3, <1>4 DEF InsertReservation, TablesOK, TypeOK, Commit

\* What giving up a reservation makes of its row.
LEMMA EndedRow ==
  ASSUME NEW row \in Row, NEW status \in {"released", "expired"}
  PROVE  LET ended == [row EXCEPT !.status = status, !.version = row.version + 1]
         IN  /\ ended \in Row /\ ended # NoRow
             /\ ended.status = status
             /\ ended.resource = row.resource
             /\ ended.from = row.from /\ ended.to = row.to
<1> DEFINE half == [row EXCEPT !.status = status]
           ended == [row EXCEPT !.status = status, !.version = row.version + 1]
<1>1. half \in Row
  BY DEF Row
<1>2. row.version + 1 \in Nat \ {0}
  BY DEF Row
<1>3. ended = [half EXCEPT !.version = row.version + 1]
  OBVIOUS
<1>4. ended \in Row
  BY <1>1, <1>2, <1>3 DEF Row
<1>5. ended.status = status /\ ended.resource = row.resource
      /\ ended.from = row.from /\ ended.to = row.to
  BY DEF Row
<1>6. ended # NoRow
  BY <1>5 DEF NoRow
<1> QED
  BY <1>4, <1>5, <1>6

LEMMA ReleasedRow ==
  ASSUME TypeOK, NEW c \in Calls, pc[c] = "release", Releasable(c),
         ReleaseReservation(c)
  PROVE  /\ req[c].id \in Calls /\ rows[req[c].id] \in Row
         /\ rows' = [rows EXCEPT
              ![req[c].id] = [rows[req[c].id] EXCEPT
                 !.status = "released", !.version = rows[req[c].id].version + 1]]
         /\ TablesOK'
         /\ \A i \in Calls : rows[i] # NoRow => rows'[i] # NoRow
<1> DEFINE old == rows[req[c].id]
           new == [old EXCEPT !.status = "released", !.version = old.version + 1]
<1>1. req[c].id \in Calls /\ old \in Row
  BY RequestOfStep
<1>2. new \in Row /\ new # NoRow
  BY <1>1, EndedRow
<1>3. rows' = [rows EXCEPT ![req[c].id] = new]
  BY <1>1 DEF ReleaseReservation, TypeOK
<1>4. trail' \in Seq(Entry)
  <2> DEFINE e == [topic |-> "released", id |-> req[c].id, call |-> c]
  <2>1. trail' = Append(trail, e)
    BY DEF ReleaseReservation
  <2>2. trail \in Seq(Entry) /\ e \in Entry
    BY <1>1 DEF TypeOK, Entry
  <2> QED
    BY <2>1, <2>2, AppendProperties
<1>5. current' = {}
  BY DEF ReleaseReservation, Commit
<1> QED
  BY <1>1, <1>2, <1>3, <1>4, <1>5 DEF TablesOK, TypeOK


\* The batch that an expiry may write: typed rows of existing reservations.
LEMMA ExpiredRows ==
  ASSUME TypeOK, NEW c \in Calls, ExpireSelected(c), MayWrite(c),
         \A i \in local[c].found : rows[i].status = "active"
  PROVE  /\ \A i \in Calls :
              rows'[i] = IF i \in local[c].found
                         THEN [rows[i] EXCEPT !.status = "expired",
                                              !.version = rows[i].version + 1]
                         ELSE rows[i]
         /\ \A i \in local[c].found : i \in Calls /\ rows[i] \in Row
         /\ TablesOK'
         /\ \A i \in Calls : rows[i] # NoRow => rows'[i] # NoRow
<1>1. rows' = [i \in Calls |->
                IF i \in local[c].found
                THEN [rows[i] EXCEPT !.status = "expired",
                                     !.version = rows[i].version + 1]
                ELSE rows[i]]
  BY DEF ExpireSelected
<1>2. \A i \in local[c].found : i \in Calls /\ rows[i] \in Row
  BY DEF TypeOK, NoRow
<1>3. \A i \in local[c].found : rows'[i] \in Row /\ rows'[i] # NoRow
  BY <1>1, <1>2, EndedRow
<1>4. rows' \in [Calls -> Row \cup {NoRow}]
  <2>1. \A i \in Calls : rows'[i] \in Row \cup {NoRow}
    BY <1>1, <1>3 DEF TypeOK
  <2> QED
    BY <1>1, <2>1
<1> QED
  BY <1>1, <1>2, <1>3, <1>4 DEF ExpireSelected, Commit, TablesOK, TypeOK, Entry

-----------------------------------------------------------------------------
(* The invariant.  A transaction that may still write knows the truth: a   *)
(* reserve about to insert has no conflict, and what an expiry has         *)
(* selected is still active and over.                                      *)

InsertIsClear ==
  \A c \in Calls :
    c \in current /\ pc[c] = "insert" => Conflicts(req[c]) = {}

SelectionIsOverdue ==
  \A c \in Calls :
    c \in current /\ pc[c] = "expire" =>
      \A i \in local[c].found : rows[i].status = "active" /\ rows[i].to <= now

ClockIsBehind ==
  \A c \in Calls : pc[c] = "select" => local[c].at <= now

Unborn(c) == pc[c] \in {"idle", "conflicts", "insert"}

UnbornHasNoRow == \A c \in Calls : Unborn(c) => rows[c] = NoRow

BookInv ==
  /\ TypeOK
  /\ InsertIsClear
  /\ SelectionIsOverdue
  /\ ClockIsBehind
  /\ UnbornHasNoRow
  /\ NoDoubleBooking

LEMMA ActiveRowIsTyped ==
  ASSUME TypeOK, NEW i \in Calls, rows[i].status = "active"
  PROVE  rows[i] \in Row /\ rows[i].from \in Int /\ rows[i].to \in Int
<1>1. rows[i] \in Row
  BY DEF TypeOK, NoRow
<1> QED
  BY <1>1, ConstantsAssumption DEF Row

\* A step of c that writes nothing, and may take a snapshot for c.
LEMMA QuietCallKeepsBook ==
  ASSUME BookInv, TypeOK', NEW c \in Calls, UNCHANGED <<now, rows>>,
         \A d \in Calls \ {c} :
           pc'[d] = pc[d] /\ local'[d] = local[d] /\ req'[d] = req[d],
         current' \subseteq current \cup {c},
         Unborn(c)' => Unborn(c),
         c \in current' /\ pc'[c] = "insert" => Conflicts(req'[c]) = {},
         c \in current' /\ pc'[c] = "expire" =>
           \A i \in local'[c].found : rows[i].status = "active" /\ rows[i].to <= now,
         pc'[c] = "select" => local'[c].at <= now
  PROVE  BookInv'
<1>1. InsertIsClear'
  BY DEF BookInv, InsertIsClear, Conflicts
<1>2. SelectionIsOverdue'
  BY DEF BookInv, SelectionIsOverdue
<1>3. ClockIsBehind' /\ UnbornHasNoRow'
  BY DEF BookInv, ClockIsBehind, UnbornHasNoRow, Unborn
<1>4. NoDoubleBooking'
  BY DEF BookInv, NoDoubleBooking, Covered
<1> QED
  BY <1>1, <1>2, <1>3, <1>4 DEF BookInv

\* A commit of c outdates every snapshot: only the book itself is at stake.
LEMMA CommitKeepsBook ==
  ASSUME BookInv, TypeOK', NEW c \in Calls, Commit, UNCHANGED <<now, req>>,
         \A d \in Calls \ {c} : pc'[d] = pc[d] /\ local'[d] = local[d],
         pc'[c] \in {"reread", "done"},
         \A i \in Calls \ {c} : rows[i] = NoRow => rows'[i] = NoRow,
         NoDoubleBooking'
  PROVE  BookInv'
BY DEF BookInv, InsertIsClear, SelectionIsOverdue, ClockIsBehind,
       UnbornHasNoRow, Unborn, Commit

LEMMA OverlapIsShared ==
  ASSUME NEW a \in Int, NEW b \in Int, NEW x \in Int, NEW y \in Int,
         (a .. b - 1) \cap (x .. y - 1) # {}
  PROVE  Overlaps(a, b, x, y)
BY DEF Overlaps

LEMMA InsertKeepsBook ==
  ASSUME BookInv, NEW c \in Calls, InsertReservation(c)
  PROVE  BookInv'
<1>1. /\ pc[c] = "insert" /\ UNCHANGED <<now, req>>
      /\ TypeOK
  BY DEF InsertReservation, BookInv
<1>2. CASE Refuse(c, "internal") /\ UNCHANGED <<rows, trail, current>>
  <2>1. TypeOK'
    BY <1>1, <1>2, RefusalKeepsTypes DEF Codes, TypeOK
  <2>2. pc'[c] = "done" /\ \A d \in Calls \ {c} : pc'[d] = pc[d] /\ local'[d] = local[d]
    BY <1>1, <1>2, AnswerMovesOne DEF Refuse, Codes, RowStatuses
  <2> QED
    BY <1>1, <1>2, <2>1, <2>2, QuietCallKeepsBook DEF Unborn
<1>3. CASE MayWrite(c) /\ Commit /\ Answer(c, "ok", "active", 1)
  <2>1. TablesOK' /\ \A i \in Calls : rows[i] # NoRow => rows'[i] # NoRow
    BY <1>1, <1>3, InsertKeepsTables
  <2>2. TypeOK'
    BY <1>1, <1>3, <2>1, AnswerKeepsTypes DEF Codes, RowStatuses
  <2>3. pc'[c] = "done" /\ \A d \in Calls \ {c} : pc'[d] = pc[d] /\ local'[d] = local[d]
    BY <1>1, <1>3, AnswerMovesOne DEF Codes, RowStatuses
  <2>4. rows' = [rows EXCEPT
          ![c] = [resource |-> req[c].resource, from |-> req[c].from,
                  to |-> req[c].to, status |-> "active", version |-> 1]]
    BY <1>3 DEF InsertReservation, MayWrite
  <2>5. Conflicts(req[c]) = {}
    BY <1>1, <1>3 DEF BookInv, InsertIsClear, MayWrite
  <2>6. ASSUME NEW d \in Calls \ {c}, rows[d].status = "active",
               rows[d].resource = req[c].resource
        PROVE  (rows[d].from .. rows[d].to - 1) \cap (req[c].from .. req[c].to - 1) = {}
    <3>1. rows[d] \in Row
      BY <2>6 DEF BookInv, TypeOK, NoRow
    <3>2. /\ rows[d].from \in Int /\ rows[d].to \in Int
          /\ req[c].from \in Int /\ req[c].to \in Int
      BY <1>1, <3>1, RequestOfStep, ConstantsAssumption DEF Row
    <3>3. ~Overlaps(rows[d].from, rows[d].to, req[c].from, req[c].to)
      BY <2>5, <2>6 DEF Conflicts
    <3> QED
      BY <3>2, <3>3, OverlapIsShared
  <2>7. NoDoubleBooking'
    <3> SUFFICES ASSUME NEW a \in Calls, NEW b \in Calls, a # b,
                        rows'[a].status = "active", rows'[b].status = "active",
                        rows'[a].resource = rows'[b].resource
                 PROVE  Covered(rows'[a]) \cap Covered(rows'[b]) = {}
      BY DEF NoDoubleBooking, Covered
    <3>1. \A d \in Calls \ {c} : rows'[d] = rows[d]
      BY <2>4 DEF BookInv, TypeOK
    <3>2. /\ rows'[c].resource = req[c].resource
          /\ Covered(rows'[c]) = req[c].from .. req[c].to - 1
      BY <2>4 DEF BookInv, TypeOK, Covered
    <3>3. CASE a # c /\ b # c
      BY <3>1, <3>3 DEF BookInv, NoDoubleBooking
    <3>4. CASE a = c
      BY <2>6, <3>1, <3>2, <3>4 DEF Covered
    <3>5. CASE b = c
      BY <2>6, <3>1, <3>2, <3>5 DEF Covered
    <3> QED
      BY <3>3, <3>4, <3>5
  <2>8. \A i \in Calls \ {c} : rows'[i] = rows[i]
    BY <2>4 DEF BookInv, TypeOK
  <2> QED
    BY <1>1, <1>3, <2>2, <2>3, <2>7, <2>8, CommitKeepsBook
<1> QED
  BY <1>2, <1>3 DEF InsertReservation

\* Giving up reservations leaves the others where they are.
LEMMA FewerKeepNoDoubleBooking ==
  ASSUME NoDoubleBooking,
         \A i \in Calls : rows'[i].status = "active" => rows'[i] = rows[i]
  PROVE  NoDoubleBooking'
BY DEF NoDoubleBooking, Covered

LEMMA ReleaseKeepsBook ==
  ASSUME BookInv, NEW c \in Calls, ReleaseReservation(c)
  PROVE  BookInv'
<1>1. /\ pc[c] = "release" /\ UNCHANGED <<now, req>>
      /\ TypeOK
  BY DEF ReleaseReservation, BookInv
<1>2. CASE Refuse(c, "conflict") /\ UNCHANGED <<rows, trail, current>>
  <2>1. TypeOK'
    BY <1>1, <1>2, RefusalKeepsTypes DEF Codes, TypeOK
  <2>2. pc'[c] = "done" /\ \A d \in Calls \ {c} : pc'[d] = pc[d] /\ local'[d] = local[d]
    BY <1>1, <1>2, AnswerMovesOne DEF Refuse, Codes, RowStatuses
  <2> QED
    BY <1>1, <1>2, <2>1, <2>2, QuietCallKeepsBook DEF Unborn
<1>3. CASE Releasable(c) /\ Commit /\ Step(c, "reread", Nothing)
  <2> DEFINE i == req[c].id
  <2>1. /\ i \in Calls /\ rows[i] \in Row
        /\ rows' = [rows EXCEPT ![i] = [rows[i] EXCEPT
                       !.status = "released", !.version = rows[i].version + 1]]
        /\ TablesOK' /\ \A j \in Calls : rows[j] # NoRow => rows'[j] # NoRow
    BY <1>1, <1>3, ReleasedRow
  <2>2. TypeOK'
    BY <1>1, <1>3, <2>1, RowsNeverVanish, NothingIsTyped DEF Steps
  <2>3. pc'[c] = "reread" /\ \A d \in Calls \ {c} : pc'[d] = pc[d] /\ local'[d] = local[d]
    BY <1>1, <1>3, StepMovesOne, NothingIsTyped DEF Steps
  <2>4. rows'[i].status = "released" /\ \A j \in Calls \ {i} : rows'[j] = rows[j]
    BY <2>1, EndedRow DEF BookInv, TypeOK
  <2>5. NoDoubleBooking'
    BY <2>4, FewerKeepNoDoubleBooking DEF BookInv
  <2>6. \A j \in Calls : rows[j] = NoRow => rows'[j] = NoRow
    BY <2>1, <2>4 DEF Row, NoRow
  <2> QED
    BY <1>1, <1>3, <2>2, <2>3, <2>5, <2>6, CommitKeepsBook
<1> QED
  BY <1>2, <1>3 DEF ReleaseReservation

LEMMA ExpireKeepsBook ==
  ASSUME BookInv, NEW c \in Calls, ExpireSelected(c)
  PROVE  BookInv'
<1>1. /\ pc[c] = "expire" /\ UNCHANGED <<now, req, trail>>
      /\ TypeOK
  BY DEF ExpireSelected, BookInv
<1>2. CASE Refuse(c, "internal") /\ UNCHANGED <<rows, current>>
  <2>1. TypeOK'
    BY <1>1, <1>2, RefusalKeepsTypes DEF Codes, TypeOK
  <2>2. pc'[c] = "done" /\ \A d \in Calls \ {c} : pc'[d] = pc[d] /\ local'[d] = local[d]
    BY <1>1, <1>2, AnswerMovesOne DEF Refuse, Codes, RowStatuses
  <2> QED
    BY <1>1, <1>2, <2>1, <2>2, QuietCallKeepsBook DEF Unborn
<1>3. CASE MayWrite(c) /\ Commit /\ Answer(c, "ok", "none", 0)
  <2>1. \A i \in local[c].found : rows[i].status = "active"
    BY <1>1, <1>3 DEF BookInv, SelectionIsOverdue, MayWrite
  <2>2. /\ \A i \in Calls :
             rows'[i] = IF i \in local[c].found
                        THEN [rows[i] EXCEPT !.status = "expired",
                                             !.version = rows[i].version + 1]
                        ELSE rows[i]
        /\ \A i \in local[c].found : i \in Calls /\ rows[i] \in Row
        /\ TablesOK'
        /\ \A i \in Calls : rows[i] # NoRow => rows'[i] # NoRow
    BY <1>1, <1>3, <2>1, ExpiredRows
  <2>3. TypeOK'
    BY <1>1, <1>3, <2>2, AnswerKeepsTypes DEF Codes, RowStatuses
  <2>4. pc'[c] = "done" /\ \A d \in Calls \ {c} : pc'[d] = pc[d] /\ local'[d] = local[d]
    BY <1>1, <1>3, AnswerMovesOne DEF Codes, RowStatuses
  <2>5. ASSUME NEW i \in local[c].found
        PROVE  rows'[i].status = "expired"
    <3>1. /\ rows[i] \in Row
          /\ rows'[i] = [rows[i] EXCEPT !.status = "expired",
                                        !.version = rows[i].version + 1]
      BY <2>2
    <3> QED
      BY <3>1, EndedRow
  <2>6. NoDoubleBooking'
    BY <2>2, <2>5, FewerKeepNoDoubleBooking DEF BookInv
  <2>7. ASSUME NEW i \in Calls, rows[i] = NoRow
        PROVE  rows'[i] = NoRow
    <3>1. i \notin local[c].found
      BY <2>1, <2>7 DEF NoRow
    <3> QED
      BY <2>2, <2>7, <3>1
  <2> QED
    BY <1>1, <1>3, <2>3, <2>4, <2>6, <2>7, CommitKeepsBook
<1> QED
  BY <1>2, <1>3 DEF ExpireSelected


LEMMA ArrivalKeepsBook ==
  ASSUME BookInv, NEW c \in Calls,
         StartReserve(c) \/ StartRelease(c) \/ StartExpire(c)
  PROVE  BookInv'
<1>1. TypeOK'
  BY StartKeepsTypes DEF BookInv
<1>2. PICK q : Ask(c, q)
  BY DEF StartReserve, StartRelease, StartExpire
<1>3. /\ pc[c] = "idle" /\ UNCHANGED <<now, rows, current>>
      /\ \A d \in Calls \ {c} : req'[d] = req[d]
  BY <1>2 DEF Ask, BookInv, TypeOK
<1>4. \/ Refuse(c, "invalid") \/ Step(c, "conflicts", Nothing)
      \/ Step(c, "get", Nothing) \/ Step(c, "select", [at |-> now, found |-> {}])
  BY DEF StartReserve, StartRelease, StartExpire
<1>5. [at |-> now, found |-> {}] \in Memory /\ now \in Nat
  BY DEF Memory, BookInv, TypeOK
<1>6. /\ pc'[c] \in {"conflicts", "get", "select", "done"}
      /\ pc'[c] = "select" => local'[c].at = now
      /\ \A d \in Calls \ {c} : pc'[d] = pc[d] /\ local'[d] = local[d]
  BY <1>4, <1>5, AnswerMovesOne, StepMovesOne, NothingIsTyped
  DEF Refuse, Steps, Codes, RowStatuses, BookInv
<1> QED
  BY <1>1, <1>3, <1>5, <1>6, QuietCallKeepsBook DEF Unborn

\* The steps that read, and the steps that answer, with or without a snapshot.
LEMMA ReadKeepsBook ==
  ASSUME BookInv, NEW c \in Calls,
         \/ ReadConflicts(c) \/ GetReservation(c) \/ FinishRelease(c)
         \/ SelectOverdue(c) \/ DatabaseFault(c)
  PROVE  BookInv'
<1>1. /\ UNCHANGED <<now, rows, trail, req>>
      /\ current' \subseteq current \cup {c} /\ current' \in SUBSET Calls
      /\ TypeOK
  BY DEF ReadConflicts, GetReservation, FinishRelease, SelectOverdue,
         DatabaseFault, Snapshot, Forget, BookInv, TypeOK
<1>2. TablesOK' /\ \A i \in Calls : rows[i] # NoRow => rows'[i] # NoRow
  BY <1>1 DEF TablesOK, TypeOK, Entry
<1>3. ASSUME NEW code \in Codes, NEW status \in RowStatuses, NEW version \in Nat,
             Answer(c, code, status, version)
      PROVE  BookInv'
  <2>1. TypeOK'
    BY <1>1, <1>2, <1>3, AnswerKeepsTypes
  <2>2. pc'[c] = "done" /\ \A d \in Calls \ {c} : pc'[d] = pc[d] /\ local'[d] = local[d]
    BY <1>1, <1>3, AnswerMovesOne
  <2> QED
    BY <1>1, <2>1, <2>2, QuietCallKeepsBook DEF Unborn
<1>4. CASE FinishRelease(c)
  <2>1. rows[req[c].id] \in Row
    BY <1>1, <1>4, RequestOfStep DEF FinishRelease
  <2>2. rows[req[c].id].status \in RowStatuses /\ rows[req[c].id].version \in Nat
    BY <2>1 DEF Row, RowStatuses
  <2> QED
    BY <1>3, <1>4, <2>2 DEF FinishRelease, Codes
<1>5. CASE DatabaseFault(c)
  BY <1>3, <1>5 DEF DatabaseFault, Refuse, Codes, RowStatuses
<1>6. CASE ReadConflicts(c)
  <2>1. CASE Refuse(c, "conflict")
    BY <1>3, <2>1 DEF Refuse, Codes, RowStatuses
  <2>2. CASE Conflicts(req[c]) = {} /\ Step(c, "insert", Nothing)
    <3>1. pc[c] = "conflicts"
      BY <1>6 DEF ReadConflicts
    <3>2. TypeOK'
      BY <1>1, <1>2, <2>2, <3>1, RowsNeverVanish, NothingIsTyped DEF Steps
    <3>3. pc'[c] = "insert" /\ \A d \in Calls \ {c} : pc'[d] = pc[d] /\ local'[d] = local[d]
      BY <1>1, <2>2, StepMovesOne, NothingIsTyped DEF Steps
    <3>4. req' = req
      BY <1>1
    <3> QED
      BY <1>1, <2>2, <3>1, <3>2, <3>3, <3>4, QuietCallKeepsBook DEF Unborn
  <2> QED
    BY <1>6, <2>1, <2>2 DEF ReadConflicts
<1>7. CASE GetReservation(c)
  <2>1. CASE Refuse(c, "conflict")
    BY <1>3, <2>1 DEF Refuse, Codes, RowStatuses
  <2>2. CASE Step(c, "release", Nothing)
    <3>1. pc[c] = "get"
      BY <1>7 DEF GetReservation
    <3>2. TypeOK'
      BY <1>1, <1>2, <2>2, <3>1, RowsNeverVanish, NothingIsTyped DEF Steps
    <3>3. pc'[c] = "release" /\ \A d \in Calls \ {c} : pc'[d] = pc[d] /\ local'[d] = local[d]
      BY <1>1, <2>2, StepMovesOne, NothingIsTyped DEF Steps
    <3> QED
      BY <1>1, <3>1, <3>2, <3>3, QuietCallKeepsBook DEF Unborn
  <2> QED
    BY <1>7, <2>1, <2>2 DEF GetReservation
<1>8. CASE SelectOverdue(c)
  <2>1. PICK batch \in SUBSET Calls :
          /\ EarliestOf(Overdue(local[c].at), req[c].limit, batch)
          /\ \/ Answer(c, "ok", "none", 0)
             \/ Step(c, "expire", [at |-> local[c].at, found |-> batch])
    BY <1>8 DEF SelectOverdue
  <2>2. CASE Answer(c, "ok", "none", 0)
    BY <1>3, <2>2 DEF Codes, RowStatuses
  <2>3. CASE Step(c, "expire", [at |-> local[c].at, found |-> batch])
    <3> DEFINE mem == [at |-> local[c].at, found |-> batch]
    <3>1. pc[c] = "select" /\ mem \in Memory
      BY <1>1, <1>8 DEF SelectOverdue, Memory, TypeOK
    <3>2. TypeOK'
      BY <1>1, <1>2, <2>3, <3>1, RowsNeverVanish DEF Steps
    <3>3. /\ pc'[c] = "expire" /\ local'[c] = mem
          /\ \A d \in Calls \ {c} : pc'[d] = pc[d] /\ local'[d] = local[d]
      BY <1>1, <2>3, <3>1, StepMovesOne DEF Steps
    <3>4. \A i \in batch : rows[i].status = "active" /\ rows[i].to <= local[c].at
      BY <2>1 DEF EarliestOf, Overdue
    <3>5. local[c].at <= now /\ local[c].at \in Nat /\ now \in Nat
      BY <3>1 DEF BookInv, ClockIsBehind, TypeOK
    <3>6. \A i \in batch : rows[i].to \in Int
      BY <1>1, <3>4, ActiveRowIsTyped
    <3>7. \A i \in batch : rows[i].status = "active" /\ rows[i].to <= now
      BY <3>4, <3>5, <3>6
    <3> QED
      BY <1>1, <3>2, <3>3, <3>7, QuietCallKeepsBook DEF Unborn
  <2> QED
    BY <2>1, <2>2, <2>3
<1> QED
  BY <1>4, <1>5, <1>6, <1>7, <1>8

LEMMA WorldKeepsBook ==
  ASSUME BookInv, ForeignCommit \/ Tick \/ Crash \/ UNCHANGED vars
  PROVE  BookInv'
<1>1. rows' = rows /\ req' = req /\ current' \subseteq current /\ now' >= now
  BY DEF ForeignCommit, Tick, Crash, vars, Commit, BookInv, TypeOK
<1>2. \A c \in Calls : pc'[c] = "done" \/ (pc'[c] = pc[c] /\ local'[c] = local[c])
  <2>1. CASE Crash
    BY <2>1 DEF Crash
  <2>2. CASE UNCHANGED <<pc, local>>
    BY <2>2
  <2> QED
    BY <2>1, <2>2 DEF ForeignCommit, Tick, vars
<1>3. TypeOK'
  <2>1. CASE Crash
    <3>1. [NoReply EXCEPT !.code = "lost"] \in ReplyType
      BY DEF NoReply, ReplyType, Codes, RowStatuses
    <3>2. reply' \in [Calls -> ReplyType]
      BY <2>1, <3>1 DEF Crash, BookInv, TypeOK, ReplyType, Codes, RowStatuses
    <3>3. pc' \in [Calls -> Steps] /\ local' \in [Calls -> Memory]
      BY <2>1, NothingIsTyped DEF Crash, BookInv, TypeOK, Steps, Memory
    <3>4. StepsOK'
      BY <2>1 DEF Crash, BookInv, TypeOK, StepsOK, InFlight
    <3> QED
      BY <2>1, <3>2, <3>3, <3>4
      DEF Crash, BookInv, TypeOK, ReplyType, Codes, RowStatuses, Steps, Memory
  <2>2. CASE ForeignCommit \/ Tick \/ UNCHANGED vars
    <3>1. StepsOK'
      BY <2>2 DEF ForeignCommit, Tick, vars, BookInv, TypeOK, StepsOK
    <3> QED
      BY <2>2, <3>1 DEF ForeignCommit, Tick, vars, Commit, BookInv, TypeOK
  <2> QED
    BY <2>1, <2>2
<1>4. InsertIsClear'
  BY <1>1, <1>2 DEF BookInv, InsertIsClear, Conflicts
<1>5. SelectionIsOverdue'
  <2> SUFFICES ASSUME NEW c \in Calls, c \in current', pc'[c] = "expire",
                      NEW i \in local'[c].found
               PROVE  rows'[i].status = "active" /\ rows'[i].to <= now'
    BY DEF SelectionIsOverdue
  <2>1. /\ pc[c] = "expire" /\ c \in current /\ i \in local[c].found
        /\ local[c].found \subseteq Calls
    BY <1>1, <1>2 DEF BookInv, TypeOK
  <2>2. rows[i].status = "active" /\ rows[i].to <= now
    BY <2>1 DEF BookInv, SelectionIsOverdue
  <2>3. rows[i].to \in Int /\ now \in Int /\ now' \in Int
    BY <1>3, <2>1, <2>2, ActiveRowIsTyped DEF BookInv, TypeOK
  <2> QED
    BY <1>1, <2>2, <2>3
<1>6. ClockIsBehind'
  <2>1. now \in Nat /\ now' \in Nat /\ \A c \in Calls : local[c].at \in Nat
    BY <1>3 DEF BookInv, TypeOK
  <2> QED
    BY <1>1, <1>2, <2>1 DEF BookInv, ClockIsBehind
<1>7. UnbornHasNoRow' /\ NoDoubleBooking'
  BY <1>1, <1>2 DEF BookInv, UnbornHasNoRow, Unborn, NoDoubleBooking, Covered
<1> QED
  BY <1>3, <1>4, <1>5, <1>6, <1>7 DEF BookInv

LEMMA StepKeepsBook ==
  ASSUME BookInv, [Next]_vars
  PROVE  BookInv'
BY ArrivalKeepsBook, ReadKeepsBook, InsertKeepsBook, ReleaseKeepsBook,
   ExpireKeepsBook, WorldKeepsBook
DEF Next

LEMMA InitialBook == Init => BookInv
<1> SUFFICES ASSUME Init PROVE BookInv
  OBVIOUS
<1>1. TypeOK
  BY NothingIsTyped, EmptySeq
  DEF Init, TypeOK, StepsOK, NoReply, Requests, Memory
<1> QED
  BY <1>1
  DEF Init, BookInv, InsertIsClear, SelectionIsOverdue, ClockIsBehind,
      UnbornHasNoRow, NoDoubleBooking, NoRow

THEOREM BookInvariant == Spec => []BookInv
BY InitialBook, StepKeepsBook, PTL DEF Spec

(***************************************************************************)
(* The tables hold rows of their schemas and every call is at a step of    *)
(* the operation it asked for, for any number of calls and resources.      *)
(***************************************************************************)
THEOREM TypeCorrect == Spec => []TypeOK
<1>1. BookInv => TypeOK
  BY DEF BookInv
<1> QED
  BY <1>1, BookInvariant, PTL

(***************************************************************************)
(* No two active reservations of a resource share an instant, however the  *)
(* calls interleave, fault or crash: a snapshot that is still current when *)
(* a reserve inserts has shown every conflict.                             *)
(***************************************************************************)
THEOREM NeverDoubleBooked == Spec => []NoDoubleBooking
<1>1. BookInv => NoDoubleBooking
  BY DEF BookInv
<1> QED
  BY <1>1, BookInvariant, PTL

-----------------------------------------------------------------------------
(* The service implements the book.                                        *)

Shown(row) ==
  [resource |-> row.resource, from |-> row.from, to |-> row.to,
   status |-> row.status]

ShownRows == [c \in Calls |-> Shown(rows[c])]

LEMMA ReserveIsBooked ==
  ASSUME BookInv, NEW c \in Calls, InsertReservation(c), MayWrite(c)
  PROVE  Book!Next
<1>1. pc[c] = "insert" /\ now' = now /\ TypeOK
  BY DEF InsertReservation, BookInv
<1>2. PICK resource \in Resources, from \in Instants, to \in Instants :
        /\ resource = req[c].resource /\ from = req[c].from /\ to = req[c].to
        /\ from < to
  BY <1>1, RequestOfStep
<1>3. rows' = [rows EXCEPT
        ![c] = [resource |-> resource, from |-> from, to |-> to,
                status |-> "active", version |-> 1]]
  BY <1>2 DEF InsertReservation
<1>4. Conflicts(req[c]) = {}
  BY <1>1 DEF BookInv, InsertIsClear, MayWrite
<1>5. ASSUME NEW d \in Calls, rows[d].status = "active",
             rows[d].resource = resource
      PROVE  (rows[d].from .. rows[d].to - 1) \cap (from .. to - 1) = {}
  <2>1. rows[d].from \in Int /\ rows[d].to \in Int /\ from \in Int /\ to \in Int
    BY <1>1, <1>2, <1>5, ActiveRowIsTyped, ConstantsAssumption
  <2>2. ~Overlaps(rows[d].from, rows[d].to, from, to)
    BY <1>2, <1>4, <1>5 DEF Conflicts
  <2> QED
    BY <2>1, <2>2, OverlapIsShared
<1>6. rows[c] = NoRow
  BY <1>1 DEF BookInv, UnbornHasNoRow, Unborn
<1>7. ShownRows' = [ShownRows EXCEPT
        ![c] = [resource |-> resource, from |-> from, to |-> to,
                status |-> "active"]]
  BY <1>1, <1>3 DEF ShownRows, Shown, TypeOK
<1>8. Book!Reserve(c, resource, from, to)
  <2>1. Book!Blank(c)
    BY <1>6 DEF Book!Blank, NoRow
  <2>2. \A j \in Book!Holders(resource) :
          Book!Covered(Shown(rows[j])) \cap (from .. to - 1) = {}
    BY <1>5 DEF Book!Holders, Book!Covered, Shown
  <2> QED
    BY <1>1, <1>2, <1>7, <2>1, <2>2
    DEF Book!Reserve, ShownRows, Shown, Book!Holders
<1> QED
  BY <1>2, <1>8 DEF Book!Next

LEMMA ReleaseIsBooked ==
  ASSUME BookInv, NEW c \in Calls, ReleaseReservation(c), Releasable(c)
  PROVE  Book!Next
<1>1. pc[c] = "release" /\ now' = now /\ TypeOK
  BY DEF ReleaseReservation, BookInv
<1>2. PICK i \in Calls :
        /\ i = req[c].id /\ rows[i] \in Row
        /\ rows' = [rows EXCEPT ![i] = [rows[i] EXCEPT
             !.status = "released", !.version = rows[i].version + 1]]
  BY <1>1, ReleasedRow
<1>3. rows[i].status = "active"
  BY <1>2 DEF Releasable
<1>4. /\ \A j \in Calls \ {i} : rows'[j] = rows[j]
      /\ rows'[i].status = "released" /\ rows'[i].resource = rows[i].resource
      /\ rows'[i].from = rows[i].from /\ rows'[i].to = rows[i].to
  BY <1>1, <1>2, EndedRow DEF TypeOK
<1>5. ShownRows' = [ShownRows EXCEPT ![i].status = "released"]
  BY <1>4 DEF ShownRows, Shown
<1>6. Book!Release(i)
  BY <1>1, <1>3, <1>5 DEF Book!Release, ShownRows, Shown
<1> QED
  BY <1>6 DEF Book!Next

LEMMA ExpiryIsBooked ==
  ASSUME BookInv, NEW c \in Calls, ExpireSelected(c), MayWrite(c)
  PROVE  Book!Next
<1>1. pc[c] = "expire" /\ now' = now /\ TypeOK
  BY DEF ExpireSelected, BookInv
<1>2. PICK lapsed \in SUBSET Calls : lapsed = local[c].found
  BY <1>1 DEF TypeOK
<1>3. \A i \in lapsed : rows[i].status = "active" /\ rows[i].to <= now
  BY <1>1, <1>2 DEF BookInv, SelectionIsOverdue, MayWrite
<1>4. /\ \A i \in Calls :
           rows'[i] = IF i \in lapsed
                      THEN [rows[i] EXCEPT !.status = "expired",
                                           !.version = rows[i].version + 1]
                      ELSE rows[i]
      /\ \A i \in lapsed : rows[i] \in Row
  BY <1>1, <1>2, <1>3, ExpiredRows
<1>5. ASSUME NEW i \in Calls
      PROVE  Shown(rows'[i]) = IF i \in lapsed
                               THEN [Shown(rows[i]) EXCEPT !.status = "expired"]
                               ELSE Shown(rows[i])
  <2>1. CASE i \in lapsed
    <3>1. /\ rows[i] \in Row
          /\ rows'[i] = [rows[i] EXCEPT !.status = "expired",
                                        !.version = rows[i].version + 1]
      BY <1>4, <2>1
    <3>2. /\ rows'[i].status = "expired" /\ rows'[i].resource = rows[i].resource
          /\ rows'[i].from = rows[i].from /\ rows'[i].to = rows[i].to
      BY <3>1, EndedRow, ZenonT(40)
    <3> QED
      BY <2>1, <3>2 DEF Shown
  <2> QED
    BY <1>4, <2>1 DEF Shown
<1>6. ShownRows' = [i \in Calls |-> IF i \in lapsed
                                    THEN [ShownRows[i] EXCEPT !.status = "expired"]
                                    ELSE ShownRows[i]]
  BY <1>5 DEF ShownRows
<1>7. Book!Lapse(lapsed)
  BY <1>1, <1>3, <1>6 DEF Book!Lapse, ShownRows, Shown
<1> QED
  BY <1>7 DEF Book!Next

LEMMA StepIsBooked ==
  ASSUME BookInv, [Next]_vars
  PROVE  [Book!Next]_(Book!bookVars)
<1>1. CASE UNCHANGED <<now, rows>>
  BY <1>1 DEF Book!bookVars
<1>2. CASE Tick
  BY <1>2 DEF Tick, Book!Next, Book!Pass
<1>3. ASSUME NEW c \in Calls, InsertReservation(c)
      PROVE  MayWrite(c) \/ UNCHANGED <<now, rows>>
  BY <1>3 DEF InsertReservation
<1>4. ASSUME NEW c \in Calls, ReleaseReservation(c)
      PROVE  Releasable(c) \/ UNCHANGED <<now, rows>>
  BY <1>4 DEF ReleaseReservation
<1>5. ASSUME NEW c \in Calls, ExpireSelected(c)
      PROVE  MayWrite(c) \/ UNCHANGED <<now, rows>>
  BY <1>5 DEF ExpireSelected
<1>6. ASSUME NEW c \in Calls,
             \/ StartReserve(c) \/ StartRelease(c) \/ StartExpire(c)
             \/ ReadConflicts(c) \/ GetReservation(c) \/ FinishRelease(c)
             \/ SelectOverdue(c) \/ DatabaseFault(c)
      PROVE  UNCHANGED <<now, rows>>
  BY <1>6 DEF StartReserve, StartRelease, StartExpire, Ask, ReadConflicts,
     GetReservation, FinishRelease, SelectOverdue, DatabaseFault
<1>7. CASE ForeignCommit \/ Crash \/ UNCHANGED vars
  BY <1>1, <1>7 DEF ForeignCommit, Crash, vars
<1> QED
  BY <1>1, <1>2, <1>3, <1>4, <1>5, <1>6, <1>7, ReserveIsBooked,
     ReleaseIsBooked, ExpiryIsBooked
  DEF Next

LEMMA InitialBookIsBlank == Init => Book!Init
BY DEF Init, Book!Init, Book!Blank, NoRow

(***************************************************************************)
(* The transactions of the service implement the book: a reservation is    *)
(* entered only where every instant is free, given up only while active,   *)
(* and lapses only after its window.                                       *)
(***************************************************************************)
THEOREM ServiceImplementsBook == Spec => ImplementsBook
<1>1. BookInv /\ [Next]_vars => [Book!Next]_(Book!bookVars)
  BY StepIsBooked
<1> QED
  BY <1>1, InitialBookIsBlank, BookInvariant, PTL
  DEF Spec, ImplementsBook, Book!Spec

-----------------------------------------------------------------------------
(* The trail tells the book, and conflicts are real.                       *)

OnceIf(S, condition) == IF condition THEN \E n : S = {n} ELSE S = {}

TrailOf(i) ==
  /\ OnceIf(Told("reserved", i), rows[i] # NoRow)
  /\ OnceIf(Told("released", i), rows[i].status = "released")
  /\ \A m \in Told("reserved", i), n \in Told("released", i) : m < n

\* What overlaps an open window shares an instant with it.
WindowsAreOpen == \A i \in Calls : rows[i] # NoRow => rows[i].from < rows[i].to

HistoryInv == WindowsAreOpen /\ \A i \in Calls : TrailOf(i)

\* A commit adds its entry behind the others.
LEMMA TrailGrows ==
  ASSUME TypeOK, NEW e \in Entry, trail' = Append(trail, e)
  PROVE  /\ Len(trail) \in Nat
         /\ \A topic, i : Told(topic, i) \subseteq 1 .. Len(trail)
         /\ \A topic, i : e.topic = topic /\ e.id = i =>
              Told(topic, i)' = Told(topic, i) \cup {Len(trail) + 1}
         /\ \A topic, i : e.topic # topic \/ e.id # i =>
              Told(topic, i)' = Told(topic, i)
<1>1. trail \in Seq(Entry)
  BY DEF TypeOK, Entry
<1>2. /\ Len(trail) \in Nat
      /\ DOMAIN trail = 1 .. Len(trail)
      /\ DOMAIN trail' = 1 .. Len(trail) + 1
      /\ trail'[Len(trail) + 1] = e
      /\ \A n \in 1 .. Len(trail) : trail'[n] = trail[n]
  BY <1>1, AppendProperties, LenProperties
<1>3. \A topic, i : Told(topic, i) \subseteq 1 .. Len(trail)
  BY <1>2 DEF Told
<1>4. \A n \in DOMAIN trail' : n \in DOMAIN trail \/ n = Len(trail) + 1
  BY <1>2
<1>5. \A n \in DOMAIN trail : n \in DOMAIN trail' /\ n # Len(trail) + 1
  BY <1>2
<1>6. Len(trail) + 1 \in DOMAIN trail'
  BY <1>2
<1>7. ASSUME NEW topic, NEW i, e.topic = topic /\ e.id = i
      PROVE  Told(topic, i)' = Told(topic, i) \cup {Len(trail) + 1}
  BY <1>2, <1>4, <1>5, <1>6, <1>7 DEF Told
<1>8. ASSUME NEW topic, NEW i, e.topic # topic \/ e.id # i
      PROVE  Told(topic, i)' = Told(topic, i)
  BY <1>2, <1>4, <1>5, <1>8 DEF Told
<1> QED
  BY <1>2, <1>3, <1>7, <1>8

LEMMA InsertKeepsHistory ==
  ASSUME BookInv, HistoryInv, NEW c \in Calls, InsertReservation(c), MayWrite(c)
  PROVE  HistoryInv'
<1>1. pc[c] = "insert" /\ TypeOK
  BY DEF InsertReservation, BookInv
<1>2. PICK new : new = [resource |-> req[c].resource, from |-> req[c].from,
                        to |-> req[c].to, status |-> "active", version |-> 1]
  OBVIOUS
<1>3. PICK e : e = [topic |-> "reserved", id |-> c, call |-> c]
  OBVIOUS
<1>4. new # NoRow /\ new.status = "active" /\ new.from < new.to
  BY <1>1, <1>2, RequestOfStep DEF NoRow
<1>5. e \in Entry /\ e.topic = "reserved" /\ e.id = c
  BY <1>3 DEF Entry
<1>6. /\ rows'[c] = new /\ \A i \in Calls \ {c} : rows'[i] = rows[i]
      /\ trail' = Append(trail, e)
  BY <1>1, <1>2, <1>3 DEF InsertReservation, TypeOK
<1>7. rows[c] = NoRow /\ rows[c].status = "none"
  BY <1>1 DEF BookInv, UnbornHasNoRow, Unborn, NoRow
<1>8. WindowsAreOpen'
  BY <1>4, <1>6 DEF HistoryInv, WindowsAreOpen
<1>9. /\ Told("reserved", c)' = Told("reserved", c) \cup {Len(trail) + 1}
      /\ Told("released", c)' = Told("released", c)
      /\ \A i \in Calls \ {c} : /\ Told("reserved", i)' = Told("reserved", i)
                                /\ Told("released", i)' = Told("released", i)
  BY <1>1, <1>5, <1>6, TrailGrows
<1>10. Told("reserved", c) = {} /\ Told("released", c) = {}
  BY <1>7 DEF HistoryInv, TrailOf, OnceIf
<1>11. TrailOf(c)'
  BY <1>4, <1>6, <1>9, <1>10 DEF TrailOf, OnceIf
<1>12. \A i \in Calls \ {c} : TrailOf(i)'
  BY <1>6, <1>9 DEF HistoryInv, TrailOf, OnceIf
<1> QED
  BY <1>8, <1>11, <1>12 DEF HistoryInv

LEMMA ReleaseKeepsHistory ==
  ASSUME BookInv, HistoryInv, NEW c \in Calls, ReleaseReservation(c), Releasable(c)
  PROVE  HistoryInv'
<1>1. pc[c] = "release" /\ TypeOK
  BY DEF ReleaseReservation, BookInv
<1>2. PICK i \in Calls :
        /\ i = req[c].id /\ rows[i] \in Row
        /\ rows' = [rows EXCEPT ![i] = [rows[i] EXCEPT
             !.status = "released", !.version = rows[i].version + 1]]
  BY <1>1, ReleasedRow
<1>3. /\ rows[i].status = "active" /\ rows[i] # NoRow
      /\ rows'[i].status = "released" /\ rows'[i] # NoRow
      /\ rows'[i].from = rows[i].from /\ rows'[i].to = rows[i].to
      /\ \A j \in Calls \ {i} : rows'[j] = rows[j]
  <2>1. rows[i].status = "active" /\ rows[i] # NoRow
    BY <1>2 DEF Releasable, NoRow
  <2>2. PICK ended : ended = [rows[i] EXCEPT
          !.status = "released", !.version = rows[i].version + 1]
    OBVIOUS
  <2>3. /\ ended.status = "released" /\ ended # NoRow
        /\ ended.from = rows[i].from /\ ended.to = rows[i].to
    BY <1>2, <2>2, EndedRow
  <2>4. rows' = [rows EXCEPT ![i] = ended]
    BY <1>2, <2>2
  <2> QED
    BY <1>1, <2>1, <2>3, <2>4 DEF TypeOK
<1>4. PICK e : e = [topic |-> "released", id |-> i, call |-> c]
  OBVIOUS
<1>5. e \in Entry /\ e.topic = "released" /\ e.id = i
  BY <1>4 DEF Entry
<1>6. trail' = Append(trail, e)
  BY <1>2, <1>4 DEF ReleaseReservation
<1>7. WindowsAreOpen'
  BY <1>3 DEF HistoryInv, WindowsAreOpen
<1>8. /\ Len(trail) \in Nat
      /\ Told("reserved", i) \subseteq 1 .. Len(trail)
      /\ Told("released", i)' = Told("released", i) \cup {Len(trail) + 1}
      /\ Told("reserved", i)' = Told("reserved", i)
      /\ \A j \in Calls \ {i} : /\ Told("reserved", j)' = Told("reserved", j)
                                /\ Told("released", j)' = Told("released", j)
  BY <1>1, <1>5, <1>6, TrailGrows
<1>9. Told("released", i) = {} /\ \E m : Told("reserved", i) = {m}
  BY <1>3 DEF HistoryInv, TrailOf, OnceIf
<1>10. \A m \in Told("reserved", i) : m < Len(trail) + 1
  BY <1>8
<1>11. TrailOf(i)'
  BY <1>3, <1>8, <1>9, <1>10 DEF TrailOf, OnceIf
<1>12. ASSUME NEW j \in Calls \ {i}
       PROVE  TrailOf(j)'
  <2>1. TrailOf(j)
    BY DEF HistoryInv
  <2>2. /\ Told("reserved", j)' = Told("reserved", j)
        /\ Told("released", j)' = Told("released", j)
    BY <1>8
  <2>3. /\ rows'[j] # NoRow <=> rows[j] # NoRow
        /\ rows'[j].status = "released" <=> rows[j].status = "released"
    BY <1>3
  <2> QED
    BY <2>1, <2>2, <2>3 DEF TrailOf, OnceIf
<1> QED
  BY <1>7, <1>11, <1>12 DEF HistoryInv

\* An expiry leaves no entry, and nothing it ends was released.
LEMMA ExpiryKeepsHistory ==
  ASSUME BookInv, HistoryInv, NEW c \in Calls, ExpireSelected(c), MayWrite(c)
  PROVE  HistoryInv'
<1>1. pc[c] = "expire" /\ trail' = trail /\ TypeOK
  BY DEF ExpireSelected, BookInv
<1>2. \A i \in local[c].found : rows[i].status = "active"
  BY <1>1 DEF BookInv, SelectionIsOverdue, MayWrite
<1>3. ASSUME NEW i \in Calls
      PROVE  /\ rows'[i] # NoRow <=> rows[i] # NoRow
             /\ rows'[i].status = "released" <=> rows[i].status = "released"
             /\ rows'[i].from = rows[i].from /\ rows'[i].to = rows[i].to
  <2>1. CASE i \in local[c].found
    <3>1. /\ rows[i] \in Row
          /\ rows'[i] = [rows[i] EXCEPT !.status = "expired",
                                        !.version = rows[i].version + 1]
      BY <1>1, <1>2, <2>1, ExpiredRows
    <3>2. /\ rows'[i] # NoRow /\ rows'[i].status = "expired"
          /\ rows'[i].from = rows[i].from /\ rows'[i].to = rows[i].to
      BY <3>1, EndedRow, ZenonT(40)
    <3>3. rows[i] # NoRow
      BY <3>1 DEF Row, NoRow
    <3> QED
      BY <1>2, <2>1, <3>2, <3>3
  <2>2. CASE i \notin local[c].found
    BY <1>1, <1>2, <2>2, ExpiredRows
  <2> QED
    BY <2>1, <2>2
<1>4. WindowsAreOpen'
  BY <1>3 DEF HistoryInv, WindowsAreOpen
<1>5. \A topic, i : Told(topic, i)' = Told(topic, i)
  BY <1>1 DEF Told
<1>6. \A i \in Calls : TrailOf(i)'
  BY <1>3, <1>5 DEF HistoryInv, TrailOf, OnceIf
<1> QED
  BY <1>4, <1>6 DEF HistoryInv

\* Only the three commits touch the book or its trail.
LEMMA OnlyCommitsWrite ==
  ASSUME [Next]_vars
  PROVE  \/ UNCHANGED <<rows, trail>>
         \/ \E c \in Calls : \/ InsertReservation(c) /\ MayWrite(c)
                             \/ ReleaseReservation(c) /\ Releasable(c)
                             \/ ExpireSelected(c) /\ MayWrite(c)
<1>1. ASSUME NEW c \in Calls,
             InsertReservation(c) \/ ReleaseReservation(c) \/ ExpireSelected(c)
      PROVE  \/ UNCHANGED <<rows, trail>>
             \/ InsertReservation(c) /\ MayWrite(c)
             \/ ReleaseReservation(c) /\ Releasable(c)
             \/ ExpireSelected(c) /\ MayWrite(c)
  BY <1>1 DEF InsertReservation, ReleaseReservation, ExpireSelected
<1>2. ASSUME NEW c \in Calls,
             \/ StartReserve(c) \/ StartRelease(c) \/ StartExpire(c)
             \/ ReadConflicts(c) \/ GetReservation(c) \/ FinishRelease(c)
             \/ SelectOverdue(c) \/ DatabaseFault(c)
      PROVE  UNCHANGED <<rows, trail>>
  BY <1>2 DEF StartReserve, StartRelease, StartExpire, Ask, ReadConflicts,
     GetReservation, FinishRelease, SelectOverdue, DatabaseFault
<1>3. ForeignCommit \/ Tick \/ Crash \/ UNCHANGED vars => UNCHANGED <<rows, trail>>
  BY DEF ForeignCommit, Tick, Crash, vars
<1> QED
  BY <1>1, <1>2, <1>3 DEF Next

LEMMA StepKeepsHistory ==
  ASSUME BookInv, HistoryInv, [Next]_vars
  PROVE  HistoryInv'
<1>1. CASE UNCHANGED <<rows, trail>>
  <2>1. \A topic, i : Told(topic, i)' = Told(topic, i)
    BY <1>1 DEF Told
  <2>2. WindowsAreOpen'
    BY <1>1 DEF HistoryInv, WindowsAreOpen
  <2>3. \A i \in Calls : TrailOf(i)'
    BY <1>1, <2>1 DEF HistoryInv, TrailOf, OnceIf
  <2> QED
    BY <2>2, <2>3 DEF HistoryInv
<1> QED
  BY <1>1, OnlyCommitsWrite, InsertKeepsHistory, ReleaseKeepsHistory, ExpiryKeepsHistory

LEMMA InitialHistory == Init => HistoryInv
BY DEF Init, HistoryInv, WindowsAreOpen, TrailOf, OnceIf, Told, NoRow

LEMMA HistoryInvariant == Spec => [](BookInv /\ HistoryInv)
BY InitialBook, InitialHistory, StepKeepsBook, StepKeepsHistory, PTL DEF Spec

(***************************************************************************)
(* The audit trail tells the book: every reservation left one "reserved"   *)
(* entry, and one "released" entry behind it exactly when it was released. *)
(* However many releases and expiries race for it, only one of them ends   *)
(* it.                                                                     *)
(***************************************************************************)
THEOREM TrailIsTrue == Spec => []TrailTellsTheBook
<1>1. ASSUME HistoryInv PROVE TrailTellsTheBook
  <2>1. \A S, condition : OnceIf(S, condition) =>
          Cardinality(S) = IF condition THEN 1 ELSE 0
    BY FS_EmptySet, FS_Singleton DEF OnceIf
  <2> QED
    BY <1>1, <2>1 DEF HistoryInv, TrailOf, TrailTellsTheBook
<1> QED
  BY <1>1, HistoryInvariant, PTL

\* Open windows that overlap share the later of their starts.
LEMMA SharedInstant ==
  ASSUME NEW a \in Int, NEW b \in Int, NEW x \in Int, NEW y \in Int,
         a < b, x < y, Overlaps(a, b, x, y)
  PROVE  (a .. b - 1) \cap (x .. y - 1) # {}
<1>1. CASE a <= x
  <2>1. x \in a .. b - 1 /\ x \in x .. y - 1
    BY <1>1 DEF Overlaps
  <2> QED
    BY <2>1
<1>2. CASE x <= a
  <2>1. a \in a .. b - 1 /\ a \in x .. y - 1
    BY <1>2 DEF Overlaps
  <2> QED
    BY <2>1
<1> QED
  BY <1>1, <1>2

\* Who answers, and with what.
LEMMA AnswerTells ==
  ASSUME TypeOK, NEW b \in Calls, NEW code, NEW status, NEW version,
         Answer(b, code, status, version)
  PROVE  reply'[b].code = code /\ \A c \in Calls \ {b} : reply'[c] = reply[c]
BY DEF Answer, TypeOK

\* Of the steps of a reserve only the look for conflicts finds one.
LEMMA OnlyReadersSayConflict ==
  ASSUME BookInv, [Next]_vars, NEW c \in Calls, req[c].op = "reserve",
         reply[c].code # "conflict", reply'[c].code = "conflict"
  PROVE  ReadConflicts(c) /\ Conflicts(req[c]) # {}
<1>1. TypeOK
  BY DEF BookInv
<1>2. ASSUME NEW b \in Calls, NEW code, NEW status, NEW version,
             Answer(b, code, status, version)
      PROVE  b = c /\ code = "conflict"
  BY <1>1, <1>2, AnswerTells
<1>3. reply' # reply
  OBVIOUS
<1>4. pc[c] \notin {"get", "release", "reread"}
  BY <1>1 DEF TypeOK, StepsOK
<1>5. ASSUME NEW b \in Calls, ReadConflicts(b)
      PROVE  ReadConflicts(c) /\ Conflicts(req[c]) # {}
  BY <1>2, <1>3, <1>5 DEF ReadConflicts, Refuse, Step
<1>6. ASSUME NEW b \in Calls, GetReservation(b) \/ ReleaseReservation(b) \/ FinishRelease(b)
      PROVE  FALSE
  BY <1>2, <1>3, <1>4, <1>6
  DEF GetReservation, ReleaseReservation, FinishRelease, Refuse, Step
<1>7. ASSUME NEW b \in Calls, StartReserve(b) \/ StartRelease(b) \/ StartExpire(b)
      PROVE  FALSE
  BY <1>2, <1>3, <1>7 DEF StartReserve, StartRelease, StartExpire, Refuse, Step
<1>8. ASSUME NEW b \in Calls, InsertReservation(b) \/ DatabaseFault(b)
      PROVE  FALSE
  BY <1>2, <1>8 DEF InsertReservation, DatabaseFault, Refuse
<1>9. ASSUME NEW b \in Calls, SelectOverdue(b) \/ ExpireSelected(b)
      PROVE  FALSE
  <2>1. CASE SelectOverdue(b)
    <3>1. \/ Answer(b, "ok", "none", 0)
          \/ \E batch : Step(b, "expire", [at |-> local[b].at, found |-> batch])
      BY <2>1 DEF SelectOverdue
    <3> QED
      BY <1>2, <1>3, <3>1 DEF Step
  <2>2. CASE ExpireSelected(b)
    <3>1. Answer(b, "internal", "none", 0) \/ Answer(b, "ok", "none", 0)
      BY <2>2 DEF ExpireSelected, Refuse
    <3>2. CASE Answer(b, "internal", "none", 0)
      BY <1>2, <3>2
    <3>3. CASE Answer(b, "ok", "none", 0)
      BY <1>2, <3>3
    <3> QED
      BY <3>1, <3>2, <3>3
  <2> QED
    BY <1>9, <2>1, <2>2
<1>10. ~Crash
  BY DEF Crash, NoReply
<1>11. ~(ForeignCommit \/ Tick \/ UNCHANGED vars)
  BY <1>3 DEF ForeignCommit, Tick, vars
<1> QED
  BY <1>5, <1>6, <1>7, <1>8, <1>9, <1>10, <1>11 DEF Next

(***************************************************************************)
(* A reserve is refused with a conflict only by a step at which an active  *)
(* reservation of its resource holds an instant of its window: neither the *)
(* race for the write lock nor a window that only touches is told as one.  *)
(***************************************************************************)
THEOREM ConflictsAreHeld == Spec => ConflictsAreReal
<1> DEFINE Held(c) ==
      \E d \in Calls :
        /\ rows[d].status = "active"
        /\ rows[d].resource = req[c].resource
        /\ Covered(rows[d]) \cap Covered(req[c]) # {}
<1>1. ASSUME BookInv, HistoryInv, [Next]_vars, NEW c \in Calls,
             req[c].op = "reserve", reply[c].code # "conflict",
             reply'[c].code = "conflict"
      PROVE  Held(c)
  <2>1. TypeOK
    BY <1>1 DEF BookInv
  <2>2. ReadConflicts(c) /\ Conflicts(req[c]) # {}
    BY <1>1, OnlyReadersSayConflict
  <2>3. PICK d \in Calls : /\ rows[d].status = "active"
                           /\ rows[d].resource = req[c].resource
                           /\ Overlaps(rows[d].from, rows[d].to, req[c].from, req[c].to)
    BY <2>2 DEF Conflicts
  <2>4. /\ rows[d].from \in Int /\ rows[d].to \in Int
        /\ rows[d].from < rows[d].to
    BY <1>1, <2>1, <2>3, ActiveRowIsTyped DEF HistoryInv, WindowsAreOpen, NoRow
  <2>5. /\ req[c].from \in Int /\ req[c].to \in Int
        /\ req[c].from < req[c].to
    BY <2>1, <2>2, RequestOfStep, ConstantsAssumption DEF ReadConflicts
  <2> QED
    BY <2>3, <2>4, <2>5, SharedInstant DEF Covered
<1>2. BookInv /\ HistoryInv /\ [Next]_vars =>
        [\A c \in Calls :
           /\ req[c].op = "reserve"
           /\ reply[c].code # "conflict"
           /\ reply'[c].code = "conflict"
           => \E d \in Calls :
                /\ rows[d].status = "active"
                /\ rows[d].resource = req[c].resource
                /\ Covered(rows[d]) \cap Covered(req[c]) # {}]_vars
  BY <1>1
<1> QED
  BY <1>2, HistoryInvariant, PTL DEF Spec, ConflictsAreReal

=============================================================================
