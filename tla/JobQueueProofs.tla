--------------------------- MODULE JobQueueProofs ---------------------------
(***************************************************************************)
(* Theorems about JobQueue, for any number of runners, jobs, goroutines    *)
(* and slots, any leases and delays, and whatever names the runners hold   *)
(* their leases under.                                                     *)
(***************************************************************************)
EXTENDS JobQueue, FiniteSetTheorems, SequenceTheorems, TLAPS

-----------------------------------------------------------------------------
(* The invariant, in parts.                                                *)

CycleSteps == {"idle", "requeue", "claim", "dispatch", "slot"}

Cycle == [step : CycleSteps, age : 0 .. MaxAge, queue : Seq(Jobs)]

TaskSteps == {"handle", "complete", "fail", "release", "end"}

Task == [runner : Runners, job : Jobs, step : TaskSteps]

History ==
  [lapsed : SUBSET Jobs, handled : SUBSET Jobs, starts : [Jobs -> Nat]]

\* A job that may still be tried has an attempt left.
RowOK(row) ==
  /\ row \in Row \cup {NoJob}
  /\ row.owner # None <=> row.status = "running"
  /\ row.status \in {"pending", "retrying", "running"} =>
       row.attempts < row.max

TableOK == jobs \in [Jobs -> Row \cup {NoJob}] /\ \A j \in Jobs : RowOK(jobs[j])

BooksTyped ==
  /\ cycle \in [Runners -> Cycle]
  /\ processing \in [Runners -> SUBSET Jobs]
  /\ slots \in [Runners -> Nat]
  /\ task \in [Tasks -> Task \cup {Free}]

TasksOf(r) == {t \in Tasks : task[t].runner = r}

\* The job that waits for a slot of r.
Awaited(r) == IF cycle[r].step = "slot" THEN {Head(cycle[r].queue)} ELSE {}

\* The books of one runner: its tokens, its set, and the job that is waiting
\* for a slot, which no goroutine of the runner has.
RunnerOK(r) ==
  /\ slots[r] = Cardinality(Holding(r))
  /\ slots[r] <= Concurrency
  /\ processing[r] = {task[t].job : t \in TasksOf(r)} \cup Awaited(r)
  /\ cycle[r].step = "slot" =>
       /\ cycle[r].queue # <<>>
       /\ \A t \in TasksOf(r) : task[t].job # Head(cycle[r].queue)
  /\ \A t, u \in TasksOf(r) : task[t].job = task[u].job => t = u

BooksOK == BooksTyped /\ \A r \in Runners : RunnerOK(r)

\* Whoever is about to complete a job has its handler's consent.
ConsentOK ==
  /\ history \in History
  /\ \A t \in Tasks : task[t].step = "complete" => task[t].job \in history.handled
  /\ CompletedWasHandled

\* What is known of jobs whose lease has never run out: the place where such
\* a job is to be handed to a handler, or is with one, is the only one, and
\* the job is not leased to anybody unless there is one.
Live(t) == task[t].step \in {"handle", "complete", "fail"}

InQueue(r, j) == \E n \in DOMAIN cycle[r].queue : cycle[r].queue[n] = j

OnePlace(j) ==
  \A r, s \in Runners :
    \A n \in DOMAIN cycle[r].queue, m \in DOMAIN cycle[s].queue :
      cycle[r].queue[n] = j /\ cycle[s].queue[m] = j => r = s /\ n = m

FreshOK(j) ==
  /\ history.starts[j] <= jobs[j].attempts + 1
  /\ jobs[j].status \in {"none", "pending", "retrying"} =>
       history.starts[j] <= jobs[j].attempts
  /\ \A r \in Runners : InQueue(r, j) =>
       /\ jobs[j].status = "running"
       /\ history.starts[j] <= jobs[j].attempts
       /\ \A t \in Tasks : task[t].job = j => ~Live(t)
  /\ OnePlace(j)
  /\ \A t \in Tasks : Live(t) /\ task[t].job = j => jobs[j].status = "running"
  /\ \A t, u \in Tasks :
       Live(t) /\ task[t].job = j /\ Live(u) /\ task[u].job = j => t = u

TraceOK ==
  /\ history \in History
  /\ LapsedIn(jobs) \subseteq history.lapsed
  /\ \A j \in Jobs \ history.lapsed : FreshOK(j)

QueueInv == TableOK /\ BooksOK /\ ConsentOK /\ TraceOK

-----------------------------------------------------------------------------
(* Facts about rows and writes.                                            *)

RowRecord(status, attempts, max, next, owner, until) ==
  [status |-> status, attempts |-> attempts, max |-> max, next |-> next,
   owner |-> owner, until |-> until]

\* A row whose status and lease are overwritten.
Reassigned(row, status, owner, until) ==
  [row EXCEPT !.status = status, !.owner = owner, !.until = until]

LEMMA ReassignedRow ==
  ASSUME NEW row \in Row, NEW status, NEW owner, NEW until
  PROVE  Reassigned(row, status, owner, until) =
           RowRecord(status, row.attempts, row.max, row.next, owner, until)
<1> DEFINE a == [row EXCEPT !.status = status]
           b == [a EXCEPT !.owner = owner]
           c == [b EXCEPT !.until = until]
<1>1. a = RowRecord(status, row.attempts, row.max, row.next, row.owner, row.until)
  BY DEF Row, RowRecord
<1>2. c = Reassigned(row, status, owner, until)
  BY DEF Reassigned
<1> HIDE DEF a
<1>3. b = RowRecord(status, row.attempts, row.max, row.next, owner, row.until)
  BY <1>1 DEF RowRecord
<1> HIDE DEF b
<1>4. c = RowRecord(status, row.attempts, row.max, row.next, owner, until)
  BY <1>3 DEF RowRecord
<1> QED
  BY <1>2, <1>4

\* The same, with the time of the next attempt.
Returned(row, status, next, owner, until) ==
  [row EXCEPT !.status = status, !.next = next, !.owner = owner, !.until = until]

LEMMA ReturnedRow ==
  ASSUME NEW row \in Row, NEW status, NEW next, NEW owner, NEW until
  PROVE  Returned(row, status, next, owner, until) =
           RowRecord(status, row.attempts, row.max, next, owner, until)
<1> DEFINE a == [row EXCEPT !.status = status]
           b == [a EXCEPT !.next = next]
           c == [b EXCEPT !.owner = owner]
           d == [c EXCEPT !.until = until]
<1>1. a = RowRecord(status, row.attempts, row.max, row.next, row.owner, row.until)
  BY DEF Row, RowRecord
<1>2. d = Returned(row, status, next, owner, until)
  BY DEF Returned
<1> HIDE DEF a
<1>3. b = RowRecord(status, row.attempts, row.max, next, row.owner, row.until)
  BY <1>1 DEF RowRecord
<1> HIDE DEF b
<1>4. c = RowRecord(status, row.attempts, row.max, next, owner, row.until)
  BY <1>3 DEF RowRecord
<1> HIDE DEF c
<1>5. d = RowRecord(status, row.attempts, row.max, next, owner, until)
  BY <1>4 DEF RowRecord
<1> QED
  BY <1>2, <1>5

\* The row of a job that is enqueued.
Enqueued(max, next) ==
  [NoJob EXCEPT !.status = "pending", !.max = max, !.next = next]

LEMMA EnqueuedRow ==
  ASSUME NEW max, NEW next
  PROVE  Enqueued(max, next) =
           RowRecord("pending", 0, max, next, None, 0)
<1> DEFINE a == [NoJob EXCEPT !.status = "pending"]
           b == [a EXCEPT !.max = max]
           c == [b EXCEPT !.next = next]
<1>1. a = RowRecord("pending", 0, 0, 0, None, 0)
  BY DEF NoJob, RowRecord
<1>2. c = Enqueued(max, next)
  BY DEF Enqueued
<1> HIDE DEF a
<1>3. b = RowRecord("pending", 0, max, 0, None, 0)
  BY <1>1 DEF RowRecord
<1> HIDE DEF b
<1>4. c = RowRecord("pending", 0, max, next, None, 0)
  BY <1>3 DEF RowRecord
<1> QED
  BY <1>2, <1>4

\* What makes a row of the table.
LEMMA RecordIsOK ==
  ASSUME NEW status \in {"pending", "running", "retrying", "completed", "failed",
                         "canceled"},
         NEW attempts \in Nat, NEW max \in Limits, NEW next \in Int,
         NEW owner \in {Owner[r] : r \in Runners} \cup {None}, NEW until \in Int,
         owner # None <=> status = "running",
         status \in {"pending", "retrying", "running"} => attempts < max
  PROVE  /\ RowRecord(status, attempts, max, next, owner, until) \in Row
         /\ RowOK(RowRecord(status, attempts, max, next, owner, until))
BY DEF RowRecord, Row, RowOK

\* The same, of a job that nobody holds.
LEMMA UnheldRecordIsOK ==
  ASSUME NEW status \in {"pending", "retrying", "completed", "failed", "canceled"},
         NEW attempts \in Nat, NEW max \in Limits, NEW next \in Int,
         status \in {"pending", "retrying"} => attempts < max
  PROVE  /\ RowRecord(status, attempts, max, next, None, 0) \in Row
         /\ RowOK(RowRecord(status, attempts, max, next, None, 0))
BY DEF RowRecord, Row, RowOK

LEMMA FieldsOfRow ==
  ASSUME NEW row \in Row
  PROVE  /\ row.attempts \in Nat /\ row.max \in Limits /\ row.max \in Nat
         /\ row.next \in Int /\ row.until \in Int
         /\ row.owner \in {Owner[r] : r \in Runners} \cup {None}
<1>1. Limits \subseteq 1 .. 20
  BY ConstantsAssumption
<1>2. 1 .. 20 \subseteq Nat
  OBVIOUS
<1> QED
  BY <1>1, <1>2 DEF Row

LEMMA NoJobIsNoRow ==
  /\ NoJob \notin Row
  /\ RowOK(NoJob)
  /\ \A r \in Runners : Owner[r] # None
BY ConstantsAssumption DEF NoJob, Row, RowOK

LEMMA WriteIsNoted ==
  ASSUME history \in History, NEW table, Write(table)
  PROVE  /\ history' \in History
         /\ jobs' = table
         /\ history'.handled = history.handled
         /\ history'.lapsed = history.lapsed \cup LapsedIn(table)
         /\ \A j \in Jobs \ history'.lapsed : history'.starts[j] = history.starts[j]
<1> DEFINE lapsed == history.lapsed \cup LapsedIn(table)
           starts == [j \in Jobs |-> IF j \in lapsed THEN 0 ELSE history.starts[j]]
<1>1. lapsed \in SUBSET Jobs /\ starts \in [Jobs -> Nat]
  BY DEF History, LapsedIn
<1>2. history' = [history EXCEPT !.lapsed = lapsed, !.starts = starts]
  BY DEF Write
<1>3. jobs' = table
  BY DEF Write
<1>4. \A j \in Jobs \ lapsed : starts[j] = history.starts[j]
  OBVIOUS
<1> HIDE DEF lapsed, starts
<1>5. history' \in History /\ history'.handled = history.handled
      /\ history'.lapsed = lapsed /\ history'.starts = starts
  BY <1>1, <1>2 DEF History
<1>6. lapsed = history.lapsed \cup LapsedIn(table)
  BY DEF lapsed
<1> QED
  BY <1>3, <1>4, <1>5, <1>6

\* A write of one row, whatever row.
LEMMA OneRowKeepsTable ==
  ASSUME TableOK, NEW j \in Jobs, NEW row \in Row, RowOK(row),
         jobs' = [jobs EXCEPT ![j] = row]
  PROVE  TableOK'
BY DEF TableOK, RowOK

-----------------------------------------------------------------------------
(* The table.                                                              *)

LEMMA EnqueueKeepsTable ==
  ASSUME TableOK, history \in History, NEW j \in Jobs, Enqueue(j)
  PROVE  TableOK'
<1>1. PICK max \in Limits, delay \in Delays :
        Write([jobs EXCEPT ![j] = Enqueued(max, delay)])
  BY DEF Enqueue, Enqueued
<1> DEFINE row == Enqueued(max, delay)
<1>2. max \in Nat /\ 0 < max /\ delay \in Int
  BY ConstantsAssumption
<1>3. row \in Row /\ RowOK(row)
  BY <1>2, EnqueuedRow, RecordIsOK
<1>4. jobs' = [jobs EXCEPT ![j] = row]
  BY <1>1 DEF Write
<1> HIDE DEF row
<1> QED
  BY <1>3, <1>4, OneRowKeepsTable

LEMMA CancelKeepsTable ==
  ASSUME TableOK, NEW j \in Jobs, Cancel(j)
  PROVE  TableOK'
<1> DEFINE row == [jobs[j] EXCEPT !.status = "canceled"]
<1>1. jobs[j] \in Row /\ jobs[j].owner = None
  BY NoJobIsNoRow DEF Cancel, Waiting, TableOK, RowOK, NoJob
<1>2. row \in Row /\ RowOK(row)
  BY <1>1 DEF Row, RowOK
<1>3. jobs' = [jobs EXCEPT ![j] = row]
  BY DEF Cancel, Write, TableOK
<1> HIDE DEF row
<1> QED
  BY <1>2, <1>3, OneRowKeepsTable

LEMMA RequeueKeepsTable ==
  ASSUME TableOK, BooksTyped, NEW r \in Runners, Requeue(r)
  PROVE  TableOK'
<1> DEFINE at == -cycle[r].age
           back == {j \in Jobs : jobs[j].status = "running" /\ LeaseOver(jobs[j], at)}
           row(j) == Returned(jobs[j], "retrying", at, None, 0)
<1>1. at \in Int
  BY ConstantsAssumption DEF BooksTyped, Cycle
<1>2. jobs' = [j \in Jobs |-> IF j \in back THEN row(j) ELSE jobs[j]]
  BY DEF Requeue, Write, Returned
<1>3. ASSUME NEW j \in Jobs, jobs[j].status = "running"
      PROVE  row(j) \in Row /\ RowOK(row(j))
  <2>1. jobs[j] \in Row
    BY <1>3 DEF TableOK, NoJob
  <2>2. jobs[j].attempts < jobs[j].max
    BY <1>3 DEF TableOK, RowOK
  <2>3. row(j) = RowRecord("retrying", jobs[j].attempts, jobs[j].max, at, None, 0)
    BY <2>1, ReturnedRow
  <2> HIDE DEF at
  <2> QED
    BY <1>1, <2>1, <2>2, <2>3, FieldsOfRow, RecordIsOK
<1>4. ASSUME NEW j \in Jobs
      PROVE  jobs'[j] \in Row \cup {NoJob} /\ RowOK(jobs'[j])
  BY <1>2, <1>3 DEF TableOK
<1>5. jobs' = [j \in Jobs |-> jobs'[j]]
  BY <1>2
<1> QED
  BY <1>4, <1>5 DEF TableOK, RowOK

LEMMA ClaimKeepsTable ==
  ASSUME TableOK, BooksTyped, NEW r \in Runners, Claim(r)
  PROVE  TableOK'
<1> DEFINE at == -cycle[r].age
           row(j) == Reassigned(jobs[j], "running", Owner[r], at + Lease)
<1>1. at + Lease \in Int
  BY ConstantsAssumption DEF BooksTyped, Cycle
<1>2. PICK size \in 0 .. Batch : \E queue \in [1 .. size -> Claimable(at)] :
        jobs' = [j \in Jobs |->
                   IF \E n \in 1 .. size : queue[n] = j THEN row(j) ELSE jobs[j]]
  BY DEF Claim, Write, Reassigned
<1>3. PICK queue \in [1 .. size -> Claimable(at)] :
        jobs' = [j \in Jobs |->
                   IF \E n \in 1 .. size : queue[n] = j THEN row(j) ELSE jobs[j]]
  BY <1>2
<1>4. ASSUME NEW j \in Claimable(at)
      PROVE  row(j) \in Row /\ RowOK(row(j))
  <2>1. j \in Jobs /\ jobs[j].status \in {"pending", "retrying", "running"}
    BY DEF Claimable
  <2>2. jobs[j] \in Row /\ jobs[j].attempts < jobs[j].max
    BY <2>1 DEF TableOK, NoJob, RowOK
  <2>3. row(j) = RowRecord("running", jobs[j].attempts, jobs[j].max, jobs[j].next,
                           Owner[r], at + Lease)
    BY <2>2, ReassignedRow
  <2> QED
    BY <1>1, <2>2, <2>3, NoJobIsNoRow, FieldsOfRow, RecordIsOK
<1> HIDE DEF row
<1>5. ASSUME NEW j \in Jobs
      PROVE  jobs'[j] \in Row \cup {NoJob} /\ RowOK(jobs'[j])
  BY <1>3, <1>4 DEF TableOK
<1>6. jobs' = [j \in Jobs |-> jobs'[j]]
  BY <1>3
<1> QED
  BY <1>5, <1>6 DEF TableOK, RowOK

LEMMA CompleteKeepsTable ==
  ASSUME TableOK, BooksTyped, NEW t \in Tasks, Complete(t)
  PROVE  TableOK'
<1> DEFINE j == task[t].job
           row == Reassigned(jobs[j], "completed", None, 0)
<1>1. CASE ~Owns(t)
  BY <1>1 DEF Complete, TableOK, RowOK
<1>2. CASE Owns(t)
  <2>1. j \in Jobs
    BY DEF Complete, BooksTyped, Task, Free
  <2>2. jobs[j] \in Row
    BY <1>2, <2>1 DEF Owns, TableOK, NoJob
  <2>3. row = RowRecord("completed", jobs[j].attempts, jobs[j].max, jobs[j].next, None, 0)
    BY <2>2, ReassignedRow
  <2>4. jobs' = [jobs EXCEPT ![j] = row]
    BY <1>2, <2>1, <2>2 DEF Complete, Write, TableOK, Reassigned
  <2> HIDE DEF row, j
  <2>5. row \in Row /\ RowOK(row)
    BY <2>2, <2>3, FieldsOfRow, UnheldRecordIsOK
  <2> QED
    BY <2>1, <2>4, <2>5, OneRowKeepsTable
<1> QED
  BY <1>1, <1>2

LEMMA RetryDelayIsInt == \A n \in Nat : RetryDelay(n) \in Int
BY DEF RetryDelay

\* What Fail writes: the last attempt is the one that reaches the limit.
FailedRow(row, late) ==
  LET attempts == row.attempts + 1
      last == LastAttempt(attempts, row.max)
  IN  [status |-> IF last THEN "failed" ELSE "retrying",
       attempts |-> attempts,
       max |-> row.max,
       next |-> IF last THEN -late ELSE RetryDelay(attempts) - late,
       owner |-> None,
       until |-> 0]

LEMMA FailedRowIsOK ==
  ASSUME NEW row \in Row, NEW late \in 0 .. MaxAge
  PROVE  FailedRow(row, late) \in Row /\ RowOK(FailedRow(row, late))
<1> DEFINE attempts == row.attempts + 1
           next == IF LastAttempt(attempts, row.max) THEN -late
                   ELSE RetryDelay(attempts) - late
<1>1. attempts \in Nat /\ row.max \in Limits /\ row.max \in Nat
  BY FieldsOfRow
<1>2. next \in Int
  <2>1. late \in Int
    BY ConstantsAssumption
  <2> HIDE DEF attempts
  <2>2. RetryDelay(attempts) \in Int
    BY <1>1, RetryDelayIsInt
  <2> QED
    BY <2>1, <2>2
<1> DEFINE status == IF LastAttempt(attempts, row.max) THEN "failed" ELSE "retrying"
<1>3. FailedRow(row, late) = RowRecord(status, attempts, row.max, next, None, 0)
  BY DEF FailedRow, RowRecord
<1>4. /\ status \in {"failed", "retrying"}
      /\ status = "retrying" => attempts < row.max
  BY <1>1 DEF LastAttempt
<1> HIDE DEF next, status, attempts
<1> QED
  BY <1>1, <1>2, <1>3, <1>4, UnheldRecordIsOK

LEMMA FailWritesFailedRow ==
  ASSUME NEW t \in Tasks, Fail(t)
  PROVE  \/ UNCHANGED <<jobs, history>>
         \/ /\ Owns(t)
            /\ \E late \in 0 .. MaxAge :
                 Write([jobs EXCEPT
                   ![task[t].job] = FailedRow(jobs[task[t].job], late)])
BY DEF Fail, FailedRow

LEMMA FailKeepsTable ==
  ASSUME TableOK, BooksTyped, NEW t \in Tasks, Fail(t)
  PROVE  TableOK'
<1>1. CASE UNCHANGED <<jobs, history>>
  BY <1>1 DEF TableOK, RowOK
<1>2. ASSUME NEW late \in 0 .. MaxAge, Owns(t),
             Write([jobs EXCEPT ![task[t].job] = FailedRow(jobs[task[t].job], late)])
      PROVE  TableOK'
  <2>1. task[t].job \in Jobs
    BY DEF Fail, BooksTyped, Task, Free
  <2>2. jobs[task[t].job] \in Row
    BY <1>2, <2>1 DEF Owns, TableOK, NoJob
  <2> QED
    BY <1>2, <2>1, <2>2, FailedRowIsOK, OneRowKeepsTable DEF Write
<1> QED
  BY <1>1, <1>2, FailWritesFailedRow

LEMMA EarlierIsBefore ==
  ASSUME NEW n \in Int
  PROVE  Earlier(n) \in Int /\ Earlier(n) <= n
BY DEF Earlier

\* What a tick makes of a row.
Aged(row) ==
  IF row = NoJob THEN NoJob
  ELSE [row EXCEPT
         !.next = Earlier(@),
         !.until = IF row.owner = None THEN 0 ELSE Earlier(@)]

LEMMA AgedRowIsOK ==
  ASSUME NEW row \in Row, RowOK(row)
  PROVE  /\ Aged(row) \in Row /\ RowOK(Aged(row))
         /\ Aged(row).status = row.status /\ Aged(row).attempts = row.attempts
         /\ Aged(row).max = row.max /\ Aged(row).owner = row.owner
         /\ row.owner # None => Aged(row).until <= row.until
<1> DEFINE next == Earlier(row.next)
           until == IF row.owner = None THEN 0 ELSE Earlier(row.until)
<1>1. next \in Int /\ until \in Int /\ (row.owner # None => until <= row.until)
  BY EarlierIsBefore DEF Row
<1>2. row # NoJob
  BY NoJobIsNoRow
<1>3. Aged(row) = [row EXCEPT !.next = next, !.until = until]
  BY <1>2 DEF Aged
<1> HIDE DEF next, until
<1> QED
  BY <1>1, <1>3 DEF Row, RowOK

LEMMA TickAges ==
  ASSUME Tick
  PROVE  Write([j \in Jobs |-> Aged(jobs[j])])
BY DEF Tick, Aged

LEMMA TickKeepsTable ==
  ASSUME TableOK, Tick
  PROVE  TableOK'
<1>1. jobs' = [j \in Jobs |-> Aged(jobs[j])]
  BY TickAges DEF Write
<1>2. ASSUME NEW j \in Jobs
      PROVE  Aged(jobs[j]) \in Row \cup {NoJob} /\ RowOK(Aged(jobs[j]))
  <2>1. CASE jobs[j] = NoJob
    BY <2>1, NoJobIsNoRow DEF Aged
  <2>2. CASE jobs[j] # NoJob
    BY <2>2, AgedRowIsOK DEF TableOK
  <2> QED
    BY <2>1, <2>2
<1> QED
  BY <1>1, <1>2 DEF TableOK, RowOK

-----------------------------------------------------------------------------
(* The books of the runners.                                               *)

\* A runner that has the goroutines, tokens and awaited job it had before.
LEMMA SameBooks ==
  ASSUME NEW r \in Runners, RunnerOK(r),
         processing'[r] = processing[r], slots'[r] = slots[r],
         \/ /\ cycle'[r].step = cycle[r].step
            /\ cycle'[r].queue = cycle[r].queue
         \/ cycle[r].step # "slot" /\ cycle'[r].step # "slot",
         \A t \in Tasks :
           task[t].runner = r \/ task'[t].runner = r => task'[t] = task[t]
  PROVE  RunnerOK(r)'
<1>1. TasksOf(r)' = TasksOf(r) /\ \A t \in TasksOf(r) : task'[t] = task[t]
  BY DEF TasksOf
<1>2. Holding(r)' = Holding(r)
  BY DEF Holding
<1>3. Awaited(r)' = Awaited(r)
  BY DEF Awaited
<1>4. {task'[t].job : t \in TasksOf(r)'} = {task[t].job : t \in TasksOf(r)}
  BY <1>1
<1> QED
  BY <1>1, <1>2, <1>3, <1>4 DEF RunnerOK

LEMMA QuietBooks ==
  ASSUME BooksOK, UNCHANGED <<cycle, processing, slots, task>>
  PROVE  BooksOK'
<1>1. BooksTyped'
  BY DEF BooksOK, BooksTyped
<1>2. ASSUME NEW r \in Runners
      PROVE  RunnerOK(r)'
  BY SameBooks DEF BooksOK
<1> QED
  BY <1>1, <1>2 DEF BooksOK

\* A cycle goes on, between steps at which it awaits no slot.
LEMMA CycleGoesOn ==
  ASSUME BooksOK, NEW r \in Runners, NEW c \in Cycle,
         cycle' = [cycle EXCEPT ![r] = c],
         cycle[r].step # "slot", c.step # "slot",
         UNCHANGED <<processing, slots, task>>
  PROVE  BooksOK'
<1>1. BooksTyped'
  BY DEF BooksOK, BooksTyped
<1>2. ASSUME NEW s \in Runners
      PROVE  RunnerOK(s)'
  BY SameBooks DEF BooksOK, BooksTyped
<1> QED
  BY <1>1, <1>2 DEF BooksOK

LEMMA IdleIsACycle == Idle \in Cycle /\ Idle.step # "slot"
<1>1. <<>> \in Seq(Jobs)
  OBVIOUS
<1>2. 0 \in 0 .. MaxAge
  BY ConstantsAssumption
<1> QED
  BY <1>1, <1>2 DEF Idle, Cycle, CycleSteps

\* What a cycle becomes when a field of it changes.
LEMMA CycleFields ==
  ASSUME NEW c \in Cycle, NEW step \in CycleSteps, NEW queue \in Seq(Jobs)
  PROVE  /\ [c EXCEPT !.step = step] \in Cycle
         /\ [c EXCEPT !.step = step].step = step
         /\ [c EXCEPT !.step = step].queue = c.queue
         /\ [c EXCEPT !.queue = queue] \in Cycle
         /\ [c EXCEPT !.queue = queue].step = c.step
         /\ [c EXCEPT !.queue = queue].queue = queue
BY DEF Cycle

LEMMA CycleIsTyped ==
  ASSUME BooksOK, NEW r \in Runners
  PROVE  /\ cycle[r] \in Cycle
         /\ cycle[r].queue \in Seq(Jobs)
         /\ cycle[r].queue # <<>> =>
              /\ Head(cycle[r].queue) \in Jobs
              /\ Tail(cycle[r].queue) \in Seq(Jobs)
BY DEF BooksOK, BooksTyped, Cycle

LEMMA StartCycleKeepsBooks ==
  ASSUME BooksOK, NEW r \in Runners, StartCycle(r)
  PROVE  BooksOK'
<1> DEFINE c == [cycle[r] EXCEPT !.step = "requeue"]
<1>1. c \in Cycle /\ c.step # "slot"
  BY CycleIsTyped, CycleFields DEF CycleSteps
<1>2. cycle' = [cycle EXCEPT ![r] = c] /\ cycle[r].step # "slot"
  BY DEF StartCycle, Idle
<1> HIDE DEF c
<1> QED
  BY <1>1, <1>2, CycleGoesOn DEF StartCycle

LEMMA AbandonKeepsBooks ==
  ASSUME BooksOK, NEW r \in Runners, AbandonCycle(r)
  PROVE  BooksOK'
BY IdleIsACycle, CycleGoesOn DEF AbandonCycle

LEMMA RequeueKeepsBooks ==
  ASSUME BooksOK, NEW r \in Runners, Requeue(r)
  PROVE  BooksOK'
<1> DEFINE c == [cycle[r] EXCEPT !.step = "claim"]
<1>1. c \in Cycle /\ c.step # "slot"
  BY CycleIsTyped, CycleFields DEF CycleSteps
<1>2. cycle' = [cycle EXCEPT ![r] = c] /\ cycle[r].step # "slot"
      /\ UNCHANGED <<processing, slots, task>>
  BY DEF Requeue
<1> HIDE DEF c
<1> QED
  BY <1>1, <1>2, CycleGoesOn

\* What a claim puts into the hands of its runner.
LEMMA ClaimedQueue ==
  ASSUME BooksOK, NEW r \in Runners, Claim(r)
  PROVE  \E queue \in Seq(Jobs) :
           /\ cycle[r].step = "claim"
           /\ \A n \in DOMAIN queue : queue[n] \in Claimable(-cycle[r].age)
           /\ \A m, n \in DOMAIN queue : m # n => queue[m] # queue[n]
           /\ Write([j \in Jobs |->
                IF \E n \in DOMAIN queue : queue[n] = j
                THEN Reassigned(jobs[j], "running", Owner[r], -cycle[r].age + Lease)
                ELSE jobs[j]])
           /\ cycle' = [cycle EXCEPT
                ![r] = [step |-> "dispatch", age |-> 0, queue |-> queue]]
           /\ UNCHANGED <<processing, slots, task>>
<1> DEFINE at == -cycle[r].age
<1>1. PICK size \in 0 .. Batch : \E queue \in [1 .. size -> Claimable(at)] :
        /\ FirstOf(Claimable(at), queue)
        /\ Write([j \in Jobs |->
             IF \E n \in 1 .. size : queue[n] = j
             THEN Reassigned(jobs[j], "running", Owner[r], at + Lease)
             ELSE jobs[j]])
        /\ cycle' = [cycle EXCEPT
             ![r] = [step |-> "dispatch", age |-> 0, queue |-> queue]]
  BY DEF Claim, Reassigned
<1>2. PICK queue \in [1 .. size -> Claimable(at)] :
        /\ FirstOf(Claimable(at), queue)
        /\ Write([j \in Jobs |->
             IF \E n \in 1 .. size : queue[n] = j
             THEN Reassigned(jobs[j], "running", Owner[r], at + Lease)
             ELSE jobs[j]])
        /\ cycle' = [cycle EXCEPT
             ![r] = [step |-> "dispatch", age |-> 0, queue |-> queue]]
  BY <1>1
<1>3. size \in Nat
  BY ConstantsAssumption DEF Batch
<1>4. Claimable(at) \subseteq Jobs
  BY DEF Claimable
<1> HIDE DEF at
<1>5. queue \in Seq(Jobs) /\ Len(queue) = size /\ DOMAIN queue = 1 .. size
  BY <1>3, <1>4, <1>2
<1>6. ASSUME NEW m \in 1 .. size, NEW n \in 1 .. size, m # n
      PROVE  queue[m] # queue[n]
  <2>1. m < n \/ n < m
    BY <1>6, <1>3
  <2> QED
    BY <1>2, <1>5, <2>1 DEF FirstOf
<1> QED
  BY <1>2, <1>5, <1>6, ZenonT(40) DEF Claim, at

LEMMA ClaimKeepsBooks ==
  ASSUME BooksOK, NEW r \in Runners, Claim(r)
  PROVE  BooksOK'
<1>1. PICK queue \in Seq(Jobs) :
        /\ cycle[r].step = "claim"
        /\ cycle' = [cycle EXCEPT
             ![r] = [step |-> "dispatch", age |-> 0, queue |-> queue]]
        /\ UNCHANGED <<processing, slots, task>>
  BY ClaimedQueue
<1> DEFINE c == [step |-> "dispatch", age |-> 0, queue |-> queue]
<1>2. c \in Cycle /\ c.step # "slot"
  BY ConstantsAssumption DEF Cycle, CycleSteps
<1> HIDE DEF c
<1> QED
  BY <1>1, <1>2, CycleGoesOn DEF c

\* The head of the queue begins: nobody of this runner has it.
LEMMA BeginKeepsBooks ==
  ASSUME BooksOK, NEW r \in Runners,
         cycle[r].step = "dispatch", cycle[r].queue # <<>>,
         Begins(r, Head(cycle[r].queue)),
         processing' = [processing EXCEPT ![r] = @ \cup {Head(cycle[r].queue)}],
         cycle' = [cycle EXCEPT ![r].step = "slot"],
         UNCHANGED <<slots, task>>
  PROVE  BooksOK'
<1> DEFINE c == [cycle[r] EXCEPT !.step = "slot"]
           j == Head(cycle[r].queue)
<1>1. /\ c \in Cycle /\ c.step = "slot" /\ c.queue = cycle[r].queue
      /\ j \in Jobs
  BY CycleIsTyped, CycleFields DEF CycleSteps
<1>2. cycle' = [cycle EXCEPT ![r] = c]
  OBVIOUS
<1> HIDE DEF c
<1>3. BooksTyped'
  BY <1>1, <1>2 DEF BooksOK, BooksTyped
<1>4. ASSUME NEW s \in Runners, s # r
      PROVE  RunnerOK(s)'
  BY <1>4, <1>2, SameBooks DEF BooksOK, BooksTyped
<1>5. RunnerOK(r)'
  <2>1. cycle'[r] = c /\ processing'[r] = processing[r] \cup {j}
    BY <1>2 DEF BooksOK, BooksTyped
  <2>2. TasksOf(r)' = TasksOf(r) /\ Holding(r)' = Holding(r)
    BY DEF TasksOf, Holding
  <2>3. Awaited(r)' = {j} /\ Awaited(r) = {}
    BY <1>1, <2>1 DEF Awaited
  <2>4. RunnerOK(r) /\ j \notin processing[r]
    BY DEF BooksOK, Begins
  <2>5. \A t \in TasksOf(r) : task[t].job # j
    BY <2>4 DEF RunnerOK
  <2> HIDE DEF j
  <2>6. /\ slots'[r] = Cardinality(Holding(r)') /\ slots'[r] <= Concurrency
        /\ processing'[r] = {task'[t].job : t \in TasksOf(r)'} \cup Awaited(r)'
    BY <2>1, <2>2, <2>3, <2>4 DEF RunnerOK
  <2> QED
    BY <1>1, <2>1, <2>2, <2>4, <2>5, <2>6 DEF RunnerOK, j
<1> QED
  BY <1>3, <1>4, <1>5 DEF BooksOK

LEMMA DispatchKeepsBooks ==
  ASSUME BooksOK, NEW r \in Runners, Dispatch(r)
  PROVE  BooksOK'
<1>1. CASE cycle' = [cycle EXCEPT ![r] = Idle] /\ UNCHANGED processing
  BY <1>1, IdleIsACycle, CycleGoesOn DEF Dispatch
<1>2. CASE /\ cycle[r].queue # <<>>
           /\ cycle' = [cycle EXCEPT ![r].queue = Tail(cycle[r].queue)]
           /\ UNCHANGED processing
  <2> DEFINE c == [cycle[r] EXCEPT !.queue = Tail(cycle[r].queue)]
  <2>1. cycle[r].step = "dispatch"
    BY DEF Dispatch
  <2>2. cycle[r] \in Cycle /\ Tail(cycle[r].queue) \in Seq(Jobs)
    BY <1>2, CycleIsTyped
  <2>3. cycle' = [cycle EXCEPT ![r] = c]
    BY <1>2
  <2>4. c \in Cycle /\ c.step = "dispatch"
    BY <2>1, <2>2 DEF Cycle
  <2> HIDE DEF c
  <2> QED
    BY <1>2, <2>1, <2>3, <2>4, CycleGoesOn DEF Dispatch
<1>3. CASE /\ cycle[r].queue # <<>>
           /\ Begins(r, Head(cycle[r].queue))
           /\ processing' = [processing EXCEPT ![r] = @ \cup {Head(cycle[r].queue)}]
           /\ cycle' = [cycle EXCEPT ![r].step = "slot"]
  BY <1>3, BeginKeepsBooks DEF Dispatch
<1> QED
  BY <1>1, <1>2, <1>3 DEF Dispatch

-----------------------------------------------------------------------------
(* The books, and the goroutines.                                          *)

LEMMA HoldersAreFinite ==
  ASSUME NEW r
  PROVE  IsFiniteSet(Holding(r))
<1>1. Holding(r) \in SUBSET Tasks
  BY DEF Holding
<1> QED
  BY <1>1, FS_Subset, ConstantsAssumption

\* The goroutine that starts takes the token and the job that was awaited.
LEMMA Spawned ==
  ASSUME BooksOK, NEW r \in Runners, Spawn(r)
  PROVE  \E t \in Tasks, j \in Jobs :
           /\ cycle[r].step = "slot" /\ cycle[r].queue # <<>>
           /\ j = Head(cycle[r].queue)
           /\ task[t] = Free
           /\ task' = [task EXCEPT
                ![t] = [runner |-> r, job |-> j, step |-> "handle"]]
           /\ slots[r] < Concurrency /\ slots' = [slots EXCEPT ![r] = @ + 1]
           /\ \E c \in Cycle :
                /\ c.step = "dispatch" /\ c.queue = Tail(cycle[r].queue)
                /\ cycle' = [cycle EXCEPT ![r] = c]
           /\ history' = IF j \in history.lapsed THEN history
                         ELSE [history EXCEPT !.starts[j] = @ + 1]
           /\ UNCHANGED <<jobs, processing>>
<1> DEFINE j == Head(cycle[r].queue)
           a == [cycle[r] EXCEPT !.step = "dispatch"]
           c == [a EXCEPT !.queue = Tail(cycle[r].queue)]
<1>1. cycle[r].step = "slot" /\ cycle[r].queue # <<>>
  BY DEF Spawn, BooksOK, RunnerOK
<1>2. /\ cycle[r] \in Cycle /\ j \in Jobs /\ Tail(cycle[r].queue) \in Seq(Jobs)
  BY <1>1, CycleIsTyped
<1>3. a \in Cycle /\ a.step = "dispatch"
  BY <1>2, CycleFields DEF CycleSteps
<1>4. cycle' = [cycle EXCEPT ![r] = c]
  BY DEF Spawn
<1> HIDE DEF a
<1>5. c \in Cycle /\ c.step = "dispatch" /\ c.queue = Tail(cycle[r].queue)
  BY <1>2, <1>3 DEF Cycle
<1> HIDE DEF c
<1>6. PICK t \in Tasks :
        /\ task[t] = Free
        /\ task' = [task EXCEPT
             ![t] = [runner |-> r, job |-> j, step |-> "handle"]]
  BY DEF Spawn
<1> QED
  BY <1>1, <1>2, <1>4, <1>5, <1>6 DEF Spawn

LEMMA SpawnKeepsBooks ==
  ASSUME BooksOK, NEW r \in Runners, Spawn(r)
  PROVE  BooksOK'
<1>1. PICK t \in Tasks, j \in Jobs :
        /\ cycle[r].step = "slot" /\ cycle[r].queue # <<>>
        /\ j = Head(cycle[r].queue)
        /\ task[t] = Free
        /\ task' = [task EXCEPT
             ![t] = [runner |-> r, job |-> j, step |-> "handle"]]
        /\ slots[r] < Concurrency /\ slots' = [slots EXCEPT ![r] = @ + 1]
        /\ \E c \in Cycle :
             /\ c.step = "dispatch" /\ c.queue = Tail(cycle[r].queue)
             /\ cycle' = [cycle EXCEPT ![r] = c]
        /\ UNCHANGED <<jobs, processing>>
  BY Spawned
<1>2. PICK c \in Cycle :
        c.step = "dispatch" /\ cycle' = [cycle EXCEPT ![r] = c]
  BY <1>1
<1> DEFINE new == [runner |-> r, job |-> j, step |-> "handle"]
<1>3. new \in Task
  BY DEF Task, TaskSteps
<1>4. task'[t] = new /\ \A u \in Tasks \ {t} : task'[u] = task[u]
  BY <1>1 DEF BooksOK, BooksTyped
<1>5. BooksTyped'
  BY <1>1, <1>2, <1>3 DEF BooksOK, BooksTyped
<1>6. task[t].runner \notin Runners
  BY <1>1, ConstantsAssumption DEF Free
<1>7. ASSUME NEW s \in Runners, s # r
      PROVE  RunnerOK(s)'
  BY <1>1, <1>2, <1>4, <1>6, <1>7, SameBooks DEF BooksOK, BooksTyped
<1>8. RunnerOK(r)'
  <2>1. RunnerOK(r) /\ cycle'[r] = c
    BY <1>2 DEF BooksOK, BooksTyped
  <2>2. t \notin TasksOf(r) /\ t \notin Holding(r)
    BY <1>6 DEF TasksOf, Holding
  <2>3. TasksOf(r)' = TasksOf(r) \cup {t}
    BY <1>4 DEF TasksOf
  <2>4. Holding(r)' = Holding(r) \cup {t}
    BY <1>4 DEF Holding
  <2>5. Cardinality(Holding(r)') = Cardinality(Holding(r)) + 1
    BY <2>2, <2>4, HoldersAreFinite, FS_AddElement
  <2>6. slots'[r] = slots[r] + 1 /\ slots'[r] <= Concurrency
    BY <1>1, ConstantsAssumption DEF BooksOK, BooksTyped
  <2>7. Awaited(r) = {j} /\ Awaited(r)' = {}
    BY <1>1, <1>2, <2>1 DEF Awaited
  <2>8. {task'[u].job : u \in TasksOf(r)'} = {task[u].job : u \in TasksOf(r)} \cup {j}
    BY <1>4, <2>2, <2>3 DEF TasksOf
  <2>9. \A u \in TasksOf(r) : task[u].job # j
    BY <1>1, <2>1 DEF RunnerOK
  <2>10. \A u, v \in TasksOf(r)' : task'[u].job = task'[v].job => u = v
    BY <1>4, <2>1, <2>2, <2>3, <2>9 DEF RunnerOK, TasksOf
  <2> QED
    BY <1>1, <1>2, <2>1, <2>5, <2>6, <2>7, <2>8, <2>10 DEF RunnerOK
<1> QED
  BY <1>5, <1>7, <1>8 DEF BooksOK

\* The steps at which a goroutine holds a token.
HoldingSteps == {"handle", "complete", "fail", "release"}

LEMMA TaskIsTyped ==
  ASSUME BooksTyped, NEW t \in Tasks, task[t].step # "free"
  PROVE  /\ task[t] \in Task /\ task[t].runner \in Runners
         /\ task[t].job \in Jobs /\ task[t].step \in TaskSteps
BY DEF BooksTyped, Task, Free

\* A goroutine goes on, for its runner and its job.
LEMMA Gone ==
  ASSUME BooksTyped, NEW t \in Tasks, task[t].step # "free",
         NEW step \in TaskSteps, Go(t, step)
  PROVE  /\ task' \in [Tasks -> Task \cup {Free}]
         /\ task'[t].runner = task[t].runner /\ task'[t].job = task[t].job
         /\ task'[t].step = step
         /\ \A u \in Tasks \ {t} : task'[u] = task[u]
<1> DEFINE new == [task[t] EXCEPT !.step = step]
<1>1. /\ new \in Task /\ new.runner = task[t].runner /\ new.job = task[t].job
      /\ new.step = step
  BY TaskIsTyped DEF Task
<1>2. task' = [task EXCEPT ![t] = new]
  BY DEF Go
<1> HIDE DEF new
<1> QED
  BY <1>1, <1>2 DEF BooksTyped

\* Which of its goroutines a runner has does not depend on their steps.
LEMMA GoneKeepsTasks ==
  ASSUME BooksTyped, NEW t \in Tasks, task[t].step # "free",
         NEW step \in TaskSteps, Go(t, step), NEW r \in Runners
  PROVE  /\ TasksOf(r)' = TasksOf(r)
         /\ \A u \in Tasks : task'[u].job = task[u].job
         /\ {task'[u].job : u \in TasksOf(r)'} = {task[u].job : u \in TasksOf(r)}
<1>1. \A u \in Tasks : task'[u].runner = task[u].runner /\ task'[u].job = task[u].job
  BY Gone
<1> QED
  BY <1>1 DEF TasksOf

LEMMA GoingOnKeepsBooks ==
  ASSUME BooksOK, NEW t \in Tasks, task[t].step \in HoldingSteps,
         NEW step \in HoldingSteps, Go(t, step),
         UNCHANGED <<cycle, processing, slots>>
  PROVE  BooksOK'
<1>1. task[t].step # "free" /\ step \in TaskSteps /\ BooksTyped
  BY DEF HoldingSteps, TaskSteps, BooksOK
<1>2. BooksTyped'
  BY <1>1, Gone DEF BooksTyped
<1>3. ASSUME NEW r \in Runners
      PROVE  RunnerOK(r)'
  <2>1. Holding(r)' = Holding(r)
    BY <1>1, Gone DEF Holding, HoldingSteps
  <2>2. /\ TasksOf(r)' = TasksOf(r)
        /\ \A u \in Tasks : task'[u].job = task[u].job
        /\ {task'[u].job : u \in TasksOf(r)'} = {task[u].job : u \in TasksOf(r)}
    BY <1>1, GoneKeepsTasks
  <2>3. Awaited(r)' = Awaited(r)
    BY DEF Awaited
  <2>4. \A u \in TasksOf(r) : u \in Tasks
    BY DEF TasksOf
  <2> QED
    BY <2>1, <2>2, <2>3, <2>4 DEF RunnerOK, BooksOK
<1> QED
  BY <1>2, <1>3 DEF BooksOK

LEMMA AnswersKeepsBooks ==
  ASSUME BooksOK, NEW t \in Tasks, NEW outcome \in {"ok", "error", "canceled"},
         Answers(t, outcome)
  PROVE  BooksOK'
<1>1. After(outcome) \in HoldingSteps
  BY DEF After, HoldingSteps
<1>2. task[t].step \in HoldingSteps
  BY DEF Answers, HoldingSteps
<1> QED
  BY <1>1, <1>2, GoingOnKeepsBooks DEF Answers

LEMMA MarkKeepsBooks ==
  ASSUME BooksOK, NEW t \in Tasks, Complete(t) \/ Fail(t) \/ LoseMark(t)
  PROVE  BooksOK'
<1>1. task[t].step \in {"complete", "fail"} /\ Go(t, "release")
      /\ UNCHANGED <<cycle, processing, slots>>
  BY DEF Complete, Fail, LoseMark
<1> QED
  BY <1>1, GoingOnKeepsBooks DEF HoldingSteps

LEMMA ReleaseKeepsBooks ==
  ASSUME BooksOK, NEW t \in Tasks, Release(t)
  PROVE  BooksOK'
<1> DEFINE r == task[t].runner
<1>1. /\ task[t].step = "release" /\ Go(t, "end")
      /\ slots' = [slots EXCEPT ![r] = @ - 1]
      /\ UNCHANGED <<cycle, processing>>
  BY DEF Release
<1>2. BooksTyped /\ r \in Runners /\ "end" \in TaskSteps
  BY <1>1, TaskIsTyped DEF BooksOK, TaskSteps
<1>3. /\ task' \in [Tasks -> Task \cup {Free}]
      /\ task'[t].runner = r /\ task'[t].step = "end"
      /\ \A u \in Tasks \ {t} : task'[u] = task[u]
  BY <1>1, <1>2, Gone
<1>4. ASSUME NEW s \in Runners
      PROVE  /\ Holding(s)' = IF s = r THEN Holding(s) \ {t} ELSE Holding(s)
             /\ s = r => t \in Holding(s)
  BY <1>1, <1>3 DEF Holding
<1>5. ASSUME NEW s \in Runners
      PROVE  /\ slots'[s] = Cardinality(Holding(s)')
             /\ slots'[s] <= Concurrency /\ slots'[s] \in Nat
  <2>1. slots[s] = Cardinality(Holding(s)) /\ slots[s] <= Concurrency
        /\ slots[s] \in Nat
    BY DEF BooksOK, RunnerOK, BooksTyped
  <2>2. CASE s # r
    BY <1>1, <1>2, <1>4, <2>1, <2>2 DEF BooksTyped
  <2>3. CASE s = r
    <3>1. /\ Cardinality(Holding(s)') = Cardinality(Holding(s)) - 1
          /\ Cardinality(Holding(s)') \in Nat
      BY <1>4, <2>3, HoldersAreFinite, FS_RemoveElement, FS_CardinalityType
    <3>2. slots'[s] = slots[s] - 1
      BY <1>1, <1>2, <2>3 DEF BooksTyped
    <3> QED
      BY <2>1, <3>1, <3>2, ConstantsAssumption
  <2> QED
    BY <2>2, <2>3
<1>6. slots' \in [Runners -> Nat]
  BY <1>1, <1>2, <1>5 DEF BooksTyped
<1>7. BooksTyped'
  BY <1>1, <1>2, <1>3, <1>6 DEF BooksTyped
<1>8. ASSUME NEW s \in Runners
      PROVE  RunnerOK(s)'
  <2>1. /\ TasksOf(s)' = TasksOf(s)
        /\ \A u \in Tasks : task'[u].job = task[u].job
        /\ {task'[u].job : u \in TasksOf(s)'} = {task[u].job : u \in TasksOf(s)}
    BY <1>1, <1>2, GoneKeepsTasks
  <2>2. Awaited(s)' = Awaited(s)
    BY <1>1 DEF Awaited
  <2>3. \A u \in TasksOf(s) : u \in Tasks
    BY DEF TasksOf
  <2> QED
    BY <1>1, <1>5, <2>1, <2>2, <2>3 DEF RunnerOK, BooksOK
<1> QED
  BY <1>7, <1>8 DEF BooksOK

LEMMA EndKeepsBooks ==
  ASSUME BooksOK, NEW t \in Tasks, End(t)
  PROVE  BooksOK'
<1> DEFINE r == task[t].runner
           j == task[t].job
<1>1. /\ task[t].step = "end"
      /\ processing' = [processing EXCEPT ![r] = @ \ {j}]
      /\ task' = [task EXCEPT ![t] = Free]
      /\ UNCHANGED <<cycle, slots>>
  BY DEF End, Forget
<1>2. BooksTyped /\ r \in Runners /\ j \in Jobs
  BY <1>1, TaskIsTyped DEF BooksOK
<1>3. BooksTyped'
  BY <1>1, <1>2 DEF BooksTyped
<1>4. task'[t] = Free /\ \A u \in Tasks \ {t} : task'[u] = task[u]
  BY <1>1, <1>2 DEF BooksTyped
<1>5. Free.runner \notin Runners
  BY ConstantsAssumption DEF Free
<1>6. ASSUME NEW s \in Runners, s # r
      PROVE  RunnerOK(s)'
  BY <1>1, <1>2, <1>4, <1>5, <1>6, SameBooks DEF BooksOK, BooksTyped
<1>7. ASSUME NEW s \in Runners, s = r
      PROVE  RunnerOK(s)'
  <2>1. RunnerOK(s) /\ t \in TasksOf(s)
    BY <1>7, <1>2 DEF BooksOK, TasksOf
  <2>2. TasksOf(s)' = TasksOf(s) \ {t}
    BY <1>7, <1>4, <1>5, <1>2 DEF TasksOf
  <2>3. Holding(s)' = Holding(s)
    BY <1>7, <1>1, <1>4, <1>5, <1>2 DEF Holding
  <2>4. \A u \in TasksOf(s) \ {t} : u \in Tasks \ {t} /\ task[u].job # j
    BY <1>7, <2>1 DEF RunnerOK, TasksOf
  <2>5. {task'[u].job : u \in TasksOf(s)'} = {task[u].job : u \in TasksOf(s)} \ {j}
    BY <1>7, <1>4, <2>1, <2>2, <2>4
  <2>6. Awaited(s)' = Awaited(s) /\ j \notin Awaited(s)
    BY <1>7, <1>1, <2>1 DEF Awaited, RunnerOK
  <2>7. processing'[s] = processing[s] \ {j}
    BY <1>7, <1>1, <1>2 DEF BooksTyped
  <2>8. processing'[s] = {task'[u].job : u \in TasksOf(s)'} \cup Awaited(s)'
    BY <1>7, <2>1, <2>5, <2>6, <2>7 DEF RunnerOK
  <2>9. \A u \in TasksOf(s)' : u \in TasksOf(s) /\ task'[u].job = task[u].job
    BY <1>7, <1>4, <2>2, <2>4
  <2>10. \A u, v \in TasksOf(s)' : task'[u].job = task'[v].job => u = v
    BY <2>1, <2>9 DEF RunnerOK
  <2>11. slots'[s] = Cardinality(Holding(s)') /\ slots'[s] <= Concurrency
    BY <1>1, <2>1, <2>3 DEF RunnerOK
  <2>12. cycle'[s].step = "slot" =>
           /\ cycle'[s].queue # <<>>
           /\ \A u \in TasksOf(s)' : task'[u].job # Head(cycle'[s].queue)
    BY <1>1, <2>1, <2>9 DEF RunnerOK
  <2> QED
    BY <2>8, <2>10, <2>11, <2>12 DEF RunnerOK
<1> QED
  BY <1>3, <1>6, <1>7 DEF BooksOK

\* A crash leaves nothing in the books of its runner.
LEMMA CrashKeepsBooks ==
  ASSUME BooksOK, NEW r \in Runners, Crash(r)
  PROVE  BooksOK'
<1>1. /\ cycle' = [cycle EXCEPT ![r] = Idle]
      /\ processing' = [processing EXCEPT ![r] = {}]
      /\ slots' = [slots EXCEPT ![r] = 0]
      /\ task' = [t \in Tasks |-> IF task[t].runner = r THEN Free ELSE task[t]]
  BY DEF Crash
<1>2. BooksTyped'
  BY <1>1, IdleIsACycle DEF BooksOK, BooksTyped
<1>3. Free.runner \notin Runners
  BY ConstantsAssumption DEF Free
<1>4. ASSUME NEW s \in Runners, s # r
      PROVE  RunnerOK(s)'
  BY <1>1, <1>3, <1>4, SameBooks DEF BooksOK, BooksTyped
<1>5. RunnerOK(r)'
  <2>1. cycle'[r] = Idle /\ processing'[r] = {} /\ slots'[r] = 0
    BY <1>1 DEF BooksOK, BooksTyped
  <2>2. TasksOf(r)' = {} /\ Holding(r)' = {}
    BY <1>1, <1>3 DEF TasksOf, Holding
  <2>3. Awaited(r)' = {} /\ cycle'[r].step # "slot"
    BY <2>1, IdleIsACycle DEF Awaited
  <2> QED
    BY <2>1, <2>2, <2>3, FS_EmptySet, ConstantsAssumption DEF RunnerOK
<1> QED
  BY <1>2, <1>4, <1>5 DEF BooksOK

LEMMA TickKeepsBooks ==
  ASSUME BooksOK, Tick
  PROVE  BooksOK'
<1>1. ASSUME NEW r \in Runners
      PROVE  /\ cycle'[r] \in Cycle /\ cycle'[r].step = cycle[r].step
             /\ cycle'[r].queue = cycle[r].queue
  <2>1. cycle[r] \in Cycle
    BY DEF BooksOK, BooksTyped
  <2>2. CASE ~UsesItsClock(r)
    BY <2>1, <2>2 DEF Tick
  <2>3. CASE UsesItsClock(r)
    <3> DEFINE age == cycle[r].age + 1
    <3>1. age \in 0 .. MaxAge
      <4>1. cycle[r].age < MaxAge
        BY <2>3 DEF Tick
      <4>2. cycle[r].age \in 0 .. MaxAge
        BY <2>1 DEF Cycle
      <4> QED
        BY <4>1, <4>2, ConstantsAssumption
    <3>2. cycle'[r] = [cycle[r] EXCEPT !.age = age]
      BY <2>3 DEF Tick
    <3> HIDE DEF age
    <3> QED
      BY <2>1, <3>1, <3>2 DEF Cycle
  <2> QED
    BY <2>2, <2>3
<1>2. BooksTyped'
  <2>1. cycle' = [r \in Runners |-> cycle'[r]]
    BY DEF Tick
  <2> QED
    BY <1>1, <2>1 DEF Tick, BooksOK, BooksTyped
<1>3. ASSUME NEW r \in Runners
      PROVE  RunnerOK(r)'
  BY <1>1, SameBooks DEF BooksOK, Tick
<1> QED
  BY <1>2, <1>3 DEF BooksOK

-----------------------------------------------------------------------------
(* Consent.                                                                *)

LEMMA ConsentKept ==
  ASSUME ConsentOK, history' \in History,
         history.handled \subseteq history'.handled,
         \A t \in Tasks :
           task'[t].step = "complete" =>
             \/ task[t].step = "complete" /\ task'[t].job = task[t].job
             \/ task'[t].job \in history'.handled,
         \A j \in Jobs :
           jobs'[j].status = "completed" =>
             jobs[j].status = "completed" \/ j \in history'.handled
  PROVE  ConsentOK'
BY DEF ConsentOK, CompletedWasHandled

\* A write that completes nothing.
LEMMA WriteKeepsConsent ==
  ASSUME ConsentOK, NEW table, Write(table), UNCHANGED task,
         \A j \in Jobs :
           table[j].status = "completed" => jobs[j].status = "completed"
  PROVE  ConsentOK'
<1>1. history \in History
  BY DEF ConsentOK
<1>2. history' \in History /\ history'.handled = history.handled /\ jobs' = table
  BY <1>1, WriteIsNoted
<1> QED
  BY <1>2, ConsentKept

LEMMA CallersKeepConsent ==
  ASSUME ConsentOK, TableOK, NEW j \in Jobs, Enqueue(j) \/ Cancel(j)
  PROVE  ConsentOK'
<1>1. CASE Enqueue(j)
  <2>1. PICK max \in Limits, delay \in Delays :
          Write([jobs EXCEPT ![j] = Enqueued(max, delay)])
    BY <1>1 DEF Enqueue, Enqueued
  <2>2. Enqueued(max, delay).status = "pending"
    BY EnqueuedRow DEF RowRecord
  <2>3. UNCHANGED task
    BY <1>1 DEF Enqueue
  <2> QED
    BY <2>1, <2>2, <2>3, WriteKeepsConsent DEF TableOK
<1>2. CASE Cancel(j)
  <2>1. jobs[j] \in Row
    BY <1>2 DEF Cancel, Waiting, TableOK, NoJob
  <2>2. [jobs[j] EXCEPT !.status = "canceled"].status = "canceled"
    BY <2>1 DEF Row
  <2>3. Write([jobs EXCEPT ![j] = [jobs[j] EXCEPT !.status = "canceled"]])
        /\ UNCHANGED task
    BY <1>2 DEF Cancel
  <2> QED
    BY <2>2, <2>3, WriteKeepsConsent DEF TableOK
<1> QED
  BY <1>1, <1>2

LEMMA RunnersKeepConsent ==
  ASSUME ConsentOK, TableOK, BooksOK, NEW r \in Runners,
         RunnerStep(r) \/ AbandonCycle(r) \/ Crash(r)
  PROVE  ConsentOK'
<1>1. CASE StartCycle(r) \/ AbandonCycle(r) \/ Dispatch(r)
  BY <1>1 DEF StartCycle, AbandonCycle, Dispatch, ConsentOK, CompletedWasHandled
<1>2. CASE Requeue(r)
  <2> DEFINE at == -cycle[r].age
             table == [j \in Jobs |->
               IF j \in {i \in Jobs : jobs[i].status = "running" /\ LeaseOver(jobs[i], at)}
               THEN Returned(jobs[j], "retrying", at, None, 0)
               ELSE jobs[j]]
  <2>1. Write(table) /\ UNCHANGED task
    BY <1>2 DEF Requeue, Returned
  <2>2. ASSUME NEW j \in Jobs, table[j].status = "completed"
        PROVE  jobs[j].status = "completed"
    <3>1. CASE jobs[j].status = "running"
      <4>1. jobs[j] \in Row
        BY <3>1 DEF TableOK, NoJob
      <4>2. Returned(jobs[j], "retrying", at, None, 0).status = "retrying"
        BY <4>1, ReturnedRow DEF RowRecord
      <4> QED
        BY <2>2, <3>1, <4>2
    <3> QED
      BY <2>2, <3>1
  <2> HIDE DEF table
  <2> QED
    BY <2>1, <2>2, WriteKeepsConsent
<1>3. CASE Claim(r)
  <2>1. PICK queue \in Seq(Jobs) :
          /\ \A n \in DOMAIN queue : queue[n] \in Claimable(-cycle[r].age)
          /\ Write([j \in Jobs |->
               IF \E n \in DOMAIN queue : queue[n] = j
               THEN Reassigned(jobs[j], "running", Owner[r], -cycle[r].age + Lease)
               ELSE jobs[j]])
          /\ UNCHANGED task
    BY <1>3, ClaimedQueue
  <2> DEFINE table == [j \in Jobs |->
               IF \E n \in DOMAIN queue : queue[n] = j
               THEN Reassigned(jobs[j], "running", Owner[r], -cycle[r].age + Lease)
               ELSE jobs[j]]
  <2>2. ASSUME NEW j \in Jobs, table[j].status = "completed"
        PROVE  jobs[j].status = "completed"
    <3>1. CASE \E n \in DOMAIN queue : queue[n] = j
      <4>1. jobs[j] \in Row
        BY <2>1, <3>1 DEF Claimable, TableOK, NoJob
      <4>2. Reassigned(jobs[j], "running", Owner[r], -cycle[r].age + Lease).status
              = "running"
        BY <4>1, ReassignedRow DEF RowRecord
      <4> QED
        BY <2>2, <3>1, <4>2
    <3> QED
      BY <2>2, <3>1
  <2>3. Write(table)
    BY <2>1
  <2> HIDE DEF table
  <2> QED
    BY <2>1, <2>2, <2>3, WriteKeepsConsent
<1>4. CASE Spawn(r)
  <2>1. PICK t \in Tasks, j \in Jobs :
          /\ task' = [task EXCEPT
               ![t] = [runner |-> r, job |-> j, step |-> "handle"]]
          /\ history' = IF j \in history.lapsed THEN history
                        ELSE [history EXCEPT !.starts[j] = @ + 1]
          /\ UNCHANGED jobs
    BY <1>4, Spawned
  <2>2. history' \in History /\ history'.handled = history.handled
    BY <2>1 DEF ConsentOK, History
  <2>3. \A u \in Tasks : task'[u].step = "complete" => task'[u] = task[u]
    BY <2>1 DEF BooksOK, BooksTyped
  <2> QED
    BY <2>1, <2>2, <2>3, ConsentKept
<1>5. CASE Crash(r)
  <2>1. \A t \in Tasks : task'[t].step = "complete" => task'[t] = task[t]
    BY <1>5 DEF Crash, Free
  <2>2. UNCHANGED <<jobs, history>>
    BY <1>5 DEF Crash
  <2> QED
    BY <2>1, <2>2, ConsentKept DEF ConsentOK
<1> QED
  BY <1>1, <1>2, <1>3, <1>4, <1>5 DEF RunnerStep

LEMMA AnswersKeepsConsent ==
  ASSUME ConsentOK, BooksOK, NEW t \in Tasks,
         NEW outcome \in {"ok", "error", "canceled"}, Answers(t, outcome)
  PROVE  ConsentOK'
<1>1. /\ task[t].step = "handle" /\ Go(t, After(outcome)) /\ UNCHANGED jobs
      /\ After(outcome) \in TaskSteps
      /\ After(outcome) = "complete" => outcome = "ok"
  BY DEF Answers, After, TaskSteps
<1>2. BooksTyped /\ task[t].job \in Jobs
  BY <1>1, TaskIsTyped DEF BooksOK
<1>3. /\ task'[t].job = task[t].job /\ task'[t].step = After(outcome)
      /\ \A u \in Tasks \ {t} : task'[u] = task[u]
  BY <1>1, <1>2, Gone
<1>4. /\ history' \in History /\ history.handled \subseteq history'.handled
      /\ outcome = "ok" => task[t].job \in history'.handled
  BY <1>2 DEF Answers, ConsentOK, History
<1> QED
  BY <1>1, <1>3, <1>4, ConsentKept

LEMMA TasksKeepConsent ==
  ASSUME ConsentOK, TableOK, BooksOK, NEW t \in Tasks,
         TaskStep(t) \/ GiveUp(t) \/ LoseMark(t)
  PROVE  ConsentOK'
<1>1. CASE Handle(t) \/ GiveUp(t)
  BY <1>1, AnswersKeepsConsent DEF Handle, GiveUp
<1>2. ASSUME NEW step \in {"release", "end"}, task[t].step # "free", Go(t, step)
      PROVE  \A u \in Tasks : task'[u].step = "complete" => task'[u] = task[u]
  BY <1>2, Gone DEF BooksOK, TaskSteps
<1>3. CASE Complete(t)
  <2>1. /\ task[t].step = "complete" /\ task[t].job \in Jobs
        /\ task[t].job \in history.handled
    BY <1>3, TaskIsTyped DEF Complete, BooksOK, ConsentOK
  <2>2. \A u \in Tasks : task'[u].step = "complete" => task'[u] = task[u]
    BY <1>2, <1>3, <2>1 DEF Complete
  <2>3. CASE UNCHANGED <<jobs, history>>
    BY <2>2, <2>3, ConsentKept DEF ConsentOK
  <2>4. CASE Write([jobs EXCEPT ![task[t].job].status = "completed",
                                ![task[t].job].owner = None,
                                ![task[t].job].until = 0])
    <3> DEFINE table == [jobs EXCEPT ![task[t].job].status = "completed",
                                     ![task[t].job].owner = None,
                                     ![task[t].job].until = 0]
    <3>1. \A j \in Jobs : j # task[t].job => table[j] = jobs[j]
      BY DEF TableOK
    <3> HIDE DEF table
    <3>2. /\ history' \in History /\ history'.handled = history.handled
          /\ jobs' = table
      BY <2>4, WriteIsNoted DEF table, ConsentOK
    <3> QED
      BY <2>1, <2>2, <3>1, <3>2, ConsentKept
  <2> QED
    BY <1>3, <2>3, <2>4 DEF Complete
<1>4. CASE Fail(t)
  <2>1. task[t].step = "fail" /\ task[t].job \in Jobs
    BY <1>4, TaskIsTyped DEF Fail, BooksOK
  <2>2. \A u \in Tasks : task'[u].step = "complete" => task'[u] = task[u]
    BY <1>2, <1>4, <2>1 DEF Fail
  <2>3. CASE UNCHANGED <<jobs, history>>
    BY <2>2, <2>3, ConsentKept DEF ConsentOK
  <2>4. ASSUME NEW late \in 0 .. MaxAge,
               Write([jobs EXCEPT ![task[t].job] = FailedRow(jobs[task[t].job], late)])
        PROVE  ConsentOK'
    <3> DEFINE j == task[t].job
    <3>1. FailedRow(jobs[j], late).status # "completed"
      BY DEF FailedRow
    <3>2. \A i \in Jobs : jobs'[i].status = "completed" => jobs[i].status = "completed"
      BY <2>1, <2>4, <3>1 DEF Write, TableOK
    <3>3. history' \in History /\ history'.handled = history.handled
      BY <2>4, WriteIsNoted DEF ConsentOK
    <3> QED
      BY <2>2, <3>2, <3>3, ConsentKept
  <2> QED
    BY <1>4, <2>3, <2>4, FailWritesFailedRow
<1>5. CASE LoseMark(t) \/ Release(t)
  <2>1. \A u \in Tasks : task'[u].step = "complete" => task'[u] = task[u]
    BY <1>2, <1>5 DEF LoseMark, Release
  <2> QED
    BY <1>5, <2>1, ConsentKept DEF LoseMark, Release, ConsentOK
<1>6. CASE End(t)
  <2>1. \A u \in Tasks : task'[u].step = "complete" => task'[u] = task[u]
    BY <1>6 DEF End, Free, BooksOK, BooksTyped
  <2> QED
    BY <1>6, <2>1, ConsentKept DEF End, ConsentOK
<1> QED
  BY <1>1, <1>3, <1>4, <1>5, <1>6 DEF TaskStep

LEMMA TickKeepsConsent ==
  ASSUME ConsentOK, TableOK, Tick
  PROVE  ConsentOK'
<1> DEFINE table == [j \in Jobs |-> Aged(jobs[j])]
<1>1. Write(table) /\ UNCHANGED task
  BY TickAges DEF Tick
<1>2. \A j \in Jobs : table[j].status = jobs[j].status
  BY AgedRowIsOK DEF TableOK, Aged
<1> HIDE DEF table
<1> QED
  BY <1>1, <1>2, WriteKeepsConsent

-----------------------------------------------------------------------------
(* Jobs whose lease has never run out.                                     *)

\* Nothing is put into the queue of r.
Shrinks(r) ==
  \/ cycle'[r].queue = <<>>
  \/ cycle'[r].queue = cycle[r].queue
  \/ cycle[r].queue # <<>> /\ cycle'[r].queue = Tail(cycle[r].queue)

LEMMA PlacesOfTail ==
  ASSUME NEW queue \in Seq(Jobs), queue # <<>>, NEW n \in DOMAIN Tail(queue)
  PROVE  /\ n \in Nat \ {0} /\ n + 1 \in DOMAIN queue
         /\ Tail(queue)[n] = queue[n + 1]
<1>1. /\ Tail(queue) \in Seq(Jobs) /\ Len(Tail(queue)) = Len(queue) - 1
      /\ Len(queue) \in Nat
  BY HeadTailProperties
<1>2. DOMAIN Tail(queue) = 1 .. Len(queue) - 1 /\ DOMAIN queue = 1 .. Len(queue)
  BY <1>1
<1> QED
  BY <1>1, <1>2

\* Where a place of the queue was before.
LEMMA PlacesKept ==
  ASSUME BooksTyped, NEW r \in Runners, Shrinks(r)
  PROVE  /\ DOMAIN cycle'[r].queue \subseteq Nat
         /\ \/ \A n \in DOMAIN cycle'[r].queue :
                 /\ n \in DOMAIN cycle[r].queue
                 /\ cycle'[r].queue[n] = cycle[r].queue[n]
            \/ \A n \in DOMAIN cycle'[r].queue :
                 /\ n + 1 \in DOMAIN cycle[r].queue
                 /\ cycle'[r].queue[n] = cycle[r].queue[n + 1]
<1>1. cycle[r].queue \in Seq(Jobs)
  BY DEF BooksTyped, Cycle
<1>2. CASE cycle'[r].queue = <<>>
  BY <1>2
<1>3. CASE cycle'[r].queue = cycle[r].queue
  BY <1>1, <1>3
<1>4. CASE cycle[r].queue # <<>> /\ cycle'[r].queue = Tail(cycle[r].queue)
  BY <1>1, <1>4, HeadTailProperties
<1> QED
  BY <1>2, <1>3, <1>4 DEF Shrinks

LEMMA PlacesStayUnique ==
  ASSUME BooksTyped, NEW j, OnePlace(j), \A r \in Runners : Shrinks(r)
  PROVE  /\ OnePlace(j)'
         /\ \A r \in Runners : InQueue(r, j)' => InQueue(r, j)
<1>1. ASSUME NEW r \in Runners, InQueue(r, j)'
      PROVE  InQueue(r, j)
  BY <1>1, PlacesKept DEF InQueue
<1>2. ASSUME NEW r \in Runners, NEW s \in Runners,
             NEW n \in DOMAIN cycle'[r].queue, NEW m \in DOMAIN cycle'[s].queue,
             cycle'[r].queue[n] = j, cycle'[s].queue[m] = j
      PROVE  r = s /\ n = m
  <2>1. InQueue(r, j) /\ InQueue(s, j)
    BY <1>1, <1>2 DEF InQueue
  <2>2. r = s
    BY <2>1 DEF InQueue, OnePlace
  <2>3. n \in Nat /\ m \in Nat
    BY <1>2, PlacesKept
  <2>4. n = m
    BY <1>2, <2>2, <2>3, PlacesKept DEF OnePlace
  <2> QED
    BY <2>2, <2>4
<1>3. OnePlace(j)'
  BY <1>2 DEF OnePlace
<1> QED
  BY <1>1, <1>3

\* A goroutine that is live on a job was live on it before.
LivesOn ==
  \A t \in Tasks :
    task'[t].step \in {"handle", "complete", "fail"} =>
      Live(t) /\ task'[t].job = task[t].job

\* No goroutine becomes live on a job.
NobodyStarts(j) ==
  \A t \in Tasks :
    task'[t].step \in {"handle", "complete", "fail"} /\ task'[t].job = j =>
      Live(t) /\ task[t].job = j

\* Nothing is added for a job, and its row says of it what it said.
LEMMA FreshKept ==
  ASSUME BooksTyped, NEW j, FreshOK(j),
         history'.starts[j] = history.starts[j],
         jobs'[j].status = jobs[j].status, jobs'[j].attempts = jobs[j].attempts,
         \A r \in Runners : Shrinks(r), NobodyStarts(j)
  PROVE  FreshOK(j)'
<1>1. /\ OnePlace(j)'
      /\ \A r \in Runners : InQueue(r, j)' => InQueue(r, j)
  BY PlacesStayUnique DEF FreshOK
<1>2. ASSUME NEW t \in Tasks, Live(t)', task'[t].job = j
      PROVE  Live(t) /\ task[t].job = j
  BY <1>2 DEF NobodyStarts, Live
<1>3. \A r \in Runners : InQueue(r, j)' =>
        /\ jobs'[j].status = "running"
        /\ history'.starts[j] <= jobs'[j].attempts
        /\ \A t \in Tasks : task'[t].job = j => ~(Live(t)')
  BY <1>1, <1>2 DEF FreshOK
<1>4. \A t \in Tasks :
        Live(t)' /\ task'[t].job = j => jobs'[j].status = "running"
  BY <1>2 DEF FreshOK
<1>5. \A t, u \in Tasks :
        Live(t)' /\ task'[t].job = j /\ Live(u)' /\ task'[u].job = j => t = u
  BY <1>2 DEF FreshOK
<1>6. /\ history'.starts[j] <= jobs'[j].attempts + 1
      /\ jobs'[j].status \in {"none", "pending", "retrying"} =>
           history'.starts[j] <= jobs'[j].attempts
  BY DEF FreshOK
<1> QED
  BY <1>1, <1>3, <1>4, <1>5, <1>6 DEF FreshOK

LEMMA NobodyNewStarts ==
  ASSUME LivesOn, NEW j
  PROVE  NobodyStarts(j)
BY DEF LivesOn, NobodyStarts

\* A step that leaves the table and the ghost alone.
LEMMA QuietTrace ==
  ASSUME TraceOK, BooksTyped, UNCHANGED <<jobs, history>>,
         \A r \in Runners : Shrinks(r), LivesOn
  PROVE  TraceOK'
<1>1. LapsedIn(jobs)' = LapsedIn(jobs)
  BY DEF LapsedIn
<1>2. ASSUME NEW j \in Jobs \ history'.lapsed
      PROVE  FreshOK(j)'
  BY FreshKept, NobodyNewStarts DEF TraceOK
<1> QED
  BY <1>1, <1>2 DEF TraceOK

\* A write of the table: only the rows it says more of need be looked at.
LEMMA WriteKeepsTrace ==
  ASSUME TraceOK, BooksTyped, NEW table, Write(table),
         \A r \in Runners : Shrinks(r), LivesOn,
         \A j \in Jobs \ history'.lapsed :
           \/ /\ table[j].status = jobs[j].status
              /\ table[j].attempts = jobs[j].attempts
           \/ FreshOK(j)'
  PROVE  TraceOK'
<1>1. /\ history' \in History /\ jobs' = table
      /\ history'.lapsed = history.lapsed \cup LapsedIn(table)
      /\ \A j \in Jobs \ history'.lapsed : history'.starts[j] = history.starts[j]
  BY WriteIsNoted DEF TraceOK
<1>2. LapsedIn(jobs)' \subseteq history'.lapsed
  BY <1>1 DEF LapsedIn
<1>3. ASSUME NEW j \in Jobs \ history'.lapsed
      PROVE  FreshOK(j)'
  <2>1. FreshOK(j) /\ history'.starts[j] = history.starts[j]
    BY <1>1 DEF TraceOK
  <2>2. CASE /\ table[j].status = jobs[j].status
             /\ table[j].attempts = jobs[j].attempts
    BY <1>1, <2>1, <2>2, FreshKept, NobodyNewStarts
  <2> QED
    BY <2>2
<1> QED
  BY <1>1, <1>2, <1>3 DEF TraceOK

LEMMA NothingMoved ==
  ASSUME UNCHANGED <<cycle, task>>
  PROVE  (\A r \in Runners : Shrinks(r)) /\ LivesOn
BY DEF Shrinks, LivesOn, Live

\* A job that is in no queue and with no handler may change its row freely,
\* as long as the starts are paid for.
LEMMA LooseJob ==
  ASSUME BooksTyped, NEW j, FreshOK(j), \A r \in Runners : Shrinks(r),
         \A r \in Runners : ~InQueue(r, j),
         \A t \in Tasks : task'[t].job = j => ~(Live(t)'),
         history'.starts[j] <= jobs'[j].attempts + 1,
         jobs'[j].status \in {"none", "pending", "retrying"} =>
           history'.starts[j] <= jobs'[j].attempts
  PROVE  FreshOK(j)'
<1>1. /\ OnePlace(j)'
      /\ \A r \in Runners : ~(InQueue(r, j)')
  BY PlacesStayUnique DEF FreshOK
<1> QED
  BY <1>1 DEF FreshOK

LEMMA TableAttempts ==
  ASSUME TableOK, NEW j \in Jobs
  PROVE  jobs[j].attempts \in Nat
BY DEF TableOK, Row, NoJob

LEMMA CallersKeepTrace ==
  ASSUME QueueInv, NEW j \in Jobs, Enqueue(j) \/ Cancel(j)
  PROVE  TraceOK'
<1> DEFINE Rewrites(row) ==
             /\ jobs[j].status \in {"none", "pending", "retrying"}
             /\ row.attempts = jobs[j].attempts
             /\ Write([jobs EXCEPT ![j] = row])
             /\ UNCHANGED <<cycle, task>>
<1>1. \E row : Rewrites(row)
  <2>1. CASE Enqueue(j)
    <3>1. PICK max \in Limits, delay \in Delays :
            Write([jobs EXCEPT ![j] = Enqueued(max, delay)])
      BY <2>1 DEF Enqueue, Enqueued
    <3>2. Enqueued(max, delay).attempts = 0
      BY EnqueuedRow DEF RowRecord
    <3>3. jobs[j] = NoJob /\ UNCHANGED <<cycle, task>>
      BY <2>1 DEF Enqueue
    <3>4. Rewrites(Enqueued(max, delay))
      BY <3>1, <3>2, <3>3 DEF NoJob
    <3> HIDE DEF Rewrites
    <3> QED
      BY <3>4
  <2>2. CASE Cancel(j)
    <3> DEFINE row == [jobs[j] EXCEPT !.status = "canceled"]
    <3>1. jobs[j] \in Row /\ jobs[j].status \in {"pending", "retrying"}
      BY <2>2 DEF Cancel, Waiting, QueueInv, TableOK, NoJob
    <3>2. Write([jobs EXCEPT ![j] = row])
      BY <2>2 DEF Cancel
    <3>3. row.attempts = jobs[j].attempts
      BY <3>1 DEF Row
    <3>4. Rewrites(row)
      BY <2>2, <3>1, <3>2, <3>3 DEF Cancel
    <3> HIDE DEF Rewrites
    <3> QED
      BY <3>4
  <2> QED
    BY <2>1, <2>2
<1>2. PICK row : Rewrites(row)
  BY <1>1
<1>3. jobs'[j] = row
  BY <1>2 DEF Write, QueueInv, TableOK
<1>4. (\A r \in Runners : Shrinks(r)) /\ LivesOn
  BY <1>2, NothingMoved
<1>5. ASSUME j \notin history'.lapsed
      PROVE  FreshOK(j)'
  <2>1. /\ history' \in History
        /\ history'.starts[j] = history.starts[j] /\ j \notin history.lapsed
    BY <1>2, <1>5, WriteIsNoted DEF QueueInv, TraceOK
  <2>2. FreshOK(j)
    BY <2>1 DEF QueueInv, TraceOK
  <2>3. /\ \A r \in Runners : ~InQueue(r, j)
        /\ \A t \in Tasks : ~(Live(t) /\ task[t].job = j)
    BY <1>2, <2>2 DEF FreshOK
  <2>4. \A t \in Tasks : task'[t].job = j => ~(Live(t)')
    BY <1>2, <2>3 DEF Live
  <2>5. history'.starts[j] \in Nat /\ jobs'[j].attempts \in Nat
    BY <1>2, <1>3, <2>1, TableAttempts DEF History, QueueInv
  <2>6. /\ history'.starts[j] <= jobs'[j].attempts
        /\ history'.starts[j] <= jobs'[j].attempts + 1
    BY <1>2, <1>3, <2>1, <2>2, <2>5 DEF FreshOK
  <2> QED
    BY <1>4, <2>2, <2>3, <2>4, <2>6, LooseJob DEF QueueInv, BooksOK
<1>6. \A i \in Jobs : i # j => [jobs EXCEPT ![j] = row][i] = jobs[i]
  BY DEF QueueInv, TableOK
<1> QED
  BY <1>2, <1>4, <1>5, <1>6, WriteKeepsTrace DEF QueueInv, BooksOK

\* A job that is claimed again was waiting, or its lease has run out.
LEMMA ClaimedFresh ==
  ASSUME QueueInv, NEW r \in Runners, NEW j \in Claimable(-cycle[r].age),
         j \notin history.lapsed
  PROVE  jobs[j].status \in {"pending", "retrying"}
<1>1. cycle[r].age \in Nat
  BY ConstantsAssumption DEF QueueInv, BooksOK, BooksTyped, Cycle
<1>2. /\ j \in Jobs /\ jobs[j].status \in {"pending", "retrying", "running"}
      /\ jobs[j].owner = None \/ jobs[j].until <= -cycle[r].age
  BY DEF Claimable, LeaseOver
<1>3. ASSUME jobs[j].status = "running"
      PROVE  FALSE
  <2>1. jobs[j].owner # None /\ jobs[j] \in Row
    BY <1>2, <1>3 DEF QueueInv, TableOK, RowOK, NoJob
  <2>2. jobs[j].until <= 0
    BY <1>1, <1>2, <2>1, FieldsOfRow
  <2> QED
    BY <1>2, <1>3, <2>2 DEF LapsedIn, QueueInv, TraceOK
<1> QED
  BY <1>2, <1>3

LEMMA RequeueKeepsTrace ==
  ASSUME QueueInv, NEW r \in Runners, Requeue(r)
  PROVE  TraceOK'
<1> DEFINE at == -cycle[r].age
           back == {j \in Jobs : jobs[j].status = "running" /\ LeaseOver(jobs[j], at)}
           table == [j \in Jobs |->
             IF j \in back THEN Returned(jobs[j], "retrying", at, None, 0)
             ELSE jobs[j]]
<1>1. Write(table) /\ UNCHANGED task
      /\ cycle' = [cycle EXCEPT ![r] = [cycle[r] EXCEPT !.step = "claim"]]
  BY DEF Requeue, Returned
<1>2. back \subseteq history.lapsed
  <2>1. cycle[r].age \in Nat
    BY ConstantsAssumption DEF QueueInv, BooksOK, BooksTyped, Cycle
  <2>2. ASSUME NEW j \in back
        PROVE  jobs[j].until <= 0
    <3>1. jobs[j] \in Row /\ jobs[j].until <= -cycle[r].age
      BY DEF QueueInv, TableOK, NoJob, LeaseOver
    <3> QED
      BY <2>1, <3>1, FieldsOfRow
  <2> QED
    BY <2>2 DEF LapsedIn, QueueInv, TraceOK
<1>3. history.lapsed \subseteq history'.lapsed
  BY <1>1, WriteIsNoted DEF QueueInv, TraceOK
<1>4. \A j \in Jobs \ history'.lapsed : table[j] = jobs[j]
  BY <1>2, <1>3
<1>5. \A s \in Runners : Shrinks(s)
  <2>1. [cycle[r] EXCEPT !.step = "claim"].queue = cycle[r].queue
    BY CycleIsTyped, CycleFields DEF QueueInv, CycleSteps
  <2> QED
    BY <1>1, <2>1 DEF Shrinks, QueueInv, BooksOK, BooksTyped
<1>6. LivesOn
  BY <1>1 DEF LivesOn, Live
<1> HIDE DEF table
<1> QED
  BY <1>1, <1>4, <1>5, <1>6, WriteKeepsTrace DEF QueueInv, BooksOK

\* A claim gives each job it takes its one place.
LEMMA ClaimKeepsTrace ==
  ASSUME QueueInv, NEW r \in Runners, Claim(r)
  PROVE  TraceOK'
<1> DEFINE at == -cycle[r].age
<1>1. PICK queue \in Seq(Jobs) :
        /\ cycle[r].step = "claim"
        /\ \A n \in DOMAIN queue : queue[n] \in Claimable(at)
        /\ \A m, n \in DOMAIN queue : m # n => queue[m] # queue[n]
        /\ Write([j \in Jobs |->
             IF \E n \in DOMAIN queue : queue[n] = j
             THEN Reassigned(jobs[j], "running", Owner[r], at + Lease)
             ELSE jobs[j]])
        /\ cycle' = [cycle EXCEPT
             ![r] = [step |-> "dispatch", age |-> 0, queue |-> queue]]
        /\ UNCHANGED <<processing, slots, task>>
  BY ClaimedQueue DEF QueueInv
<1> DEFINE taken == {queue[n] : n \in DOMAIN queue}
<1>2. /\ history' \in History
      /\ history'.lapsed = history.lapsed \cup LapsedIn(jobs')
      /\ \A j \in Jobs \ history'.lapsed : history'.starts[j] = history.starts[j]
      /\ \A j \in Jobs :
           jobs'[j] = IF j \in taken
                      THEN Reassigned(jobs[j], "running", Owner[r], at + Lease)
                      ELSE jobs[j]
  BY <1>1, WriteIsNoted DEF QueueInv, TraceOK
<1>3. /\ cycle'[r].queue = queue
      /\ \A s \in Runners \ {r} : cycle'[s] = cycle[s]
  BY <1>1 DEF QueueInv, BooksOK, BooksTyped
<1>4. \A t \in Tasks : (Live(t)' <=> Live(t)) /\ task'[t] = task[t]
  BY <1>1 DEF Live
<1>5. ASSUME NEW j \in Jobs \ history'.lapsed
      PROVE  FreshOK(j)'
  <2>1. FreshOK(j) /\ history'.starts[j] = history.starts[j]
        /\ history.starts[j] \in Nat /\ jobs[j].attempts \in Nat
    BY <1>2, TableAttempts DEF QueueInv, TraceOK, History
  <2>2. CASE j \in taken
    <3>1. jobs[j].status \in {"pending", "retrying"}
      BY <1>1, <1>2, <2>2, ClaimedFresh
    <3>2. jobs[j] \in Row
      BY <3>1 DEF QueueInv, TableOK, NoJob
    <3>3. jobs'[j].status = "running" /\ jobs'[j].attempts = jobs[j].attempts
      BY <1>2, <2>2, <3>2, ReassignedRow DEF RowRecord
    <3>4. /\ history.starts[j] <= jobs[j].attempts
          /\ \A s \in Runners : ~InQueue(s, j)
          /\ \A t \in Tasks : ~(Live(t) /\ task[t].job = j)
      BY <2>1, <3>1 DEF FreshOK
    <3>5. \A s \in Runners : \A n \in DOMAIN cycle'[s].queue :
            cycle'[s].queue[n] = j => s = r
      BY <1>3, <3>4 DEF InQueue
    <3>6. OnePlace(j)'
      <4>1. \A n, m \in DOMAIN queue : queue[n] = j /\ queue[m] = j => n = m
        BY <1>1
      <4> QED
        BY <1>3, <3>5, <4>1 DEF OnePlace
    <3>7. \A t \in Tasks : ~(Live(t)' /\ task'[t].job = j)
      BY <1>4, <3>4
    <3>8. history'.starts[j] <= jobs'[j].attempts
          /\ history'.starts[j] <= jobs'[j].attempts + 1
      BY <2>1, <3>3, <3>4
    <3> QED
      BY <3>3, <3>6, <3>7, <3>8 DEF FreshOK
  <2>3. CASE j \notin taken
    <3>1. jobs'[j] = jobs[j]
      BY <1>2, <2>3
    <3>2. \A s \in Runners : InQueue(s, j)' => s # r /\ InQueue(s, j)
      BY <1>3, <2>3 DEF InQueue
    <3>3. OnePlace(j)'
      <4>1. \A s \in Runners : \A n \in DOMAIN cycle'[s].queue :
              cycle'[s].queue[n] = j => cycle'[s] = cycle[s]
        BY <1>3, <2>3
      <4> QED
        BY <2>1, <4>1 DEF OnePlace, FreshOK
    <3> QED
      BY <1>4, <2>1, <3>1, <3>2, <3>3 DEF FreshOK
  <2> QED
    BY <2>2, <2>3
<1>6. LapsedIn(jobs)' \subseteq history'.lapsed
  BY <1>2 DEF LapsedIn
<1> QED
  BY <1>2, <1>5, <1>6 DEF TraceOK

LEMMA CyclesKeepTrace ==
  ASSUME QueueInv, NEW r \in Runners,
         StartCycle(r) \/ AbandonCycle(r) \/ Dispatch(r)
  PROVE  TraceOK'
<1>1. UNCHANGED <<jobs, history, task>>
  BY DEF StartCycle, AbandonCycle, Dispatch
<1> DEFINE Becomes(c) ==
             /\ cycle' = [cycle EXCEPT ![r] = c]
             /\ \/ c.queue = <<>>
                \/ c.queue = cycle[r].queue
                \/ cycle[r].queue # <<>> /\ c.queue = Tail(cycle[r].queue)
<1>2. \E c : Becomes(c)
  <2>1. cycle[r] \in Cycle
    BY CycleIsTyped DEF QueueInv
  <2>2. CASE cycle' = [cycle EXCEPT ![r] = Idle]
    <3>1. Becomes(Idle)
      BY <2>2 DEF Idle
    <3> QED
      BY <3>1
  <2>3. ASSUME NEW step \in CycleSteps, cycle' = [cycle EXCEPT ![r].step = step]
        PROVE  \E c : Becomes(c)
    <3>1. [cycle[r] EXCEPT !.step = step].queue = cycle[r].queue
      BY <2>1 DEF Cycle
    <3>2. cycle' = [cycle EXCEPT ![r] = [cycle[r] EXCEPT !.step = step]]
      BY <2>3
    <3> QED
      BY <3>1, <3>2
  <2>4. CASE /\ cycle[r].queue # <<>>
             /\ cycle' = [cycle EXCEPT ![r].queue = Tail(cycle[r].queue)]
    <3>1. [cycle[r] EXCEPT !.queue = Tail(cycle[r].queue)].queue
            = Tail(cycle[r].queue)
      BY <2>1 DEF Cycle
    <3>2. cycle' = [cycle EXCEPT
            ![r] = [cycle[r] EXCEPT !.queue = Tail(cycle[r].queue)]]
      BY <2>4
    <3> QED
      BY <2>4, <3>1, <3>2
  <2> QED
    BY <2>2, <2>3, <2>4 DEF StartCycle, AbandonCycle, Dispatch, CycleSteps
<1>3. \A s \in Runners : Shrinks(s)
  BY <1>2 DEF Shrinks, QueueInv, BooksOK, BooksTyped
<1>4. LivesOn
  BY <1>1 DEF LivesOn, Live
<1> QED
  BY <1>1, <1>3, <1>4, QuietTrace DEF QueueInv, BooksOK

\* The place of a job is used up when its goroutine starts.
LEMMA SpawnKeepsTrace ==
  ASSUME QueueInv, NEW r \in Runners, Spawn(r)
  PROVE  TraceOK'
<1>1. PICK t \in Tasks, j \in Jobs :
        /\ cycle[r].queue # <<>> /\ j = Head(cycle[r].queue)
        /\ task' = [task EXCEPT
             ![t] = [runner |-> r, job |-> j, step |-> "handle"]]
        /\ \E c \in Cycle :
             c.queue = Tail(cycle[r].queue) /\ cycle' = [cycle EXCEPT ![r] = c]
        /\ history' = IF j \in history.lapsed THEN history
                      ELSE [history EXCEPT !.starts[j] = @ + 1]
        /\ UNCHANGED jobs
  BY Spawned DEF QueueInv
<1>2. /\ BooksTyped /\ history \in History /\ cycle[r].queue \in Seq(Jobs)
      /\ LapsedIn(jobs) \subseteq history.lapsed
      /\ \A i \in Jobs \ history.lapsed : FreshOK(i)
  BY CycleIsTyped DEF QueueInv, BooksOK, TraceOK
<1>3. /\ cycle'[r].queue = Tail(cycle[r].queue)
      /\ \A s \in Runners \ {r} : cycle'[s] = cycle[s]
  BY <1>1, <1>2 DEF BooksTyped
<1>4. \A s \in Runners : Shrinks(s)
  BY <1>1, <1>3 DEF Shrinks
<1>5. /\ task'[t].job = j
      /\ \A u \in Tasks \ {t} : task'[u] = task[u]
  BY <1>1, <1>2 DEF BooksTyped
<1>6. /\ history' \in History /\ history'.lapsed = history.lapsed
      /\ \A i \in Jobs \ {j} : history'.starts[i] = history.starts[i]
      /\ j \notin history.lapsed => history'.starts[j] = history.starts[j] + 1
  <2> DEFINE starts == [history.starts EXCEPT ![j] = @ + 1]
  <2>1. /\ starts \in [Jobs -> Nat]
        /\ \A i \in Jobs \ {j} : starts[i] = history.starts[i]
        /\ j \in Jobs => starts[j] = history.starts[j] + 1
    BY <1>2 DEF History
  <2>2. history' = IF j \in history.lapsed THEN history
                   ELSE [history EXCEPT !.starts = starts]
    BY <1>1
  <2> HIDE DEF starts
  <2> QED
    BY <1>1, <1>2, <2>1, <2>2 DEF History
<1>7. ASSUME NEW i \in Jobs \ history'.lapsed, i # j
      PROVE  FreshOK(i)'
  <2>1. NobodyStarts(i)
    BY <1>5, <1>7 DEF NobodyStarts, Live
  <2>2. FreshOK(i) /\ history'.starts[i] = history.starts[i]
    BY <1>2, <1>6, <1>7
  <2> QED
    BY <1>1, <1>2, <1>4, <2>1, <2>2, FreshKept
<1>8. ASSUME j \notin history'.lapsed
      PROVE  FreshOK(j)'
  <2>1. FreshOK(j) /\ history'.starts[j] = history.starts[j] + 1
        /\ history.starts[j] \in Nat /\ jobs[j].attempts \in Nat
    BY <1>2, <1>6, <1>8, TableAttempts DEF QueueInv, History
  <2>2. 1 \in DOMAIN cycle[r].queue /\ cycle[r].queue[1] = j
    BY <1>1, <1>2
  <2>3. InQueue(r, j)
    BY <2>2 DEF InQueue
  <2>4. /\ jobs[j].status = "running" /\ history.starts[j] <= jobs[j].attempts
        /\ \A u \in Tasks : task[u].job = j => ~Live(u)
    BY <2>1, <2>3 DEF FreshOK
  <2>5. ASSUME NEW s \in Runners, NEW n \in DOMAIN cycle'[s].queue,
               cycle'[s].queue[n] = j
        PROVE  FALSE
    <3>1. CASE s = r
      <4>1. n \in Nat \ {0} /\ n + 1 \in DOMAIN cycle[r].queue
            /\ cycle[r].queue[n + 1] = j
        BY <1>1, <1>2, <1>3, <2>5, <3>1, PlacesOfTail
      <4>2. n + 1 = 1
        BY <2>1, <2>2, <4>1 DEF FreshOK, OnePlace
      <4> QED
        BY <4>1, <4>2
    <3>2. CASE s # r
      BY <1>3, <2>1, <2>2, <2>5, <3>2 DEF FreshOK, OnePlace
    <3> QED
      BY <3>1, <3>2
  <2>6. OnePlace(j)' /\ \A s \in Runners : ~(InQueue(s, j)')
    BY <2>5 DEF OnePlace, InQueue
  <2>7. \A u \in Tasks : Live(u)' /\ task'[u].job = j => u = t
    BY <1>5, <2>4 DEF Live
  <2>8. history'.starts[j] <= jobs'[j].attempts + 1
    BY <1>1, <2>1, <2>4
  <2> QED
    BY <1>1, <2>4, <2>6, <2>7, <2>8 DEF FreshOK
<1>9. LapsedIn(jobs)' \subseteq history'.lapsed
  BY <1>1, <1>2, <1>6 DEF LapsedIn
<1> QED
  BY <1>6, <1>7, <1>8, <1>9 DEF TraceOK

LEMMA CrashKeepsTrace ==
  ASSUME QueueInv, NEW r \in Runners, Crash(r)
  PROVE  TraceOK'
<1>1. /\ cycle' = [cycle EXCEPT ![r] = Idle]
      /\ task' = [t \in Tasks |-> IF task[t].runner = r THEN Free ELSE task[t]]
      /\ UNCHANGED <<jobs, history>>
  BY DEF Crash
<1>2. \A s \in Runners : Shrinks(s)
  BY <1>1 DEF Shrinks, Idle, QueueInv, BooksOK, BooksTyped
<1>3. LivesOn
  BY <1>1 DEF LivesOn, Live, Free
<1> QED
  BY <1>1, <1>2, <1>3, QuietTrace DEF QueueInv, BooksOK

\* Only spawning makes a goroutine live.
LEMMA GoneLivesOn ==
  ASSUME BooksTyped, NEW t \in Tasks, task[t].step # "free",
         NEW step \in TaskSteps, Go(t, step),
         Live(t) \/ step \in {"release", "end"}
  PROVE  LivesOn
<1>1. /\ task'[t].job = task[t].job /\ task'[t].step = step
      /\ \A u \in Tasks \ {t} : task'[u] = task[u]
  BY Gone
<1> QED
  BY <1>1 DEF LivesOn, Live

\* A goroutine marks its job: no other has it, and none will before the row
\* is claimed again.
LEMMA MarkedFresh ==
  ASSUME BooksTyped, NEW t \in Tasks, Live(t), Go(t, "release"), UNCHANGED cycle,
         NEW j, j = task[t].job, FreshOK(j),
         history'.starts[j] = history.starts[j],
         history.starts[j] \in Nat, jobs[j].attempts \in Nat,
         \/ jobs'[j].status = "completed" /\ jobs'[j].attempts = jobs[j].attempts
         \/ jobs'[j].attempts = jobs[j].attempts + 1
  PROVE  FreshOK(j)'
<1>1. task[t].step # "free" /\ "release" \in TaskSteps
  BY DEF Live, TaskSteps
<1>2. /\ task'[t].step = "release"
      /\ \A u \in Tasks \ {t} : task'[u] = task[u]
  BY <1>1, Gone
<1>3. \A u \in Tasks : task'[u].job = j => ~(Live(u)')
  BY <1>2 DEF FreshOK, Live
<1>4. \A r \in Runners : ~InQueue(r, j)
  BY DEF FreshOK
<1>5. \A r \in Runners : Shrinks(r)
  BY DEF Shrinks
<1>6. /\ history'.starts[j] <= jobs'[j].attempts + 1
      /\ jobs'[j].status \in {"none", "pending", "retrying"} =>
           history'.starts[j] <= jobs'[j].attempts
  BY DEF FreshOK
<1> QED
  BY <1>3, <1>4, <1>5, <1>6, LooseJob

\* Complete and Fail write the row of the goroutine's job.
LEMMA MarkKeepsTrace ==
  ASSUME QueueInv, NEW t \in Tasks, Live(t), Go(t, "release"), UNCHANGED cycle,
         NEW j, j = task[t].job, NEW row, Write([jobs EXCEPT ![j] = row]),
         \/ row.status = "completed" /\ row.attempts = jobs[j].attempts
         \/ row.attempts = jobs[j].attempts + 1
  PROVE  TraceOK'
<1> DEFINE table == [jobs EXCEPT ![j] = row]
<1>1. /\ BooksTyped /\ task[t].step # "free" /\ j \in Jobs
      /\ "release" \in TaskSteps /\ history \in History
  BY TaskIsTyped DEF QueueInv, BooksOK, TraceOK, Live, TaskSteps
<1>2. /\ history' \in History /\ jobs' = table
      /\ history'.lapsed = history.lapsed \cup LapsedIn(table)
      /\ \A i \in Jobs \ history'.lapsed : history'.starts[i] = history.starts[i]
  BY <1>1, WriteIsNoted
<1>3. jobs'[j] = row /\ \A i \in Jobs \ {j} : table[i] = jobs[i]
  BY <1>1, <1>2 DEF QueueInv, TableOK
<1>4. LivesOn
  BY <1>1, GoneLivesOn
<1>5. \A r \in Runners : Shrinks(r)
  BY DEF Shrinks
<1>6. ASSUME j \notin history'.lapsed
      PROVE  FreshOK(j)'
  <2>1. FreshOK(j) /\ history'.starts[j] = history.starts[j]
        /\ history.starts[j] \in Nat /\ jobs[j].attempts \in Nat
    BY <1>1, <1>2, <1>6, TableAttempts DEF QueueInv, TraceOK, History
  <2> QED
    BY <1>1, <1>3, <2>1, MarkedFresh
<1> HIDE DEF table
<1> QED
  BY <1>1, <1>3, <1>4, <1>5, <1>6, WriteKeepsTrace DEF QueueInv, table

LEMMA TasksKeepTrace ==
  ASSUME QueueInv, NEW t \in Tasks, TaskStep(t) \/ GiveUp(t) \/ LoseMark(t)
  PROVE  TraceOK'
<1>1. BooksTyped /\ TableOK /\ TraceOK /\ history \in History
  BY DEF QueueInv, BooksOK, TraceOK
<1>2. ASSUME UNCHANGED cycle
      PROVE  \A r \in Runners : Shrinks(r)
  BY <1>2 DEF Shrinks
<1>3. ASSUME NEW outcome \in {"ok", "error", "canceled"}, Answers(t, outcome)
      PROVE  TraceOK'
  <2>1. /\ task[t].step = "handle" /\ Go(t, After(outcome))
        /\ After(outcome) \in TaskSteps /\ UNCHANGED <<jobs, cycle>>
    BY <1>3 DEF Answers, After, TaskSteps
  <2>2. LivesOn
    BY <1>1, <2>1, GoneLivesOn DEF Live
  <2>3. history' \in History /\ history'.lapsed = history.lapsed
        /\ history'.starts = history.starts
    <3>1. task[t].job \in Jobs
      BY <1>1, <2>1, TaskIsTyped
    <3>2. {task[t].job} \cup history.handled \in SUBSET Jobs
      BY <1>1, <3>1 DEF History
    <3> QED
      BY <1>1, <1>3, <3>2 DEF Answers, History
  <2>4. LapsedIn(jobs)' = LapsedIn(jobs)
    BY <2>1 DEF LapsedIn
  <2>5. \A j \in Jobs \ history'.lapsed : FreshOK(j)'
    BY <1>1, <1>2, <2>1, <2>2, <2>3, FreshKept, NobodyNewStarts DEF TraceOK
  <2> QED
    BY <1>1, <2>3, <2>4, <2>5 DEF TraceOK
<1>4. ASSUME UNCHANGED <<jobs, history, cycle>>, task[t].step # "free",
             NEW step \in {"release", "end"}, Go(t, step)
      PROVE  TraceOK'
  BY <1>1, <1>2, <1>4, GoneLivesOn, QuietTrace DEF TaskSteps
<1>5. CASE Complete(t)
  <2>1. Live(t) /\ Go(t, "release") /\ UNCHANGED cycle /\ task[t].step # "free"
    BY <1>5 DEF Complete, Live
  <2>2. CASE ~Owns(t)
    BY <1>4, <1>5, <2>1, <2>2 DEF Complete
  <2>3. CASE Owns(t)
    <3>1. PICK j \in Jobs : j = task[t].job
      BY <1>1, <2>1, TaskIsTyped
    <3>2. jobs[j] \in Row
      BY <1>1, <2>3, <3>1 DEF Owns, TableOK, NoJob
    <3> DEFINE row == Reassigned(jobs[j], "completed", None, 0)
    <3>3. row.status = "completed" /\ row.attempts = jobs[j].attempts
      BY <3>2, ReassignedRow DEF RowRecord
    <3>4. Write([jobs EXCEPT ![j] = row])
      BY <1>1, <1>5, <2>3, <3>1 DEF Complete, TableOK, Reassigned
    <3> HIDE DEF row
    <3> QED
      BY <2>1, <3>1, <3>3, <3>4, MarkKeepsTrace
  <2> QED
    BY <2>2, <2>3
<1>6. CASE Fail(t)
  <2>1. Live(t) /\ Go(t, "release") /\ UNCHANGED cycle /\ task[t].step # "free"
    BY <1>6 DEF Fail, Live
  <2>2. CASE UNCHANGED <<jobs, history>>
    BY <1>4, <2>1, <2>2
  <2>3. ASSUME NEW late \in 0 .. MaxAge,
               Write([jobs EXCEPT ![task[t].job] = FailedRow(jobs[task[t].job], late)])
        PROVE  TraceOK'
    <3>1. PICK j \in Jobs : j = task[t].job
      BY <1>1, <2>1, TaskIsTyped
    <3>2. FailedRow(jobs[j], late).attempts = jobs[j].attempts + 1
      BY DEF FailedRow
    <3> QED
      BY <2>1, <2>3, <3>1, <3>2, MarkKeepsTrace
  <2> QED
    BY <1>6, <2>2, <2>3, FailWritesFailedRow
<1>7. CASE LoseMark(t) \/ Release(t)
  BY <1>4, <1>7 DEF LoseMark, Release
<1>8. CASE End(t)
  <2>1. LivesOn
    BY <1>1, <1>8 DEF End, LivesOn, Live, Free, BooksTyped
  <2> QED
    BY <1>1, <1>2, <1>8, <2>1, QuietTrace DEF End
<1> QED
  BY <1>3, <1>5, <1>6, <1>7, <1>8 DEF TaskStep, Handle, GiveUp

LEMMA TickKeepsTrace ==
  ASSUME QueueInv, Tick
  PROVE  TraceOK'
<1> DEFINE table == [j \in Jobs |-> Aged(jobs[j])]
<1>1. Write(table) /\ UNCHANGED task
  BY TickAges DEF Tick
<1>2. \A j \in Jobs : /\ table[j].status = jobs[j].status
                      /\ table[j].attempts = jobs[j].attempts
  BY AgedRowIsOK DEF QueueInv, TableOK, Aged
<1>3. ASSUME NEW r \in Runners
      PROVE  cycle'[r].queue = cycle[r].queue
  <2>1. cycle[r] \in Cycle
    BY DEF QueueInv, BooksOK, BooksTyped
  <2>2. \A age : [cycle[r] EXCEPT !.age = age].queue = cycle[r].queue
    BY <2>1 DEF Cycle
  <2> QED
    BY <2>2 DEF Tick
<1>4. (\A r \in Runners : Shrinks(r)) /\ LivesOn
  BY <1>1, <1>3 DEF Shrinks, LivesOn, Live
<1> HIDE DEF table
<1> QED
  BY <1>1, <1>2, <1>4, WriteKeepsTrace DEF QueueInv, BooksOK

-----------------------------------------------------------------------------
(* The invariant.                                                          *)

LEMMA InitOK == Init => QueueInv
<1> SUFFICES ASSUME Init
             PROVE  QueueInv
  OBVIOUS
<1>1. TableOK
  BY NoJobIsNoRow DEF Init, TableOK
<1>2. BooksTyped
  BY IdleIsACycle DEF Init, BooksTyped
<1>3. Free.runner \notin Runners /\ Free.step = "free"
  BY ConstantsAssumption DEF Free
<1>4. ASSUME NEW r \in Runners
      PROVE  RunnerOK(r)
  <2>1. TasksOf(r) = {} /\ Holding(r) = {}
    BY <1>3 DEF Init, TasksOf, Holding
  <2>2. Awaited(r) = {} /\ cycle[r].step # "slot"
    BY IdleIsACycle DEF Init, Awaited
  <2> QED
    BY <2>1, <2>2, FS_EmptySet, ConstantsAssumption DEF Init, RunnerOK
<1>5. history \in History
  BY DEF Init, History
<1>6. ConsentOK
  BY <1>3, <1>5 DEF Init, ConsentOK, CompletedWasHandled, NoJob
<1>7. LapsedIn(jobs) = {}
  BY DEF Init, LapsedIn, NoJob
<1>8. ASSUME NEW j \in Jobs
      PROVE  FreshOK(j)
  <2>1. history.starts[j] = 0 /\ jobs[j] = NoJob
    BY DEF Init
  <2>2. \A r \in Runners : ~InQueue(r, j)
    BY DEF Init, Idle, InQueue
  <2>3. \A t \in Tasks : ~Live(t)
    BY <1>3 DEF Init, Live
  <2>4. OnePlace(j)
    BY <2>2 DEF InQueue, OnePlace
  <2> QED
    BY <2>1, <2>2, <2>3, <2>4 DEF FreshOK, NoJob
<1> QED
  BY <1>1, <1>2, <1>4, <1>5, <1>6, <1>7, <1>8 DEF QueueInv, BooksOK, TraceOK

LEMMA NextKeepsInv == QueueInv /\ [Next]_vars => QueueInv'
<1> SUFFICES ASSUME QueueInv, [Next]_vars
             PROVE  QueueInv'
  OBVIOUS
<1>1. TableOK /\ BooksOK /\ BooksTyped /\ ConsentOK /\ TraceOK /\ history \in History
  BY DEF QueueInv, BooksOK, ConsentOK
<1>2. ASSUME NEW j \in Jobs, Enqueue(j) \/ Cancel(j)
      PROVE  QueueInv'
  <2>1. BooksOK'
    BY <1>1, <1>2, QuietBooks DEF Enqueue, Cancel
  <2> QED
    BY <1>1, <1>2, <2>1, EnqueueKeepsTable, CancelKeepsTable, CallersKeepConsent,
       CallersKeepTrace DEF QueueInv
<1>3. ASSUME NEW r \in Runners, RunnerStep(r) \/ AbandonCycle(r) \/ Crash(r)
      PROVE  QueueInv'
  <2>1. TableOK'
    <3>1. CASE UNCHANGED jobs
      BY <1>1, <3>1 DEF TableOK, RowOK
    <3> QED
      BY <1>1, <1>3, <3>1, RequeueKeepsTable, ClaimKeepsTable
      DEF RunnerStep, StartCycle, Dispatch, Spawn, AbandonCycle, Crash
  <2>2. BooksOK'
    BY <1>1, <1>3, StartCycleKeepsBooks, AbandonKeepsBooks, RequeueKeepsBooks,
       ClaimKeepsBooks, DispatchKeepsBooks, SpawnKeepsBooks, CrashKeepsBooks
    DEF RunnerStep
  <2>3. ConsentOK'
    BY <1>1, <1>3, RunnersKeepConsent
  <2>4. TraceOK'
    BY <1>3, RequeueKeepsTrace, ClaimKeepsTrace, CyclesKeepTrace, SpawnKeepsTrace,
       CrashKeepsTrace
    DEF RunnerStep
  <2> QED
    BY <2>1, <2>2, <2>3, <2>4 DEF QueueInv
<1>4. ASSUME NEW t \in Tasks, TaskStep(t) \/ GiveUp(t) \/ LoseMark(t)
      PROVE  QueueInv'
  <2>1. TableOK'
    <3>1. CASE UNCHANGED jobs
      BY <1>1, <3>1 DEF TableOK, RowOK
    <3> QED
      BY <1>1, <1>4, <3>1, CompleteKeepsTable, FailKeepsTable
      DEF TaskStep, Handle, GiveUp, Answers, LoseMark, Release, End
  <2>2. BooksOK'
    BY <1>1, <1>4, AnswersKeepsBooks, MarkKeepsBooks, ReleaseKeepsBooks, EndKeepsBooks
    DEF TaskStep, Handle, GiveUp
  <2> QED
    BY <1>1, <1>4, <2>1, <2>2, TasksKeepConsent, TasksKeepTrace DEF QueueInv
<1>5. CASE Tick
  BY <1>1, <1>5, TickKeepsTable, TickKeepsBooks, TickKeepsConsent, TickKeepsTrace
  DEF QueueInv
<1>6. CASE UNCHANGED vars
  <2>1. TableOK' /\ ConsentOK' /\ BooksOK'
    BY <1>1, <1>6, QuietBooks, ConsentKept DEF vars, TableOK, RowOK, ConsentOK
  <2>2. TraceOK'
    BY <1>1, <1>6, NothingMoved, QuietTrace DEF vars
  <2> QED
    BY <2>1, <2>2 DEF QueueInv
<1> QED
  BY <1>2, <1>3, <1>4, <1>5, <1>6 DEF Next

LEMMA InvariantHolds == Spec => []QueueInv
BY InitOK, NextKeepsInv, PTL DEF Spec

(***************************************************************************)
(* The state keeps its shape: only running jobs are leased, a runner has   *)
(* as many tokens out as goroutines that hold one, never more than         *)
(* Concurrency, and it processes exactly the jobs of its goroutines and    *)
(* the one that waits for a slot.  No slot and no job leaks, whichever     *)
(* faults, cancellations and crashes the goroutines meet.                  *)
(***************************************************************************)
THEOREM TypeCorrect == Spec => []TypeOK
<1>1. QueueInv => TypeOK
  <2> SUFFICES ASSUME QueueInv
               PROVE  TypeOK
    OBVIOUS
  <2>1. /\ jobs \in [Jobs -> Row \cup {NoJob}]
        /\ \A j \in Jobs : jobs[j].owner # None <=> jobs[j].status = "running"
    BY DEF QueueInv, TableOK, RowOK
  <2>2. BooksTyped /\ \A r \in Runners : cycle[r] \in Cycle
    BY DEF QueueInv, BooksOK, BooksTyped
  <2>3. SlotsAreHeld
    BY DEF QueueInv, BooksOK, RunnerOK, SlotsAreHeld, TasksOf, Awaited
  <2> QED
    BY <2>1, <2>2, <2>3 DEF TypeOK, BooksTyped, Cycle, CycleSteps, Task, TaskSteps
<1> QED
  BY <1>1, InvariantHolds, PTL

(***************************************************************************)
(* A runner never has two goroutines on one job, though it may claim again *)
(* a job whose lease its own goroutine has outlived: begin and end keep    *)
(* them apart.                                                             *)
(***************************************************************************)
THEOREM OneHandler == Spec => []OneHandlerPerJob
<1>1. QueueInv => OneHandlerPerJob
  <2> SUFFICES ASSUME QueueInv, NEW t \in Tasks, NEW u \in Tasks,
                      task[t] # Free, task[t].runner = task[u].runner,
                      task[t].job = task[u].job
               PROVE  t = u
    BY DEF OneHandlerPerJob
  <2>1. task[t].runner \in Runners
    BY DEF QueueInv, BooksOK, BooksTyped, Task
  <2> QED
    BY <2>1 DEF QueueInv, BooksOK, RunnerOK, TasksOf
<1> QED
  BY <1>1, InvariantHolds, PTL

(***************************************************************************)
(* As long as its lease has never run out, a job is handed to a handler at *)
(* most once more than its failures count: redelivery is paid for, by a    *)
(* recorded failure or by a lapsed lease, whatever crashes and faults do.  *)
(***************************************************************************)
THEOREM RedeliveryIsPaidFor == Spec => []HandledOncePerAttempt
<1>1. QueueInv => HandledOncePerAttempt
  BY DEF QueueInv, TraceOK, FreshOK, HandledOncePerAttempt
<1> QED
  BY <1>1, InvariantHolds, PTL

(***************************************************************************)
(* A job is completed only if a handler returned for it without error.     *)
(***************************************************************************)
THEOREM OnlyHandledIsCompleted == Spec => []CompletedWasHandled
<1>1. QueueInv => CompletedWasHandled
  BY DEF QueueInv, ConsentOK
<1> QED
  BY <1>1, InvariantHolds, PTL

-----------------------------------------------------------------------------
(* Leases.  A row moves because its lease is over, because it was waiting, *)
(* or because a goroutine of the owner's marks it.                         *)

\* What a sweep, or a claim, takes from others is over.
LEMMA SweptIsOver ==
  ASSUME QueueInv, NEW r \in Runners, Requeue(r) \/ Claim(r),
         NEW j \in Jobs, jobs[j].status = "running", jobs'[j] # jobs[j]
  PROVE  j \in LapsedIn(jobs)
<1>1. cycle[r].age \in Nat /\ jobs[j] \in Row /\ jobs[j].owner # None
  BY ConstantsAssumption
  DEF QueueInv, BooksOK, BooksTyped, Cycle, TableOK, RowOK, NoJob
<1>2. jobs[j].until <= -cycle[r].age
  <2>1. CASE Requeue(r)
    BY <2>1 DEF Requeue, Write, LeaseOver
  <2>2. CASE Claim(r)
    <3>1. PICK queue \in Seq(Jobs) :
            /\ \A n \in DOMAIN queue : queue[n] \in Claimable(-cycle[r].age)
            /\ Write([i \in Jobs |->
                 IF \E n \in DOMAIN queue : queue[n] = i
                 THEN Reassigned(jobs[i], "running", Owner[r], -cycle[r].age + Lease)
                 ELSE jobs[i]])
      BY <2>2, ClaimedQueue DEF QueueInv
    <3>2. \E n \in DOMAIN queue : queue[n] = j
      BY <3>1 DEF Write
    <3>3. j \in Claimable(-cycle[r].age)
      BY <3>1, <3>2
    <3> QED
      BY <1>1, <3>3 DEF Claimable, LeaseOver
  <2> QED
    BY <2>1, <2>2
<1> QED
  BY <1>1, <1>2, FieldsOfRow DEF LapsedIn

RespectsLease(r, j) ==
  /\ Acts(r)
  /\ jobs[j].status = "running"
  /\ jobs[j].owner # Owner[r]
  /\ jobs[j].until > 0
  => jobs'[j] = jobs[j]

LEMMA StepRespectsLease ==
  ASSUME QueueInv, [Next]_vars, NEW r \in Runners, NEW j \in Jobs
  PROVE  RespectsLease(r, j)
<1> SUFFICES ASSUME Acts(r), jobs[j].status = "running",
                    jobs[j].owner # Owner[r], jobs[j].until > 0, jobs'[j] # jobs[j]
             PROVE  FALSE
  BY DEF RespectsLease
<1>1. /\ BooksTyped /\ TableOK /\ jobs[j] \in Row /\ jobs[j].until \in Int
      /\ jobs[j].owner # None
  BY FieldsOfRow DEF QueueInv, BooksOK, TableOK, RowOK, NoJob
<1>2. ASSUME NEW i \in Jobs, Enqueue(i) \/ Cancel(i)
      PROVE  FALSE
  <2>1. jobs[i].status # "running"
    <3>1. Enqueue(i) => jobs[i] = NoJob
      BY DEF Enqueue
    <3>2. Cancel(i) => jobs[i].status \in {"pending", "retrying"}
      BY DEF Cancel, Waiting
    <3> QED
      BY <1>2, <3>1, <3>2 DEF NoJob
  <2>2. \E row : jobs' = [jobs EXCEPT ![i] = row]
    BY <1>2 DEF Enqueue, Cancel, Write
  <2> QED
    BY <1>1, <2>1, <2>2 DEF TableOK
<1>3. ASSUME NEW s \in Runners, Requeue(s) \/ Claim(s)
      PROVE  FALSE
  BY <1>1, <1>3, SweptIsOver DEF LapsedIn
<1>4. ASSUME NEW t \in Tasks, Complete(t) \/ Fail(t)
      PROVE  FALSE
  <2>1. /\ task[t].step \in {"complete", "fail"} /\ Go(t, "release")
        /\ UNCHANGED <<cycle, processing>>
    BY <1>4 DEF Complete, Fail
  <2>2. \A u \in Tasks \ {t} : task'[u] = task[u]
    BY <2>1 DEF Go, BooksTyped
  <2>3. task[t].runner = r
    BY <2>1, <2>2 DEF Acts
  <2>4. Owns(t) /\ \E row : jobs' = [jobs EXCEPT ![task[t].job] = row]
    <3>1. CASE Complete(t)
      <4>1. task[t].job \in Jobs
        BY <1>1, <2>1, TaskIsTyped
      <4>2. Owns(t) /\ jobs' = [jobs EXCEPT
               ![task[t].job] = Reassigned(jobs[task[t].job], "completed", None, 0)]
        BY <1>1, <3>1, <4>1 DEF Complete, Write, TableOK, Reassigned
      <4> QED
        BY <4>2
    <3>2. CASE Fail(t)
      <4>1. Owns(t) /\ \E late \in 0 .. MaxAge :
              jobs' = [jobs EXCEPT
                ![task[t].job] = FailedRow(jobs[task[t].job], late)]
        BY <3>2, FailWritesFailedRow DEF Write
      <4> QED
        BY <4>1
    <3> QED
      BY <1>4, <3>1, <3>2
  <2>5. j = task[t].job
    BY <1>1, <2>4 DEF TableOK
  <2> QED
    BY <2>3, <2>4, <2>5 DEF Owns
<1>5. CASE Tick
  <2>1. UNCHANGED <<processing, task>>
    BY <1>5 DEF Tick
  <2>2. cycle'[r].step = cycle[r].step
    <3>1. cycle[r] \in Cycle
      BY <1>1 DEF BooksTyped
    <3>2. \A age : [cycle[r] EXCEPT !.age = age].step = cycle[r].step
      BY <3>1 DEF Cycle
    <3> QED
      BY <1>5, <3>2 DEF Tick
  <2> QED
    BY <2>1, <2>2 DEF Acts
<1>6. jobs' # jobs
  OBVIOUS
<1> QED
  BY <1>2, <1>3, <1>4, <1>5, <1>6
  DEF Next, vars, RunnerStep, TaskStep, StartCycle, Dispatch, Spawn, AbandonCycle,
      Crash, Handle, GiveUp, Answers, LoseMark, Release, End

(***************************************************************************)
(* As long as a lease lasts, no step of another runner, in its cycle or in *)
(* a goroutine it started earlier, changes the job: a handler that was     *)
(* overtaken can neither complete nor fail what is now another's.          *)
(***************************************************************************)
THEOREM LeasesAreRespected == Spec => LeaseRespected
<1>1. QueueInv /\ [Next]_vars =>
        [\A r \in Runners, j \in Jobs :
           /\ Acts(r)
           /\ jobs[j].status = "running"
           /\ jobs[j].owner # Owner[r]
           /\ jobs[j].until > 0
           => jobs'[j] = jobs[j]]_vars
  BY StepRespectsLease DEF RespectsLease
<1> QED
  BY <1>1, InvariantHolds, PTL DEF Spec, LeaseRespected

-----------------------------------------------------------------------------
(* The queue implements the board: what the table shows of a job, and the  *)
(* steps of the board the writes of the table are.                         *)

ShownJob(row) ==
  [status |-> row.status, attempts |-> row.attempts, max |-> row.max,
   holder |-> row.owner]

ShownBoard == [j \in Jobs |-> ShownJob(jobs[j])]

LEMMA ShownIsBoard ==
  /\ ShownBoard = [j \in Jobs |->
       [status |-> jobs[j].status, attempts |-> jobs[j].attempts,
        max |-> jobs[j].max, holder |-> jobs[j].owner]]
  /\ ShownJob(NoJob) = Board!Unposted
BY DEF ShownBoard, ShownJob, Board!Unposted, NoJob

BoardRecord(status, attempts, max, holder) ==
  [status |-> status, attempts |-> attempts, max |-> max, holder |-> holder]

Posted(entry, max) == [entry EXCEPT !.status = "pending", !.max = max]

Handed(entry, status, holder) ==
  [entry EXCEPT !.status = status, !.holder = holder]

Charged(entry, status, attempts, holder) ==
  [entry EXCEPT !.status = status, !.attempts = attempts, !.holder = holder]

LEMMA EntriesOverwritten ==
  ASSUME NEW status, NEW attempts, NEW max, NEW holder,
         NEW status2, NEW attempts2, NEW max2, NEW holder2
  PROVE  LET entry == BoardRecord(status, attempts, max, holder)
         IN  /\ Posted(entry, max2) = BoardRecord("pending", attempts, max2, holder)
             /\ Handed(entry, status2, holder2) =
                  BoardRecord(status2, attempts, max, holder2)
             /\ Charged(entry, status2, attempts2, holder2) =
                  BoardRecord(status2, attempts2, max, holder2)
<1> DEFINE entry == BoardRecord(status, attempts, max, holder)
           pending == [entry EXCEPT !.status = "pending"]
           moved == [entry EXCEPT !.status = status2]
           charged == [moved EXCEPT !.attempts = attempts2]
<1>1. /\ pending = BoardRecord("pending", attempts, max, holder)
      /\ moved = BoardRecord(status2, attempts, max, holder)
  BY DEF BoardRecord
<1>2. /\ Posted(entry, max2) = [pending EXCEPT !.max = max2]
      /\ Handed(entry, status2, holder2) = [moved EXCEPT !.holder = holder2]
      /\ Charged(entry, status2, attempts2, holder2) = [charged EXCEPT !.holder = holder2]
  BY DEF Posted, Handed, Charged
<1> HIDE DEF pending, moved
<1>3. charged = BoardRecord(status2, attempts2, max, holder)
  BY <1>1 DEF BoardRecord
<1> HIDE DEF charged
<1>4. /\ [pending EXCEPT !.max = max2] = BoardRecord("pending", attempts, max2, holder)
      /\ [moved EXCEPT !.holder = holder2] = BoardRecord(status2, attempts, max, holder2)
      /\ [charged EXCEPT !.holder = holder2] =
           BoardRecord(status2, attempts2, max, holder2)
  BY <1>1, <1>3 DEF BoardRecord
<1> QED
  BY <1>2, <1>4

LEMMA ShownIsRecord ==
  ASSUME NEW row
  PROVE  ShownJob(row) = BoardRecord(row.status, row.attempts, row.max, row.owner)
BY DEF ShownJob, BoardRecord

LEMMA ShownOverwritten ==
  ASSUME NEW row, NEW status, NEW attempts, NEW holder
  PROVE  /\ Handed(ShownJob(row), status, holder) =
              BoardRecord(status, row.attempts, row.max, holder)
         /\ Charged(ShownJob(row), status, attempts, holder) =
              BoardRecord(status, attempts, row.max, holder)
<1>1. ShownJob(row) = BoardRecord(row.status, row.attempts, row.max, row.owner)
  BY ShownIsRecord
<1> QED
  BY <1>1, EntriesOverwritten

LEMMA ShownHanded ==
  ASSUME NEW row, NEW status, NEW next, NEW owner, NEW until
  PROVE  ShownJob(RowRecord(status, row.attempts, row.max, next, owner, until)) =
           Handed(ShownJob(row), status, owner)
<1>1. ShownJob(RowRecord(status, row.attempts, row.max, next, owner, until)) =
        BoardRecord(status, row.attempts, row.max, owner)
  BY DEF ShownJob, RowRecord, BoardRecord
<1> QED
  BY <1>1, ShownOverwritten

\* A step of the board for each write of one row.
LEMMA RowWritten ==
  ASSUME TableOK, NEW j \in Jobs, NEW row, jobs' = [jobs EXCEPT ![j] = row],
         row.status # "running"
  PROVE  /\ ShownBoard' = [ShownBoard EXCEPT ![j] = ShownJob(row)]
         /\ LapsedIn(jobs)' = LapsedIn(jobs) \ {j}
<1>1. jobs'[j] = row /\ \A i \in Jobs \ {j} : jobs'[i] = jobs[i]
  BY DEF TableOK
<1>2. ShownBoard' = [ShownBoard EXCEPT ![j] = ShownJob(row)]
  <2>1. ShownBoard' = [i \in Jobs |-> ShownJob(jobs'[i])]
    BY DEF ShownBoard
  <2>2. ShownBoard' = [i \in Jobs |-> IF i = j THEN ShownJob(row) ELSE ShownJob(jobs[i])]
    BY <1>1, <2>1
  <2> QED
    BY <2>2 DEF ShownBoard
<1>3. LapsedIn(jobs)' = LapsedIn(jobs) \ {j}
  BY <1>1 DEF LapsedIn
<1> QED
  BY <1>2, <1>3

LEMMA EnqueuePosts ==
  ASSUME QueueInv, NEW j \in Jobs, Enqueue(j)
  PROVE  \E max \in Limits : Board!Post(j, max)
<1>1. PICK max \in Limits, delay \in Delays :
        Write([jobs EXCEPT ![j] = Enqueued(max, delay)])
  BY DEF Enqueue, Enqueued
<1>2. TableOK /\ jobs[j] = NoJob
  BY DEF Enqueue, QueueInv
<1> DEFINE row == Enqueued(max, delay)
<1>3. row = RowRecord("pending", 0, max, delay, None, 0)
  BY EnqueuedRow
<1>4. jobs' = [jobs EXCEPT ![j] = row]
  BY <1>1 DEF Write
<1> HIDE DEF row
<1>5. ShownJob(row) = Posted(ShownJob(NoJob), max)
  <2>1. ShownJob(row) = BoardRecord("pending", 0, max, None)
    BY <1>3, ShownIsRecord DEF RowRecord
  <2>2. ShownJob(NoJob) = BoardRecord("none", 0, 0, None)
    BY ShownIsRecord DEF NoJob
  <2> QED
    BY <2>1, <2>2, EntriesOverwritten
<1>6. row.status # "running"
  BY <1>3 DEF RowRecord
<1>7. /\ ShownBoard' = [ShownBoard EXCEPT ![j] = ShownJob(row)]
      /\ LapsedIn(jobs)' = LapsedIn(jobs) \ {j}
  BY <1>2, <1>4, <1>6, RowWritten
<1>8. j \notin LapsedIn(jobs)
  BY <1>2 DEF LapsedIn, NoJob
<1>9. ShownBoard[j] = ShownJob(NoJob)
  BY <1>2 DEF ShownBoard
<1>10. ShownBoard' = [ShownBoard EXCEPT ![j].status = "pending", ![j].max = max]
  BY <1>5, <1>7, <1>9 DEF Posted
<1>11. LapsedIn(jobs)' = LapsedIn(jobs)
  BY <1>7, <1>8
<1>12. Board!Post(j, max)
  BY <1>9, <1>10, <1>11, ShownIsBoard DEF Board!Post, ShownBoard, ShownJob
<1> QED
  BY <1>12

LEMMA CancelWithdraws ==
  ASSUME QueueInv, NEW j \in Jobs, Cancel(j)
  PROVE  Board!Withdraw(j)
<1> DEFINE row == [jobs[j] EXCEPT !.status = "canceled"]
<1>1. /\ TableOK /\ jobs[j].status \in {"pending", "retrying"}
      /\ jobs' = [jobs EXCEPT ![j] = row]
  BY DEF Cancel, Waiting, QueueInv, Write
<1>2. jobs[j] \in Row
  BY <1>1 DEF TableOK, NoJob
<1>3. row.status = "canceled" /\ ShownJob(row) = [ShownJob(jobs[j]) EXCEPT !.status = "canceled"]
  BY <1>2 DEF ShownJob, Row
<1> HIDE DEF row
<1>4. /\ ShownBoard' = [ShownBoard EXCEPT ![j] = ShownJob(row)]
      /\ LapsedIn(jobs)' = LapsedIn(jobs) \ {j}
  BY <1>1, <1>3, RowWritten
<1>5. LapsedIn(jobs)' = LapsedIn(jobs)
  BY <1>1, <1>4 DEF LapsedIn
<1>6. ShownBoard' = [ShownBoard EXCEPT ![j].status = "canceled"]
  BY <1>3, <1>4 DEF ShownBoard
<1>7. ShownBoard[j].status \in {"pending", "retrying"}
  BY <1>1 DEF ShownBoard, ShownJob
<1> QED
  BY <1>5, <1>6, <1>7 DEF Board!Withdraw, Board!Waiting, ShownBoard, ShownJob

LEMMA RequeueReturns ==
  ASSUME QueueInv, NEW r \in Runners, Requeue(r)
  PROVE  \E back \in SUBSET Jobs : Board!Return(back)
<1> DEFINE at == -cycle[r].age
<1>0. PICK back \in SUBSET Jobs :
        back = {j \in Jobs : jobs[j].status = "running" /\ LeaseOver(jobs[j], at)}
  OBVIOUS
<1>1. /\ TableOK /\ cycle[r].age \in Nat
      /\ jobs' = [j \in Jobs |->
           IF j \in back THEN Returned(jobs[j], "retrying", at, None, 0) ELSE jobs[j]]
  <2>1. TableOK /\ cycle[r].age \in Nat
    BY ConstantsAssumption DEF QueueInv, BooksOK, BooksTyped, Cycle
  <2> QED
    BY <1>0, <2>1 DEF Requeue, Write, Returned
<1>2. ASSUME NEW j \in back
      PROVE  /\ jobs'[j].status = "retrying"
             /\ ShownJob(jobs'[j]) = Handed(ShownJob(jobs[j]), "retrying", None)
             /\ j \in LapsedIn(jobs)
  <2>1. jobs[j] \in Row /\ jobs[j].until <= -cycle[r].age
    BY <1>0, <1>1 DEF TableOK, NoJob, LeaseOver
  <2>2. jobs'[j] =
          RowRecord("retrying", jobs[j].attempts, jobs[j].max, at, None, 0)
    BY <1>1, <2>1, ReturnedRow
  <2>3. ShownJob(jobs'[j]) = Handed(ShownJob(jobs[j]), "retrying", None)
    BY <2>2, ShownHanded
  <2> QED
    BY <1>0, <1>1, <2>1, <2>2, <2>3, FieldsOfRow DEF RowRecord, LapsedIn
<1>3. \A j \in Jobs \ back : jobs'[j] = jobs[j]
  BY <1>1
<1>4. ShownBoard' = [j \in Jobs |->
        IF j \in back
        THEN Handed(ShownBoard[j], "retrying", None)
        ELSE ShownBoard[j]]
  BY <1>2, <1>3 DEF ShownBoard
<1>5. LapsedIn(jobs)' = LapsedIn(jobs) \ back
  BY <1>2, <1>3 DEF LapsedIn
<1>6. Board!Return(back)
  BY <1>2, <1>4, <1>5 DEF Board!Return, ShownBoard, ShownJob, Handed
<1> QED
  BY <1>6

\* The lease of a claim is over at once, or it is not, for all it takes.
LEMMA ClaimTakes ==
  ASSUME QueueInv, NEW r \in Runners, Claim(r)
  PROVE  \E taken \in SUBSET Jobs : Board!Take(taken, Owner[r])
<1> DEFINE at == -cycle[r].age
<1>1. PICK queue \in Seq(Jobs) :
        /\ \A n \in DOMAIN queue : queue[n] \in Claimable(at)
        /\ Write([j \in Jobs |->
             IF \E n \in DOMAIN queue : queue[n] = j
             THEN Reassigned(jobs[j], "running", Owner[r], at + Lease)
             ELSE jobs[j]])
  BY ClaimedQueue DEF QueueInv
<1> DEFINE taken == {queue[n] : n \in DOMAIN queue}
<1>2. TableOK /\ cycle[r].age \in Nat /\ taken \subseteq Claimable(at)
      /\ Claimable(at) \subseteq Jobs
  BY <1>1, ConstantsAssumption
  DEF QueueInv, BooksOK, BooksTyped, Cycle, Claimable
<1>3. \A j \in Jobs :
        jobs'[j] = IF j \in taken
                   THEN Reassigned(jobs[j], "running", Owner[r], at + Lease)
                   ELSE jobs[j]
  BY <1>1 DEF Write
<1> HIDE DEF taken
<1>4. ASSUME NEW j \in taken
      PROVE  /\ jobs[j].status \in {"pending", "retrying"} \/ j \in LapsedIn(jobs)
             /\ jobs'[j].status = "running" /\ jobs'[j].until = at + Lease
             /\ ShownJob(jobs'[j]) = Handed(ShownJob(jobs[j]), "running", Owner[r])
  <2>1. /\ j \in Jobs /\ jobs[j].status \in {"pending", "retrying", "running"}
        /\ jobs[j].owner = None \/ jobs[j].until <= -cycle[r].age
    BY <1>2 DEF Claimable, LeaseOver
  <2>2. jobs[j] \in Row /\ (jobs[j].status = "running" => jobs[j].owner # None)
    BY <1>2, <2>1 DEF TableOK, RowOK, NoJob
  <2>3. jobs[j].status = "running" => jobs[j].until <= 0
    BY <1>2, <2>1, <2>2, FieldsOfRow
  <2>4. jobs'[j] = RowRecord("running", jobs[j].attempts, jobs[j].max, jobs[j].next,
                             Owner[r], at + Lease)
    BY <1>3, <2>1, <2>2, ReassignedRow
  <2>5. ShownJob(jobs'[j]) = Handed(ShownJob(jobs[j]), "running", Owner[r])
    <3>1. PICK row, owner, next, until :
            /\ row = jobs[j] /\ owner = Owner[r]
            /\ next = jobs[j].next /\ until = at + Lease
      OBVIOUS
    <3>2. jobs'[j] = RowRecord("running", row.attempts, row.max, next, owner, until)
      BY <2>4, <3>1
    <3>3. ShownJob(jobs'[j]) = BoardRecord("running", row.attempts, row.max, owner)
      BY <3>2 DEF ShownJob, RowRecord, BoardRecord
    <3>4. Handed(ShownJob(row), "running", owner) =
            BoardRecord("running", row.attempts, row.max, owner)
      BY ShownOverwritten
    <3> QED
      BY <3>1, <3>3, <3>4
  <2> QED
    BY <2>1, <2>3, <2>4, <2>5 DEF RowRecord, LapsedIn
<1>5. ShownBoard' = [j \in Jobs |->
        IF j \in taken
        THEN Handed(ShownBoard[j], "running", Owner[r])
        ELSE ShownBoard[j]]
  BY <1>3, <1>4 DEF ShownBoard
<1>6. LapsedIn(jobs)' \in {LapsedIn(jobs) \ taken, LapsedIn(jobs) \cup taken}
  <2>1. CASE at + Lease <= 0
    <3>1. LapsedIn(jobs)' = LapsedIn(jobs) \cup taken
      BY <1>2, <1>3, <1>4, <2>1 DEF LapsedIn
    <3> QED
      BY <3>1
  <2>2. CASE ~(at + Lease <= 0)
    <3>1. LapsedIn(jobs)' = LapsedIn(jobs) \ taken
      BY <1>2, <1>3, <1>4, <2>2 DEF LapsedIn
    <3> QED
      BY <3>1
  <2> QED
    BY <2>1, <2>2
<1>7. \A j \in taken :
        ShownBoard[j].status \in {"pending", "retrying"} \/ j \in LapsedIn(jobs)
  BY <1>2, <1>4 DEF ShownBoard, ShownJob
<1>8. Board!Take(taken, Owner[r])
  BY <1>5, <1>6, <1>7 DEF Board!Take, Board!Waiting, ShownBoard, ShownJob, Handed
<1> QED
  BY <1>2, <1>8

\* The row a goroutine owns is held by the worker of that name.
LEMMA MarkIsHeld ==
  ASSUME QueueInv, NEW t \in Tasks, task[t].step \in {"complete", "fail"}, Owns(t),
         NEW j, j = task[t].job
  PROVE  /\ j \in Jobs /\ jobs[j] \in Row /\ jobs[j].attempts < jobs[j].max
         /\ task[t].runner \in Runners
         /\ ShownBoard[j].status = "running"
         /\ ShownBoard[j].holder = Owner[task[t].runner]
<1>1. j \in Jobs /\ task[t].runner \in Runners
  BY TaskIsTyped DEF QueueInv, BooksOK
<1> QED
  BY <1>1 DEF Owns, QueueInv, TableOK, RowOK, NoJob, ShownBoard, ShownJob

LEMMA CompleteFinishes ==
  ASSUME QueueInv, NEW t \in Tasks, Complete(t), Owns(t), NEW j, j = task[t].job,
         NEW w, w = Owner[task[t].runner]
  PROVE  j \in Jobs /\ Board!Finish(j, w)
<1>1. /\ TableOK /\ j \in Jobs /\ jobs[j] \in Row
      /\ ShownBoard[j].status = "running"
      /\ ShownBoard[j].holder = w
  BY MarkIsHeld DEF Complete, QueueInv
<1> DEFINE row == Reassigned(jobs[j], "completed", None, 0)
<1>2. jobs' = [jobs EXCEPT ![j] = row]
  BY <1>1 DEF Complete, Write, TableOK, Reassigned
<1>3. row = RowRecord("completed", jobs[j].attempts, jobs[j].max, jobs[j].next, None, 0)
  BY <1>1, ReassignedRow
<1> HIDE DEF row
<1>4. /\ row.status = "completed"
      /\ ShownJob(row) = Handed(ShownJob(jobs[j]), "completed", None)
  BY <1>3, ShownHanded DEF RowRecord
<1>5. /\ ShownBoard' = [ShownBoard EXCEPT ![j] = ShownJob(row)]
      /\ LapsedIn(jobs)' = LapsedIn(jobs) \ {j}
  BY <1>1, <1>2, <1>4, RowWritten
<1>6. ShownBoard' =
        [ShownBoard EXCEPT ![j].status = "completed", ![j].holder = None]
  BY <1>1, <1>4, <1>5 DEF ShownBoard, Handed
<1> QED
  BY <1>1, <1>5, <1>6 DEF Board!Finish, Board!HeldBy, ShownBoard, ShownJob

LEMMA FailFails ==
  ASSUME QueueInv, NEW t \in Tasks, Fail(t), Owns(t), NEW j, j = task[t].job,
         NEW w, w = Owner[task[t].runner],
         NEW late, jobs' = [jobs EXCEPT ![j] = FailedRow(jobs[j], late)]
  PROVE  j \in Jobs /\ Board!Fail(j, w)
<1>1. /\ TableOK /\ j \in Jobs /\ jobs[j] \in Row /\ jobs[j].attempts < jobs[j].max
      /\ ShownBoard[j].status = "running"
      /\ ShownBoard[j].holder = w
  BY MarkIsHeld DEF Fail, QueueInv
<1> DEFINE row == FailedRow(jobs[j], late)
           status == IF jobs[j].attempts + 1 = jobs[j].max THEN "failed" ELSE "retrying"
<1>2. /\ row.status = status /\ row.attempts = jobs[j].attempts + 1
      /\ row.max = jobs[j].max /\ row.owner = None
  BY <1>1, FieldsOfRow DEF FailedRow, LastAttempt
<1>3. status # "running"
  OBVIOUS
<1> HIDE DEF row
<1>4. /\ ShownBoard' = [ShownBoard EXCEPT ![j] = ShownJob(row)]
      /\ LapsedIn(jobs)' = LapsedIn(jobs) \ {j}
  BY <1>1, <1>2, <1>3, RowWritten DEF row
<1>5. ShownBoard[j] = ShownJob(jobs[j])
  BY <1>1 DEF ShownBoard
<1> DEFINE attempts == jobs[j].attempts + 1
<1>6. ShownBoard[j].attempts = jobs[j].attempts /\ ShownBoard[j].max = jobs[j].max
  BY <1>5 DEF ShownJob
<1> HIDE DEF status, attempts
<1>7. ShownJob(row) = Charged(ShownJob(jobs[j]), status, attempts, None)
  BY <1>2, ShownIsRecord, ShownOverwritten DEF attempts
<1>8. ShownBoard' = [ShownBoard EXCEPT ![j].status = status,
                       ![j].attempts = attempts, ![j].holder = None]
  BY <1>4, <1>5, <1>7 DEF Charged
<1>9. Board!HeldBy(j, w)
  BY <1>1 DEF Board!HeldBy, ShownBoard, ShownJob
<1> QED
  BY <1>1, <1>4, <1>6, <1>8, <1>9
  DEF Board!Fail, ShownBoard, ShownJob, status, attempts

LEMMA TickLapses ==
  ASSUME QueueInv, Tick
  PROVE  \E over \in SUBSET Jobs : Board!Lapse(over)
<1>1. TableOK /\ \A j \in Jobs : jobs'[j] = Aged(jobs[j])
  BY TickAges DEF Write, QueueInv
<1>2. ASSUME NEW j \in Jobs
      PROVE  /\ ShownJob(jobs'[j]) = ShownJob(jobs[j])
             /\ jobs'[j].status = jobs[j].status
             /\ j \in LapsedIn(jobs) => j \in LapsedIn(jobs')
  <2>1. CASE jobs[j] = NoJob
    BY <1>1, <2>1 DEF Aged, LapsedIn, NoJob
  <2>2. CASE jobs[j] # NoJob
    <3>1. jobs[j] \in Row /\ RowOK(jobs[j])
      BY <1>1, <2>2 DEF TableOK
    <3>2. /\ jobs'[j] \in Row
          /\ jobs'[j].status = jobs[j].status /\ jobs'[j].attempts = jobs[j].attempts
          /\ jobs'[j].max = jobs[j].max /\ jobs'[j].owner = jobs[j].owner
          /\ jobs[j].owner # None => jobs'[j].until <= jobs[j].until
      BY <1>1, <3>1, AgedRowIsOK
    <3>3. jobs[j].until \in Int /\ jobs'[j].until \in Int
      BY <3>1, <3>2, FieldsOfRow
    <3>4. j \in LapsedIn(jobs) => j \in LapsedIn(jobs')
      BY <3>1, <3>2, <3>3 DEF LapsedIn, RowOK
    <3> QED
      BY <3>2, <3>4 DEF ShownJob
  <2> QED
    BY <2>1, <2>2
<1> DEFINE over == LapsedIn(jobs')
<1>3. ShownBoard' = ShownBoard
  BY <1>2 DEF ShownBoard
<1>4. \A j \in over : j \in Jobs /\ ShownBoard[j].status = "running"
  BY <1>2 DEF LapsedIn, ShownBoard, ShownJob
<1>5. LapsedIn(jobs)' = LapsedIn(jobs) \cup over
  BY <1>2 DEF LapsedIn
<1> HIDE DEF over
<1>6. Board!Lapse(over)
  BY <1>3, <1>4, <1>5 DEF Board!Lapse, ShownBoard, ShownJob
<1>7. over \in SUBSET Jobs
  BY <1>4
<1> QED
  BY <1>6, <1>7

LEMMA StepIsOnTheBoard ==
  ASSUME QueueInv, [Next]_vars
  PROVE  [Board!Next]_(Board!boardVars)
<1>1. CASE UNCHANGED jobs
  BY <1>1 DEF Board!boardVars, LapsedIn
<1>2. ASSUME NEW j \in Jobs, Enqueue(j) \/ Cancel(j)
      PROVE  Board!Next
  BY <1>2, EnqueuePosts, CancelWithdraws DEF Board!Next
<1>3. ASSUME NEW r \in Runners, Requeue(r) \/ Claim(r)
      PROVE  Board!Next
  BY <1>3, RequeueReturns, ClaimTakes DEF Board!Next
<1>4. ASSUME NEW t \in Tasks, Complete(t), jobs' # jobs
      PROVE  Board!Next
  <2>1. Owns(t) /\ task[t].step \in {"complete", "fail"}
    BY <1>4 DEF Complete
  <2>2. PICK j, w : j = task[t].job /\ w = Owner[task[t].runner]
    OBVIOUS
  <2>3. j \in Jobs /\ Board!Finish(j, w)
    BY <1>4, <2>1, <2>2, CompleteFinishes
  <2>4. w \in {Owner[r] : r \in Runners}
    BY <2>1, <2>2, MarkIsHeld
  <2> QED
    BY <2>3, <2>4 DEF Board!Next
<1>5. ASSUME NEW t \in Tasks, Fail(t), jobs' # jobs
      PROVE  Board!Next
  <2>1. Owns(t) /\ task[t].step \in {"complete", "fail"}
    BY <1>5 DEF Fail
  <2>2. PICK j, w : j = task[t].job /\ w = Owner[task[t].runner]
    OBVIOUS
  <2>3. PICK late \in 0 .. MaxAge : jobs' = [jobs EXCEPT ![j] = FailedRow(jobs[j], late)]
    BY <1>5, <2>2, FailWritesFailedRow DEF Write
  <2>4. j \in Jobs /\ Board!Fail(j, w)
    BY <1>5, <2>1, <2>2, <2>3, FailFails
  <2>5. w \in {Owner[r] : r \in Runners}
    BY <2>1, <2>2, MarkIsHeld
  <2> QED
    BY <2>4, <2>5 DEF Board!Next
<1>6. CASE Tick
  BY <1>6, TickLapses DEF Board!Next
<1> QED
  BY <1>1, <1>2, <1>3, <1>4, <1>5, <1>6
  DEF Next, vars, RunnerStep, TaskStep, StartCycle, Dispatch, Spawn, AbandonCycle,
      Crash, Handle, GiveUp, Answers, LoseMark, Release, End

LEMMA InitialBoardIsBlank == Init => Board!Init
BY DEF Init, Board!Init, Board!Unposted, NoJob, LapsedIn

(***************************************************************************)
(* The table implements the board: leases are exclusive until they lapse,  *)
(* failures are counted to the limit, and ended jobs stay ended.           *)
(***************************************************************************)
THEOREM QueueImplementsBoard == Spec => ImplementsBoard
<1>1. QueueInv /\ [Next]_vars => [Board!Next]_(Board!boardVars)
  BY StepIsOnTheBoard
<1> QED
  BY <1>1, InitialBoardIsBlank, InvariantHolds, PTL
  DEF Spec, ImplementsBoard, Board!Spec

=============================================================================
