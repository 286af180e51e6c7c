------------------------------ MODULE JobQueue ------------------------------
(***************************************************************************)
(* The queue of durable jobs and the runners that work it off.  A runner   *)
(* reads the clock once a cycle, returns the jobs whose lease is over,     *)
(* claims a batch under a lease of its own and starts one goroutine per    *)
(* job, as many at a time as it has slots.  Goroutines outlive the cycle,  *)
(* and may outlive the lease.                                              *)
(*                                                                         *)
(* Times are kept relative to the present: next and until count down as    *)
(* the clock advances, and an instant read age ticks ago is -age.  What is *)
(* more than MaxAge ticks past is kept as -MaxAge.  Claim and Fail read    *)
(* and write in one transaction: it takes effect at its writes, or is      *)
(* refused because somebody committed since its read, which is treated     *)
(* like a failing statement.                                               *)
(***************************************************************************)
EXTENDS Integers, Sequences, FiniteSets

CONSTANTS
  Runners,      \* runners, one per process
  Owner,        \* Owner[r]: the name under which r holds leases
  Jobs,         \* pairs of kind and object, unique in the table
  Tasks,        \* goroutines; a new one takes the first number that is free
  Limits,       \* attempts callers allow
  Delays,       \* how far in the future callers schedule a job
  Lease,        \* duration of a lease
  Concurrency,  \* slots of a runner
  MaxAge,       \* bound: ticks between a clock reading and the write that uses it
  None          \* no owner, no job, no runner

ASSUME ConstantsAssumption ==
  /\ IsFiniteSet(Jobs)
  /\ IsFiniteSet(Tasks) /\ Tasks \subseteq Nat
  /\ None \notin {Owner[r] : r \in Runners}
  /\ None \notin Jobs
  /\ None \notin Runners
  /\ Limits \subseteq 1 .. 20
  /\ Delays \subseteq Nat
  /\ Lease \in Nat \ {0}
  /\ Concurrency \in Nat \ {0}
  /\ MaxAge \in Nat

VARIABLES
  jobs,        \* worker_jobs
  cycle,       \* the cycle of each runner
  processing,  \* Runner.processing
  slots,       \* tokens in Runner.sem
  task,        \* what each goroutine does
  history      \* ghost: what handlers did, and which leases ever ran out

vars == <<jobs, cycle, processing, slots, task, history>>

-----------------------------------------------------------------------------
\* lease_owner and lease_until are NULL together: owner = None.
NoJob ==
  [status |-> "none", attempts |-> 0, max |-> 0, next |-> 0,
   owner |-> None, until |-> 0]

Idle == [step |-> "idle", age |-> 0, queue |-> <<>>]

Free == [runner |-> None, job |-> None, step |-> "free"]

LapsedIn(table) ==
  {j \in Jobs : table[j].status = "running" /\ table[j].until <= 0}

\* Every write of the table, and of the clock, notes the leases it sees end;
\* the handlers of jobs they belong to are no longer counted.
Write(table) ==
  LET lapsed == history.lapsed \cup LapsedIn(table)
  IN  /\ jobs' = table
      /\ history' = [history EXCEPT
           !.lapsed = lapsed,
           !.starts = [j \in Jobs |-> IF j \in lapsed THEN 0 ELSE @[j]]]

-----------------------------------------------------------------------------
(* Callers.                                                                *)

Enqueue(j) ==
  /\ jobs[j] = NoJob
  /\ \E max \in Limits, delay \in Delays :
       Write([jobs EXCEPT
         ![j] = [NoJob EXCEPT
                   !.status = "pending", !.max = max, !.next = delay]])
  /\ UNCHANGED <<cycle, processing, slots, task>>

Waiting(row) == row.status \in {"pending", "retrying"}

Cancel(j) ==
  /\ Waiting(jobs[j])
  /\ Write([jobs EXCEPT ![j].status = "canceled"])
  /\ UNCHANGED <<cycle, processing, slots, task>>

-----------------------------------------------------------------------------
(* A cycle of a runner.                                                    *)

StartCycle(r) ==
  /\ cycle[r] = Idle
  /\ cycle' = [cycle EXCEPT ![r].step = "requeue"]
  /\ UNCHANGED <<jobs, processing, slots, task, history>>

\* The error of a statement ends the cycle.
AbandonCycle(r) ==
  /\ cycle[r].step \in {"requeue", "claim"}
  /\ cycle' = [cycle EXCEPT ![r] = Idle]
  /\ UNCHANGED <<jobs, processing, slots, task, history>>

\* A bug to detect: every running job is taken for an expired one.
LeaseAlwaysOver(row, at) == TRUE

LeaseOver(row, at) == row.until <= at

Requeue(r) ==
  LET at == -cycle[r].age
      back == {j \in Jobs : jobs[j].status = "running" /\ LeaseOver(jobs[j], at)}
  IN  /\ cycle[r].step = "requeue"
      /\ Write([j \in Jobs |->
           IF j \in back
           THEN [jobs[j] EXCEPT !.status = "retrying", !.next = at,
                                !.owner = None, !.until = 0]
           ELSE jobs[j]])
      /\ cycle' = [cycle EXCEPT ![r].step = "claim"]
      /\ UNCHANGED <<processing, slots, task>>

Claimable(at) ==
  {j \in Jobs :
     /\ jobs[j].status \in {"pending", "retrying", "running"}
     /\ jobs[j].next <= at
     /\ jobs[j].owner = None \/ LeaseOver(jobs[j], at)}

Batch == 2 * Concurrency

\* ORDER BY next_attempt_at, id LIMIT: identities are random UUIDs.
FirstOf(candidates, queue) ==
  /\ queue \in [1 .. Len(queue) -> candidates]
  /\ \A m, n \in 1 .. Len(queue) :
       m < n => /\ queue[m] # queue[n]
                /\ jobs[queue[m]].next <= jobs[queue[n]].next
  /\ \A j \in candidates :
       \/ \E n \in 1 .. Len(queue) : queue[n] = j
       \/ /\ Len(queue) = Batch
          /\ \A n \in 1 .. Len(queue) : jobs[queue[n]].next <= jobs[j].next

Claim(r) ==
  LET at == -cycle[r].age
  IN  /\ cycle[r].step = "claim"
      /\ \E size \in 0 .. Batch :
           \E queue \in [1 .. size -> Claimable(at)] :
             /\ FirstOf(Claimable(at), queue)
             /\ Write([j \in Jobs |->
                  IF \E n \in 1 .. size : queue[n] = j
                  THEN [jobs[j] EXCEPT !.status = "running",
                                       !.owner = Owner[r], !.until = at + Lease]
                  ELSE jobs[j]])
             /\ cycle' = [cycle EXCEPT
                  ![r] = [step |-> "dispatch", age |-> 0, queue |-> queue]]
      /\ UNCHANGED <<processing, slots, task>>

\* A bug to detect: begin does not look whether the job is being processed.
AlwaysNew(r, j) == TRUE

\* begin
Begins(r, j) == j \notin processing[r]

\* The head of the queue begins, and waits for a slot, or is skipped.
Dispatch(r) ==
  LET queue == cycle[r].queue
  IN  /\ cycle[r].step = "dispatch"
      /\ \/ /\ queue = <<>>
            /\ cycle' = [cycle EXCEPT ![r] = Idle]
            /\ UNCHANGED processing
         \/ /\ queue # <<>>
            /\ ~Begins(r, Head(queue))
            /\ cycle' = [cycle EXCEPT ![r].queue = Tail(queue)]
            /\ UNCHANGED processing
         \/ /\ queue # <<>>
            /\ Begins(r, Head(queue))
            /\ processing' = [processing EXCEPT ![r] = @ \cup {Head(queue)}]
            /\ cycle' = [cycle EXCEPT ![r].step = "slot"]
      /\ UNCHANGED <<jobs, slots, task, history>>

\* r.sem <- struct{}{}, then go r.handle.
Spawn(r) ==
  LET j == Head(cycle[r].queue)
  IN  /\ cycle[r].step = "slot"
      /\ slots[r] < Concurrency
      /\ slots' = [slots EXCEPT ![r] = @ + 1]
      /\ \E t \in Tasks :
           /\ task[t] = Free
           /\ \A u \in Tasks : u < t => task[u] # Free
           /\ task' = [task EXCEPT
                ![t] = [runner |-> r, job |-> j, step |-> "handle"]]
      /\ cycle' = [cycle EXCEPT
           ![r].step = "dispatch", ![r].queue = Tail(cycle[r].queue)]
      /\ history' = IF j \in history.lapsed THEN history
                    ELSE [history EXCEPT !.starts[j] = @ + 1]
      /\ UNCHANGED <<jobs, processing>>

-----------------------------------------------------------------------------
(* handle                                                                  *)

Go(t, step) == task' = [task EXCEPT ![t].step = step]

\* A bug to detect: a canceled handler completes its job.
CanceledIsDone(outcome) == IF outcome = "error" THEN "fail" ELSE "complete"

\* What handle does with the answer of the handler.
After(outcome) ==
  CASE outcome = "ok" -> "complete"
    [] outcome = "error" -> "fail"
    [] outcome = "canceled" -> "release"

Answers(t, outcome) ==
  /\ task[t].step = "handle"
  /\ Go(t, After(outcome))
  /\ history' = IF outcome = "ok"
                THEN [history EXCEPT !.handled = @ \cup {task[t].job}]
                ELSE history
  /\ UNCHANGED <<jobs, cycle, processing, slots>>

Handle(t) == Answers(t, "ok") \/ Answers(t, "error")

\* The context is canceled, or a deadline of the handler passes.
GiveUp(t) == Answers(t, "canceled")

\* A bug to detect: the UPDATE looks at the status alone.
AnyOwner(t) == jobs[task[t].job].status = "running"

\* WHERE status='running' AND lease_owner=?
Owns(t) ==
  /\ jobs[task[t].job].status = "running"
  /\ jobs[task[t].job].owner = Owner[task[t].runner]

Complete(t) ==
  LET j == task[t].job
  IN  /\ task[t].step = "complete"
      /\ IF Owns(t)
         THEN Write([jobs EXCEPT ![j].status = "completed",
                                 ![j].owner = None, ![j].until = 0])
         ELSE UNCHANGED <<jobs, history>>
      /\ Go(t, "release")
      /\ UNCHANGED <<cycle, processing, slots>>

RetryDelay(attempt) ==
  LET clamped == IF attempt < 1 THEN 1 ELSE IF attempt > 8 THEN 8 ELSE attempt
  IN  2 ^ (clamped - 1)

\* A bug to detect: one attempt too many.
PastLimit(attempts, max) == attempts > max

LastAttempt(attempts, max) == attempts >= max

\* The clock was read late ticks before the UPDATE.
Fail(t) ==
  LET j == task[t].job
      attempts == jobs[j].attempts + 1
      last == LastAttempt(attempts, jobs[j].max)
  IN  /\ task[t].step = "fail"
      /\ \/ ~Owns(t) /\ UNCHANGED <<jobs, history>>
         \/ /\ Owns(t)
            /\ \E late \in 0 .. MaxAge :
                 Write([jobs EXCEPT
                   ![j] = [status |-> IF last THEN "failed" ELSE "retrying",
                           attempts |-> attempts,
                           max |-> jobs[j].max,
                           next |-> IF last THEN -late
                                    ELSE RetryDelay(attempts) - late,
                           owner |-> None,
                           until |-> 0]])
      /\ Go(t, "release")
      /\ UNCHANGED <<cycle, processing, slots>>

\* The UPDATE of Complete or Fail fails: that is logged, and nothing else.
LoseMark(t) ==
  /\ task[t].step \in {"complete", "fail"}
  /\ Owns(t)
  /\ Go(t, "release")
  /\ UNCHANGED <<jobs, cycle, processing, slots, history>>

\* The deferred function gives the slot back first and forgets the job next.
Release(t) ==
  /\ task[t].step = "release"
  /\ slots' = [slots EXCEPT ![task[t].runner] = @ - 1]
  /\ Go(t, "end")
  /\ UNCHANGED <<jobs, cycle, processing, history>>

\* A bug to detect: the job is never forgotten.
ForgetNothing(t) == processing

\* end
Forget(t) == [processing EXCEPT ![task[t].runner] = @ \ {task[t].job}]

End(t) ==
  /\ task[t].step = "end"
  /\ processing' = Forget(t)
  /\ task' = [task EXCEPT ![t] = Free]
  /\ UNCHANGED <<jobs, cycle, slots, history>>

-----------------------------------------------------------------------------
(* The rest of the world.                                                  *)

\* The process of r dies, with work in hand, and starts again: its leases
\* are all it leaves.
Crash(r) ==
  /\ \/ processing[r] # {}
     \/ cycle[r].step \in {"requeue", "claim"}
     \/ cycle[r].queue # <<>>
  /\ cycle' = [cycle EXCEPT ![r] = Idle]
  /\ processing' = [processing EXCEPT ![r] = {}]
  /\ slots' = [slots EXCEPT ![r] = 0]
  /\ task' = [t \in Tasks |-> IF task[t].runner = r THEN Free ELSE task[t]]
  /\ UNCHANGED <<jobs, history>>

Earlier(n) == IF n > -MaxAge THEN n - 1 ELSE n

UsesItsClock(r) == cycle[r].step \in {"requeue", "claim"}

Tick ==
  /\ \A r \in Runners : UsesItsClock(r) => cycle[r].age < MaxAge
  /\ Write([j \in Jobs |->
       IF jobs[j] = NoJob THEN NoJob
       ELSE [jobs[j] EXCEPT
              !.next = Earlier(@),
              !.until = IF jobs[j].owner = None THEN 0 ELSE Earlier(@)]])
  /\ cycle' = [r \in Runners |->
       IF UsesItsClock(r) THEN [cycle[r] EXCEPT !.age = @ + 1] ELSE cycle[r]]
  /\ UNCHANGED <<processing, slots, task>>

Init ==
  /\ jobs = [j \in Jobs |-> NoJob]
  /\ cycle = [r \in Runners |-> Idle]
  /\ processing = [r \in Runners |-> {}]
  /\ slots = [r \in Runners |-> 0]
  /\ task = [t \in Tasks |-> Free]
  /\ history = [lapsed |-> {}, handled |-> {}, starts |-> [j \in Jobs |-> 0]]

RunnerStep(r) ==
  StartCycle(r) \/ Requeue(r) \/ Claim(r) \/ Dispatch(r) \/ Spawn(r)

TaskStep(t) ==
  Handle(t) \/ Complete(t) \/ Fail(t) \/ Release(t) \/ End(t)

Next ==
  \/ \E j \in Jobs : Enqueue(j) \/ Cancel(j)
  \/ \E r \in Runners : RunnerStep(r) \/ AbandonCycle(r) \/ Crash(r)
  \/ \E t \in Tasks : TaskStep(t) \/ GiveUp(t) \/ LoseMark(t)
  \/ Tick

Spec == Init /\ [][Next]_vars

(***************************************************************************)
(* The ticker fires again and again, goroutines are scheduled, handlers    *)
(* return, and time passes.                                                *)
(***************************************************************************)
Fairness ==
  /\ \A r \in Runners : WF_vars(RunnerStep(r))
  /\ \A t \in Tasks : WF_vars(TaskStep(t))
  /\ WF_vars(Tick)

FairSpec == Spec /\ Fairness

-----------------------------------------------------------------------------
(* Properties.                                                             *)

Row ==
  [status : {"pending", "running", "retrying", "completed", "failed",
             "canceled"},
   attempts : Nat, max : Limits, next : Int,
   owner : {Owner[r] : r \in Runners} \cup {None}, until : Int]

Holding(r) ==
  {t \in Tasks :
     task[t].runner = r /\ task[t].step \in {"handle", "complete", "fail", "release"}}

\* Slots are the goroutines that hold one; the jobs processed are those of
\* the goroutines and the one that waits for a slot.
SlotsAreHeld ==
  \A r \in Runners :
    /\ slots[r] = Cardinality(Holding(r))
    /\ slots[r] <= Concurrency
    /\ processing[r] =
         {task[t].job : t \in {u \in Tasks : task[u].runner = r}}
         \cup IF cycle[r].step = "slot" THEN {Head(cycle[r].queue)} ELSE {}

(***************************************************************************)
(* The shape of the state.  Only running jobs are leased, and the runners' *)
(* books of slots and jobs agree with their goroutines: nothing leaks.     *)
(***************************************************************************)
TypeOK ==
  /\ jobs \in [Jobs -> Row \cup {NoJob}]
  /\ \A j \in Jobs : jobs[j].owner # None <=> jobs[j].status = "running"
  /\ \A r \in Runners :
       /\ cycle[r].step \in {"idle", "requeue", "claim", "dispatch", "slot"}
       /\ cycle[r].age \in 0 .. MaxAge
       /\ cycle[r].queue \in Seq(Jobs)
  /\ processing \in [Runners -> SUBSET Jobs]
  /\ slots \in [Runners -> Nat]
  /\ task \in [Tasks ->
       [runner : Runners, job : Jobs,
        step : {"handle", "complete", "fail", "release", "end"}] \cup {Free}]
  /\ SlotsAreHeld

(***************************************************************************)
(* A runner never has two goroutines on one job, though it may claim again *)
(* a job whose lease its own goroutine has outlived.                       *)
(***************************************************************************)
OneHandlerPerJob ==
  \A t, u \in Tasks :
    /\ task[t] # Free
    /\ task[t].runner = task[u].runner
    /\ task[t].job = task[u].job
    => t = u

(***************************************************************************)
(* As long as its lease has never run out, a job is handed to a handler at *)
(* most once more than its failures count: redelivery is paid for, by a    *)
(* recorded failure or by a lapsed lease, whatever crashes and faults do.  *)
(***************************************************************************)
HandledOncePerAttempt ==
  \A j \in Jobs \ history.lapsed : history.starts[j] <= jobs[j].attempts + 1

(***************************************************************************)
(* As long as a lease lasts, no step of another runner, in its cycle or in *)
(* a goroutine it started earlier, changes the job: a handler that was     *)
(* overtaken can neither complete nor fail what is now another's.          *)
(***************************************************************************)
Acts(r) ==
  \/ processing'[r] # processing[r]
  \/ cycle'[r].step # cycle[r].step
  \/ \E t \in Tasks : task[t].runner = r /\ task'[t] # task[t]

LeaseRespected ==
  [][\A r \in Runners, j \in Jobs :
       /\ Acts(r)
       /\ jobs[j].status = "running"
       /\ jobs[j].owner # Owner[r]
       /\ jobs[j].until > 0
       => jobs'[j] = jobs[j]]_vars

(***************************************************************************)
(* A job is completed only if a handler returned for it without error.     *)
(***************************************************************************)
CompletedWasHandled ==
  \A j \in Jobs : jobs[j].status = "completed" => j \in history.handled

\* Jobs that a goroutine of r has in hand, or that r is about to begin.
InHand(r) ==
  {task[t].job : t \in {u \in Tasks : task[u].runner = r}}
  \cup {cycle[r].queue[n] : n \in DOMAIN cycle[r].queue}

LeaseOutlived ==
  \E r \in Runners : (LapsedIn(jobs') \ LapsedIn(jobs)) \cap InHand(r)' # {}

Disturbance ==
  \/ \E r \in Runners : AbandonCycle(r) \/ Crash(r)
  \/ \E t \in Tasks : GiveUp(t) \/ LoseMark(t)
  \/ LeaseOutlived

Ended(j) == jobs[j].status \in {"completed", "failed", "canceled"}

(***************************************************************************)
(* Every job that is enqueued ends, completed, failed or canceled, however *)
(* its handlers answer, once crashes, failing statements, canceled         *)
(* handlers and leases that are too short no longer happen.  A job that is *)
(* never forgotten, or a slot not given back, would leave it retrying.     *)
(***************************************************************************)
EveryJobEnds ==
  <>[][~Disturbance]_vars => \A j \in Jobs : jobs[j] # NoJob ~> Ended(j)

(***************************************************************************)
(* The table implements the board: leases are exclusive until they lapse,  *)
(* failures are counted to the limit, and ended jobs stay ended.           *)
(***************************************************************************)
Board ==
  INSTANCE JobBoard
  WITH Workers <- {Owner[r] : r \in Runners},
       Nobody <- None,
       board <- [j \in Jobs |->
                   [status |-> jobs[j].status, attempts |-> jobs[j].attempts,
                    max |-> jobs[j].max, holder |-> jobs[j].owner]],
       lapsed <- LapsedIn(jobs)

ImplementsBoard == Board!Spec

=============================================================================
