---------------------------- MODULE OutboxWorker ----------------------------
(***************************************************************************)
(* The outbox and the worker that publishes it.  A process has one worker. *)
(* Each cycle reads the clock, selects the events that are due, oldest     *)
(* first, and for each calls the publisher and marks the outcome.  No      *)
(* transaction spans the call and the mark: an event is delivered at least *)
(* once, and again when the mark is lost.                                  *)
(*                                                                         *)
(* Times are kept relative to the present: next counts down as the clock   *)
(* advances, an instant read age ticks ago is -age, and what is more than  *)
(* MaxAge ticks past is kept as -MaxAge.  Attempts beyond MaxAttempts are  *)
(* not told apart, as no delay depends on them.                            *)
(***************************************************************************)
EXTENDS Integers, Sequences

CONSTANTS
  Objects,      \* aggregates the events are about
  MaxAttempts,  \* URBANRELAY_WORKER_ATTEMPTS
  Day,          \* the delay after MaxAttempts failures, 24 hours in the code
  Limit,        \* batch size, 50 in the code
  MaxEvents,    \* bound: events appended
  Topics,       \* what each of them tells of, by id
  MaxAge        \* bound: ticks between a clock reading and the write that uses it

ASSUME ConstantsAssumption ==
  /\ MaxAttempts \in Nat \ {0}
  /\ Day \in Nat \ {0}
  /\ Limit \in Nat \ {0}
  /\ MaxEvents \in Nat
  /\ Topics \in [1 .. MaxEvents -> {"lifecycle", "other"}]
  /\ MaxAge \in Nat

VARIABLES
  events,   \* outbox_events, in order of id
  latest,   \* [Objects -> created_at of the latest event of its life cycle]
  cycle,    \* the cycle of the worker
  history   \* ghost: what the publisher got and refused, which marks were lost,
            \* and which events are older than others that were committed before

vars == <<events, latest, cycle, history>>

-----------------------------------------------------------------------------
Idle == [step |-> "idle", age |-> 0, batch |-> <<>>]

Ids == 1 .. MaxEvents

\* A bug to detect: what is to be retried is forgotten.
PendingOnly(e) == e.status = "pending"

Waiting(e) == e.status \in {"pending", "retrying"}

(***************************************************************************)
(* AppendTx, called at the end of somebody's transaction.  Ids follow the  *)
(* order of commits, created_at is whatever the writer read earlier: an    *)
(* event is backdated to one of its object that is still to be published   *)
(* for the first time if that one is due later.                            *)
(***************************************************************************)
AppendTx(o, topic, created) ==
  LET last == Len(events) + 1
      dueLater == {m \in DOMAIN events :
        /\ events[m].object = o
        /\ events[m].status = "pending"
        /\ events[m].next > created}
  IN  /\ Len(events) < MaxEvents
      /\ Topics[last] = topic
      /\ events' = Append(events,
           [object |-> o, status |-> "pending", attempts |-> 0, next |-> created])
      /\ history' = [history EXCEPT
           !.backdated = @ \cup {<<m, last>> : m \in dueLater}]
      /\ UNCHANGED cycle

\* A bug to detect: the clock is read first, as Create does.
ReadBeforeRow(o) == -MaxAge .. 0

\* The clock is read after the row, whose version must be the one the caller
\* presents and the one the UPDATE meets: the previous transition is over.
ReadAfterRow(o) == latest[o] .. 0

\* Create and Transition of the six services.
AppendInTurn(o) ==
  \E created \in ReadAfterRow(o) :
    /\ AppendTx(o, "lifecycle", created)
    /\ latest' = [latest EXCEPT ![o] = created]

\* Reservations, whose events go to their owner's id, and the catalogue, which
\* does not compare versions before it reads the clock: any reading will do.
AppendAnyTime(o) ==
  /\ \E created \in -MaxAge .. 0 : AppendTx(o, "other", created)
  /\ UNCHANGED latest

-----------------------------------------------------------------------------
(* process                                                                 *)

StartCycle ==
  /\ cycle = Idle
  /\ cycle' = [Idle EXCEPT !.step = "due"]
  /\ UNCHANGED <<events, latest, history>>

\* A bug to detect: the status is not looked at.
DueWhateverStatus(at, batch) ==
  LET due == {n \in DOMAIN events : events[n].next <= at}
  IN  /\ \A m, n \in DOMAIN batch : m < n => batch[m] < batch[n]
      /\ {batch[n] : n \in DOMAIN batch} = due

\* Due: ORDER BY id LIMIT.
Due(at, batch) ==
  LET due == {n \in DOMAIN events : Waiting(events[n]) /\ events[n].next <= at}
      chosen == {batch[n] : n \in DOMAIN batch}
  IN  /\ \A m, n \in DOMAIN batch : m < n => batch[m] < batch[n]
      /\ chosen \subseteq due
      /\ \/ chosen = due
         \/ /\ Len(batch) = Limit
            /\ \A m \in chosen, n \in due \ chosen : m < n

\* The batch keeps the attempts of each event as they were read.
LoadDue ==
  /\ cycle.step = "due"
  /\ \E size \in 0 .. Limit : \E batch \in [1 .. size -> DOMAIN events] :
       /\ Due(-cycle.age, batch)
       /\ cycle' =
            [step |-> "publish", age |-> 0,
             batch |-> [n \in 1 .. size |->
                [id |-> batch[n], attempts |-> events[batch[n]].attempts]]]
  /\ UNCHANGED <<events, latest, history>>

EndCycle ==
  /\ cycle.step = "publish"
  /\ cycle.batch = <<>>
  /\ cycle' = Idle
  /\ UNCHANGED <<events, latest, history>>

\* The query fails, or the context is canceled before the next event.
AbandonCycle ==
  /\ \/ cycle.step = "due"
     \/ cycle.step = "publish" /\ cycle.batch # <<>>
  /\ cycle' = Idle
  /\ UNCHANGED <<events, latest, history>>

Current == Head(cycle.batch)

Deliver ==
  /\ cycle.step = "publish"
  /\ cycle.batch # <<>>
  /\ cycle' = [cycle EXCEPT !.step = "delivered"]
  /\ history' = [history EXCEPT
       !.delivered[Current.id] = IF @ < 2 THEN @ + 1 ELSE 2]
  /\ UNCHANGED <<events, latest>>

Reject ==
  /\ cycle.step = "publish"
  /\ cycle.batch # <<>>
  /\ cycle' = [cycle EXCEPT !.step = "rejected"]
  /\ history' = [history EXCEPT !.refused = @ \cup {Current.id}]
  /\ UNCHANGED <<events, latest>>

\* The rest of the batch, whatever became of its head.
Proceed == cycle' = [cycle EXCEPT !.step = "publish", !.batch = Tail(@)]

\* A bug to detect: what the publisher refuses is marked as published.
AnyOutcome(step) == cycle.step \in {"delivered", "rejected"}

Outcome(step) == cycle.step = step

\* An event that is no longer waiting is left alone, and the error is logged.
MarkPublished ==
  LET e == events[Current.id]
  IN  /\ Outcome("delivered")
      /\ events' = IF Waiting(e)
                   THEN [events EXCEPT ![Current.id].status = "published"]
                   ELSE events
      /\ Proceed
      /\ UNCHANGED <<latest, history>>

Smaller(a, b) == IF a < b THEN a ELSE b

RetryDelay(attempts) ==
  IF attempts >= MaxAttempts THEN Day ELSE 2 ^ Smaller(attempts, 6)

\* The clock was read late ticks before the UPDATE.
MarkRetry ==
  LET e == events[Current.id]
      attempts == Current.attempts + 1
  IN  /\ Outcome("rejected")
      /\ \E late \in 0 .. MaxAge :
           events' = IF Waiting(e)
                     THEN [events EXCEPT
                            ![Current.id].status = "retrying",
                            ![Current.id].attempts = Smaller(attempts, MaxAttempts),
                            ![Current.id].next = RetryDelay(attempts) - late]
                     ELSE events
      /\ Proceed
      /\ UNCHANGED <<latest, history>>

\* What was delivered may be delivered again if the mark is lost.
Excuse ==
  history' = IF cycle.step = "delivered"
             THEN [history EXCEPT !.excused = @ \cup {Current.id}]
             ELSE history

\* The UPDATE fails, or its context is canceled: that is logged.
LoseMark ==
  /\ cycle.step \in {"delivered", "rejected"}
  /\ Excuse
  /\ Proceed
  /\ UNCHANGED <<events, latest>>

-----------------------------------------------------------------------------
\* The process stops in the middle of a cycle, and starts again.
Crash ==
  /\ cycle.step = "due" \/ cycle.batch # <<>>
  /\ Excuse
  /\ cycle' = Idle
  /\ UNCHANGED <<events, latest>>

Earlier(n) == IF n > -MaxAge THEN n - 1 ELSE n

Tick ==
  /\ cycle.step = "due" => cycle.age < MaxAge
  /\ events' = [n \in DOMAIN events |->
       [events[n] EXCEPT !.next = Earlier(@)]]
  /\ latest' = [o \in Objects |-> Earlier(latest[o])]
  /\ cycle' = IF cycle.step = "due" THEN [cycle EXCEPT !.age = @ + 1] ELSE cycle
  /\ UNCHANGED history

Init ==
  /\ events = <<>>
  /\ latest = [o \in Objects |-> -MaxAge]
  /\ cycle = Idle
  /\ history = [delivered |-> [n \in Ids |-> 0], refused |-> {}, excused |-> {},
                backdated |-> {}]

WorkerStep ==
  \/ StartCycle
  \/ LoadDue
  \/ EndCycle
  \/ Deliver
  \/ MarkPublished
  \/ MarkRetry

Next ==
  \/ \E o \in Objects : AppendInTurn(o) \/ AppendAnyTime(o)
  \/ WorkerStep
  \/ Reject
  \/ AbandonCycle
  \/ LoseMark
  \/ Crash
  \/ Tick

Spec == Init /\ [][Next]_vars

\* The ticker fires again and again, statements return, and time passes.
Fairness == WF_vars(WorkerStep) /\ WF_vars(Tick)

FairSpec == Spec /\ Fairness

-----------------------------------------------------------------------------
(* Properties.                                                             *)

\* What the batch remembers of its rows is still so when their turn comes.
BatchIsCurrent ==
  \A n \in DOMAIN cycle.batch :
    LET e == events[cycle.batch[n].id]
    IN  e.status # "published" /\ e.attempts = cycle.batch[n].attempts

(***************************************************************************)
(* The shape of the state.  The batch is never stale: nobody but the one   *)
(* worker changes an event, whatever is appended and however long it takes.*)
(***************************************************************************)
TypeOK ==
  /\ events \in Seq([object : Objects,
                     status : {"pending", "retrying", "published"},
                     attempts : 0 .. MaxAttempts, next : Int])
  /\ Len(events) <= MaxEvents
  /\ latest \in [Objects -> -MaxAge .. 0]
  /\ cycle.step \in {"idle", "due", "publish", "delivered", "rejected"}
  /\ cycle.age \in 0 .. MaxAge
  /\ cycle.batch \in Seq([id : DOMAIN events, attempts : 0 .. MaxAttempts])
  /\ cycle.step \in {"delivered", "rejected"} => cycle.batch # <<>>
  /\ BatchIsCurrent
  /\ history \in [delivered : [Ids -> 0 .. 2], refused : SUBSET Ids,
                  excused : SUBSET Ids, backdated : SUBSET (Ids \X Ids)]

(***************************************************************************)
(* The marks agree with the publisher: an event is published only if the   *)
(* publisher took it, and counts attempts only if the publisher refused it *)
(* (the attempts written are those that were read, before the call).       *)
(***************************************************************************)
MarksAreTrue ==
  \A n \in DOMAIN events :
    /\ events[n].status = "published" => history.delivered[n] > 0
    /\ events[n].attempts > 0 => n \in history.refused

(***************************************************************************)
(* An event is delivered twice only if a crash or a failing statement lost *)
(* the mark of a delivery.                                                 *)
(***************************************************************************)
DeliveredOnceUnlessMarkLost ==
  \A n \in Ids \ history.excused : history.delivered[n] <= 1

Unseen(n) == history.delivered[n] = 0 /\ n \notin history.refused

(***************************************************************************)
(* An event overtakes an earlier one of its object that the publisher has  *)
(* neither taken nor refused only if its writer had read the clock before  *)
(* the writer of the earlier one, and never if both tell of the life cycle *)
(* of a mission, inspection, transfer, wave, incident or task: neither the *)
(* gap between the clock the worker reads and the rows it selects, nor the *)
(* limit of the batch, nor crashes reorder events beyond that.             *)
(***************************************************************************)
OvertakesHaveReasons ==
  \A m, n \in DOMAIN events :
    /\ m < n
    /\ events[m].object = events[n].object
    /\ history.delivered[n] > 0
    /\ Unseen(m)
    => /\ <<m, n>> \in history.backdated
       /\ "other" \in {Topics[m], Topics[n]}

Disturbance == Reject \/ AbandonCycle \/ LoseMark \/ Crash

(***************************************************************************)
(* Every event is published in the end, whatever happened to it earlier,   *)
(* once the publisher takes what it is given and nothing fails.            *)
(***************************************************************************)
Published(n) == n \in DOMAIN events /\ events[n].status = "published"

EveryEventPublished ==
  <>[][~Disturbance]_vars => \A n \in Ids : n \in DOMAIN events ~> Published(n)

-----------------------------------------------------------------------------
(* What the documentation says of the worker, and the code does not keep.  *)

(***************************************************************************)
(* README.md:5: the background worker registers permanent failure.  An     *)
(* event that has failed MaxAttempts times is then not tried again.        *)
(***************************************************************************)
FailureIsPermanent ==
  cycle.step = "publish" /\ cycle.batch # <<>> => Current.attempts < MaxAttempts

=============================================================================
