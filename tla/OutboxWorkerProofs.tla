------------------------- MODULE OutboxWorkerProofs -------------------------
(***************************************************************************)
(* Theorems about OutboxWorker, for any number of objects, events and      *)
(* attempts, any batch size and any delays.                                *)
(***************************************************************************)
EXTENDS OutboxWorker, SequenceTheorems, TLAPS

-----------------------------------------------------------------------------
(* The invariant, in parts.                                                *)

Event ==
  [object : Objects, status : {"pending", "retrying", "published"},
   attempts : 0 .. MaxAttempts, next : Int]

Entry == [id : Ids, attempts : 0 .. MaxAttempts]

Cycle ==
  [step : {"idle", "due", "publish", "delivered", "rejected"},
   age : 0 .. MaxAge, batch : Seq(Entry)]

History ==
  [delivered : [Ids -> 0 .. 2], refused : SUBSET Ids, excused : SUBSET Ids,
   backdated : SUBSET (Ids \X Ids)]

ShapeOK ==
  /\ events \in Seq(Event) /\ Len(events) <= MaxEvents
  /\ latest \in [Objects -> -MaxAge .. 0]
  /\ cycle \in Cycle
  /\ history \in History

\* The batch is in the order of ids, and says of its rows what they say.
BatchOK ==
  /\ \A k \in DOMAIN cycle.batch : cycle.batch[k].id \in DOMAIN events
  /\ \A j, k \in DOMAIN cycle.batch :
       j < k => cycle.batch[j].id < cycle.batch[k].id
  /\ BatchIsCurrent

\* The publisher got, or refused, the event at hand.
Touched(n) == history.delivered[n] > 0 \/ n \in history.refused

OutcomeOK ==
  cycle.step \in {"delivered", "rejected"} =>
    /\ cycle.batch # <<>>
    /\ IF cycle.step = "delivered" THEN history.delivered[Current.id] > 0
       ELSE Current.id \in history.refused

\* Whatever was delivered is marked, or is about to be, or its mark was lost.
DeliveriesAreMarked ==
  \A n \in Ids \ history.excused :
    /\ history.delivered[n] <= 1
    /\ history.delivered[n] > 0 =>
         \/ n \in DOMAIN events /\ events[n].status = "published"
         \/ cycle.step = "delivered" /\ Current.id = n

\* An event the publisher has not seen is as it was appended.
UntouchedIsPending ==
  /\ \A n \in Ids : Touched(n) => n \in DOMAIN events
  /\ \A n \in DOMAIN events : ~Touched(n) => events[n].status = "pending"

Precedes(m, n) == m < n /\ events[m].object = events[n].object

Backdated(m, n) == <<m, n>> \in history.backdated

\* The events of one life cycle are not backdated.
InTurn(n) == Topics[n] = "lifecycle"

LifeCyclesInTurn ==
  /\ \A m, n \in Ids : Backdated(m, n) => m \in DOMAIN events /\ n \in DOMAIN events
  /\ \A n \in DOMAIN events :
       InTurn(n) /\ events[n].status = "pending"
         => events[n].next <= latest[events[n].object]
  /\ \A m, n \in DOMAIN events :
       Precedes(m, n) /\ InTurn(m) /\ InTurn(n) => ~Backdated(m, n)

\* But for those that are backdated, the events of one object are due, and
\* come to the publisher, in order.
ObjectsInOrder ==
  \A m, n \in DOMAIN events :
    Precedes(m, n) /\ ~Backdated(m, n) =>
      /\ Touched(n) => Touched(m)
      /\ ~Touched(m) /\ ~Touched(n) => events[m].next <= events[n].next

InBatch(n) == \E k \in DOMAIN cycle.batch : cycle.batch[k].id = n

BatchInOrder ==
  \A m, n \in DOMAIN events :
    Precedes(m, n) /\ ~Backdated(m, n) /\ InBatch(n) => Touched(m) \/ InBatch(m)

WorkerInv ==
  /\ ShapeOK
  /\ BatchOK
  /\ OutcomeOK
  /\ MarksAreTrue
  /\ DeliveriesAreMarked
  /\ UntouchedIsPending
  /\ LifeCyclesInTurn
  /\ ObjectsInOrder
  /\ BatchInOrder

-----------------------------------------------------------------------------
(* Facts about sequences, cycles and delays.                               *)

LEMMA TailPlaces ==
  ASSUME NEW S, NEW seq \in Seq(S), seq # <<>>
  PROVE  /\ 1 \in DOMAIN seq /\ Head(seq) = seq[1] /\ Head(seq) \in S
         /\ Tail(seq) \in Seq(S)
         /\ \A k \in DOMAIN Tail(seq) :
              /\ k \in Nat \ {0} /\ k + 1 \in DOMAIN seq
              /\ Tail(seq)[k] = seq[k + 1]
         /\ \A k \in DOMAIN seq : k # 1 => k - 1 \in DOMAIN Tail(seq)
<1>1. /\ Tail(seq) \in Seq(S) /\ Len(Tail(seq)) = Len(seq) - 1
      /\ Len(seq) \in Nat /\ Len(seq) # 0 /\ Head(seq) \in S
  BY HeadTailProperties, EmptySeq
<1>2. DOMAIN Tail(seq) = 1 .. Len(seq) - 1 /\ DOMAIN seq = 1 .. Len(seq)
  BY <1>1
<1>3. \A k \in 1 .. Len(seq) - 1 : Tail(seq)[k] = seq[k + 1]
  BY <1>1
<1> QED
  BY <1>1, <1>2, <1>3

LEMMA IdIsNat ==
  /\ \A n \in Ids : n \in Nat \ {0}
  /\ Idle \in Cycle /\ Idle.batch = <<>> /\ Idle.step = "idle" /\ Idle.age = 0
BY ConstantsAssumption DEF Ids, Idle, Cycle

LEMMA EventDomain ==
  ASSUME ShapeOK
  PROVE  /\ DOMAIN events = 1 .. Len(events) /\ Len(events) \in Nat
         /\ DOMAIN events \subseteq Ids
         /\ \A n \in DOMAIN events : events[n] \in Event /\ n \in Nat
         /\ cycle.batch \in Seq(Entry)
         /\ \A k \in DOMAIN cycle.batch :
              /\ k \in Nat /\ cycle.batch[k] \in Entry
              /\ cycle.batch[k].id \in Ids /\ cycle.batch[k].id \in Nat
<1>1. /\ DOMAIN events = 1 .. Len(events) /\ Len(events) \in Nat
      /\ Len(events) <= MaxEvents
      /\ \A n \in DOMAIN events : events[n] \in Event
  BY DEF ShapeOK
<1>2. cycle.batch \in Seq(Entry)
  BY DEF ShapeOK, Cycle
<1>3. \A k \in DOMAIN cycle.batch : k \in Nat /\ cycle.batch[k] \in Entry
  BY <1>2
<1>4. \A k \in DOMAIN cycle.batch : cycle.batch[k].id \in Ids
  BY <1>3 DEF Entry
<1> QED
  BY <1>1, <1>2, <1>3, <1>4, IdIsNat, ConstantsAssumption DEF Ids

LEMMA RetryDelayIsInt == \A n \in Nat : RetryDelay(n) \in Int
BY ConstantsAssumption DEF RetryDelay, Smaller

LEMMA EarlierIsMonotone ==
  /\ \A n \in Int : Earlier(n) \in Int
  /\ \A m, n \in Int : m <= n => Earlier(m) <= Earlier(n)
  /\ \A n \in -MaxAge .. 0 : Earlier(n) \in -MaxAge .. 0
BY ConstantsAssumption DEF Earlier

\* The head of the batch.
LEMMA CurrentIsInBatch ==
  ASSUME ShapeOK, BatchOK, cycle.batch # <<>>
  PROVE  /\ Current = cycle.batch[1] /\ 1 \in DOMAIN cycle.batch
         /\ Current \in Entry /\ Current.id \in Ids
         /\ Current.id \in DOMAIN events
         /\ events[Current.id].status # "published"
         /\ events[Current.id].attempts = Current.attempts
         /\ InBatch(Current.id)
<1>1. /\ 1 \in DOMAIN cycle.batch /\ Current = cycle.batch[1] /\ Current \in Entry
  BY EventDomain, TailPlaces DEF Current
<1> QED
  BY <1>1, EventDomain DEF BatchOK, BatchIsCurrent, InBatch

-----------------------------------------------------------------------------
(* The end of a cycle, whatever ended it.                                  *)

LEMMA ExcuseIsNoted ==
  ASSUME WorkerInv, Excuse
  PROVE  /\ history' \in History
         /\ history'.delivered = history.delivered
         /\ history'.refused = history.refused
         /\ history'.backdated = history.backdated
         /\ history.excused \subseteq history'.excused
         /\ cycle.step = "delivered" => Current.id \in history'.excused
<1>1. CASE cycle.step = "delivered"
  <2>1. Current.id \in Ids
    BY <1>1, CurrentIsInBatch DEF WorkerInv, OutcomeOK
  <2> DEFINE excused == history.excused \cup {Current.id}
  <2>2. excused \in SUBSET Ids
    BY <2>1 DEF WorkerInv, ShapeOK, History
  <2>3. history' = [history EXCEPT !.excused = excused]
    BY <1>1 DEF Excuse
  <2>4. history.excused \subseteq excused /\ Current.id \in excused
    OBVIOUS
  <2> HIDE DEF excused
  <2> QED
    BY <2>2, <2>3, <2>4 DEF WorkerInv, ShapeOK, History
<1>2. CASE cycle.step # "delivered"
  BY <1>2 DEF Excuse, WorkerInv, ShapeOK
<1> QED
  BY <1>1, <1>2

\* The events and what the publisher saw of them are the same.
LEMMA SameEvents ==
  ASSUME WorkerInv, Excuse, UNCHANGED <<events, latest>>
  PROVE  /\ MarksAreTrue' /\ UntouchedIsPending' /\ LifeCyclesInTurn'
         /\ ObjectsInOrder'
         /\ \A n : Touched(n)' <=> Touched(n)
<1>1. /\ history'.delivered = history.delivered
      /\ history'.refused = history.refused
      /\ history'.backdated = history.backdated
  BY ExcuseIsNoted
<1>2. \A n : Touched(n)' <=> Touched(n)
  BY <1>1 DEF Touched
<1>3. \A m, n : Backdated(m, n)' <=> Backdated(m, n)
  BY <1>1 DEF Backdated
<1>4. MarksAreTrue' /\ UntouchedIsPending'
  BY <1>1, <1>2 DEF WorkerInv, MarksAreTrue, UntouchedIsPending
<1>5. LifeCyclesInTurn'
  BY <1>3 DEF WorkerInv, LifeCyclesInTurn, Precedes
<1>6. ObjectsInOrder'
  BY <1>2, <1>3 DEF WorkerInv, ObjectsInOrder, Precedes
<1> QED
  BY <1>2, <1>4, <1>5, <1>6

LEMMA CycleEnds ==
  ASSUME WorkerInv, Excuse, UNCHANGED <<events, latest>>,
         cycle' \in Cycle, cycle'.batch = <<>>,
         cycle'.step \notin {"delivered", "rejected"}
  PROVE  WorkerInv'
<1>1. ShapeOK'
  BY ExcuseIsNoted DEF WorkerInv, ShapeOK
<1>2. BatchOK' /\ OutcomeOK' /\ BatchInOrder'
  BY DEF BatchOK, BatchIsCurrent, OutcomeOK, BatchInOrder, InBatch
<1>3. DeliveriesAreMarked'
  BY ExcuseIsNoted DEF WorkerInv, DeliveriesAreMarked
<1> QED
  BY <1>1, <1>2, <1>3, SameEvents DEF WorkerInv

-----------------------------------------------------------------------------
(* The worker's steps.                                                     *)

LEMMA StartCycleKeepsInv ==
  ASSUME WorkerInv, StartCycle
  PROVE  WorkerInv'
<1>1. /\ cycle' \in Cycle /\ cycle'.batch = <<>> /\ cycle'.step = "due"
  BY IdIsNat DEF StartCycle, Cycle
<1>2. Excuse
  BY IdIsNat DEF StartCycle, Excuse
<1> QED
  BY <1>1, <1>2, CycleEnds DEF StartCycle

LEMMA IdlingKeepsInv ==
  ASSUME WorkerInv, EndCycle \/ AbandonCycle \/ Crash
  PROVE  WorkerInv'
<1>1. cycle' = Idle /\ UNCHANGED <<events, latest>>
  BY DEF EndCycle, AbandonCycle, Crash
<1>2. Excuse
  BY DEF EndCycle, AbandonCycle, Crash, Excuse
<1> QED
  BY <1>1, <1>2, IdIsNat, CycleEnds

\* What is selected: an event the publisher has not seen comes with all
\* earlier ones of its object that it has not seen either.
LEMMA LoadDueKeepsInv ==
  ASSUME WorkerInv, LoadDue
  PROVE  WorkerInv'
<1> DEFINE at == -cycle.age
<1>1. PICK size \in 0 .. Limit : \E batch \in [1 .. size -> DOMAIN events] :
        /\ Due(at, batch)
        /\ cycle' =
             [step |-> "publish", age |-> 0,
              batch |-> [n \in 1 .. size |->
                 [id |-> batch[n], attempts |-> events[batch[n]].attempts]]]
  BY DEF LoadDue
<1>2. PICK batch \in [1 .. size -> DOMAIN events] :
        /\ Due(at, batch)
        /\ cycle' =
             [step |-> "publish", age |-> 0,
              batch |-> [n \in 1 .. size |->
                 [id |-> batch[n], attempts |-> events[batch[n]].attempts]]]
  BY <1>1
<1> DEFINE due == {n \in DOMAIN events : Waiting(events[n]) /\ events[n].next <= at}
           chosen == {batch[n] : n \in 1 .. size}
<1>3. /\ cycle.step = "due" /\ UNCHANGED <<events, latest, history>>
      /\ ShapeOK /\ size \in Nat /\ at \in Int
  BY ConstantsAssumption DEF LoadDue, WorkerInv, ShapeOK, Cycle
<1>4. /\ \A m, n \in 1 .. size : m < n => batch[m] < batch[n]
      /\ chosen \subseteq due
      /\ chosen = due \/ \A m \in chosen, n \in due \ chosen : m < n
  BY <1>2 DEF Due
<1>5. /\ DOMAIN cycle'.batch = 1 .. size
      /\ \A k \in 1 .. size :
           /\ cycle'.batch[k].id = batch[k]
           /\ cycle'.batch[k].attempts = events[batch[k]].attempts
           /\ cycle'.batch[k] \in Entry
           /\ batch[k] \in DOMAIN events /\ batch[k] \in due
  <2>1. \A k \in 1 .. size : batch[k] \in DOMAIN events /\ batch[k] \in Ids
    BY <1>2, <1>3, EventDomain
  <2>2. \A k \in 1 .. size : events[batch[k]].attempts \in 0 .. MaxAttempts
    BY <1>3, <2>1, EventDomain DEF Event
  <2> QED
    BY <1>2, <1>4, <2>1, <2>2 DEF Entry
<1>6. cycle' \in Cycle /\ cycle'.step = "publish"
  <2>1. cycle'.batch \in Seq(Entry)
    BY <1>2, <1>3, <1>5
  <2>2. cycle' = [step |-> "publish", age |-> 0, batch |-> cycle'.batch]
    BY <1>2
  <2> QED
    BY <2>1, <2>2, ConstantsAssumption DEF Cycle
<1>7. ShapeOK'
  BY <1>3, <1>6 DEF ShapeOK
<1>8. BatchOK'
  BY <1>3, <1>4, <1>5 DEF BatchOK, BatchIsCurrent, Waiting
<1>9. OutcomeOK'
  BY <1>6 DEF OutcomeOK
<1>10. Excuse
  BY <1>3 DEF Excuse
<1>11. DeliveriesAreMarked'
  BY <1>3, <1>6 DEF WorkerInv, DeliveriesAreMarked
<1>12. BatchInOrder'
  <2>1. \A n : InBatch(n)' <=> n \in chosen
    BY <1>5 DEF InBatch
  <2> HIDE DEF chosen
  <2>2. ASSUME NEW m \in DOMAIN events, NEW n \in DOMAIN events,
               Precedes(m, n), ~Backdated(m, n), n \in chosen, ~Touched(m)
        PROVE  m \in chosen
    <3>1. ~Touched(n) /\ events[m].next <= events[n].next
      BY <2>2 DEF WorkerInv, ObjectsInOrder
    <3>2. events[m].status = "pending"
      BY <2>2 DEF WorkerInv, UntouchedIsPending
    <3>3. events[m].next \in Int /\ events[n].next \in Int
          /\ m \in Nat /\ n \in Nat /\ m < n
      BY <1>3, <2>2, EventDomain DEF Event, Precedes
    <3>4. m \in due
      BY <1>3, <1>4, <2>2, <3>1, <3>2, <3>3 DEF Waiting
    <3> QED
      BY <1>4, <2>2, <3>3, <3>4
  <2>3. \A n : Touched(n)' <=> Touched(n)
    BY <1>3 DEF Touched
  <2>4. \A m, n : Backdated(m, n)' <=> Backdated(m, n)
    BY <1>3 DEF Backdated
  <2> QED
    BY <1>3, <2>1, <2>2, <2>3, <2>4 DEF BatchInOrder, Precedes
<1> QED
  BY <1>3, <1>7, <1>8, <1>9, <1>10, <1>11, <1>12, SameEvents DEF WorkerInv

\* The head of the batch precedes the rest of it.
LEMMA CurrentIsFirst ==
  ASSUME ShapeOK, BatchOK, cycle.batch # <<>>, NEW k \in DOMAIN cycle.batch, k # 1
  PROVE  Current.id < cycle.batch[k].id
<1>1. k \in Nat /\ 1 < k
  BY EventDomain DEF ShapeOK
<1> QED
  BY <1>1, CurrentIsInBatch DEF BatchOK

\* The publisher is called for the head of the batch, and every earlier event
\* of its object that it is not backdated to has been before it.
LEMMA CallKeepsInv ==
  ASSUME WorkerInv, cycle.batch # <<>>, NEW id, id = Current.id,
         UNCHANGED <<events, latest>>,
         cycle' \in Cycle, cycle'.batch = cycle.batch, history' \in History,
         \A n \in Ids : Touched(n)' <=> Touched(n) \/ n = id,
         \A n \in Ids : history.delivered[n] > 0 => history'.delivered[n] > 0,
         history.refused \subseteq history'.refused,
         history'.backdated = history.backdated
  PROVE  /\ ShapeOK' /\ BatchOK' /\ MarksAreTrue' /\ UntouchedIsPending'
         /\ LifeCyclesInTurn' /\ ObjectsInOrder' /\ BatchInOrder'
<1>1. /\ ShapeOK /\ BatchOK /\ id \in DOMAIN events /\ id \in Ids
      /\ DOMAIN events \subseteq Ids /\ InBatch(id)
  BY CurrentIsInBatch, EventDomain DEF WorkerInv
<1>2. ShapeOK' /\ BatchOK'
  BY <1>1 DEF ShapeOK, BatchOK, BatchIsCurrent
<1>3. MarksAreTrue' /\ UntouchedIsPending'
  BY <1>1 DEF WorkerInv, MarksAreTrue, UntouchedIsPending
<1>4. ASSUME NEW m \in DOMAIN events, Precedes(m, id), ~Backdated(m, id)
      PROVE  Touched(m)
  <2>1. ASSUME NEW k \in DOMAIN cycle.batch, cycle.batch[k].id = m
        PROVE  FALSE
    <3>1. k # 1
      BY <1>1, <1>4, <2>1, EventDomain, CurrentIsInBatch DEF Precedes
    <3>2. id < m
      BY <1>1, <2>1, <3>1, CurrentIsFirst
    <3> QED
      BY <1>1, <1>4, <3>2, EventDomain DEF Precedes
  <2> QED
    BY <1>1, <1>4, <2>1 DEF WorkerInv, BatchInOrder, InBatch
<1>5. \A m, n : Backdated(m, n)' <=> Backdated(m, n)
  BY DEF Backdated
<1>6. ObjectsInOrder'
  BY <1>1, <1>4, <1>5 DEF WorkerInv, ObjectsInOrder, Precedes
<1>7. BatchInOrder'
  BY <1>1, <1>5 DEF WorkerInv, BatchInOrder, InBatch, Precedes
<1>8. LifeCyclesInTurn'
  BY <1>5 DEF WorkerInv, LifeCyclesInTurn, Precedes
<1> QED
  BY <1>2, <1>3, <1>6, <1>7, <1>8

LEMMA CycleStep ==
  ASSUME NEW c \in Cycle, NEW step \in {"publish", "delivered", "rejected"}
  PROVE  /\ [c EXCEPT !.step = step] \in Cycle
         /\ [c EXCEPT !.step = step].step = step
         /\ [c EXCEPT !.step = step].batch = c.batch
BY DEF Cycle

LEMMA DeliverKeepsInv ==
  ASSUME WorkerInv, Deliver
  PROVE  WorkerInv'
<1> DEFINE times == IF history.delivered[Current.id] < 2
                    THEN history.delivered[Current.id] + 1 ELSE 2
<1>1. PICK id : id = Current.id
  OBVIOUS
<1>2. /\ cycle.step = "publish" /\ cycle.batch # <<>>
      /\ UNCHANGED <<events, latest>>
      /\ cycle' = [cycle EXCEPT !.step = "delivered"]
  BY DEF Deliver
<1>3. /\ id \in Ids /\ id \in DOMAIN events /\ events[id].status # "published"
      /\ ShapeOK /\ cycle \in Cycle /\ DOMAIN events \subseteq Ids
  BY <1>1, <1>2, CurrentIsInBatch, EventDomain DEF WorkerInv, ShapeOK
<1>4. /\ cycle' \in Cycle /\ cycle'.step = "delivered" /\ cycle'.batch = cycle.batch
  BY <1>2, <1>3, CycleStep
<1>5. /\ history' \in History /\ history'.refused = history.refused
      /\ history'.excused = history.excused
      /\ history'.backdated = history.backdated
      /\ \A n \in Ids \ {id} : history'.delivered[n] = history.delivered[n]
      /\ history'.delivered[id] = times /\ history.delivered[id] \in 0 .. 2
  <2> DEFINE delivered == [history.delivered EXCEPT ![id] = times]
  <2>1. /\ delivered \in [Ids -> 0 .. 2] /\ delivered[id] = times
        /\ \A n \in Ids \ {id} : delivered[n] = history.delivered[n]
        /\ history.delivered[id] \in 0 .. 2
    BY <1>1, <1>3 DEF ShapeOK, History
  <2>2. history' = [history EXCEPT !.delivered = delivered]
    BY <1>1 DEF Deliver
  <2> HIDE DEF delivered, times
  <2> QED
    BY <1>3, <2>1, <2>2 DEF ShapeOK, History
<1>6. \A n \in Ids : Touched(n)' <=> Touched(n) \/ n = id
  BY <1>1, <1>5 DEF Touched
<1>7. \A n \in Ids : history.delivered[n] > 0 => history'.delivered[n] > 0
  BY <1>1, <1>5
<1>8. OutcomeOK'
  <2>1. Current' = Current
    BY <1>4 DEF Current
  <2> QED
    BY <1>1, <1>2, <1>4, <1>5, <2>1 DEF OutcomeOK
<1>9. DeliveriesAreMarked'
  <2>1. id \notin history.excused => history.delivered[id] = 0
    BY <1>2, <1>3, <1>5 DEF WorkerInv, DeliveriesAreMarked
  <2>2. Current'.id = id
    BY <1>1, <1>4 DEF Current
  <2> QED
    BY <1>1, <1>2, <1>4, <1>5, <2>1, <2>2 DEF WorkerInv, DeliveriesAreMarked
<1> QED
  BY <1>1, <1>2, <1>4, <1>5, <1>6, <1>7, <1>8, <1>9, CallKeepsInv DEF WorkerInv

LEMMA RejectKeepsInv ==
  ASSUME WorkerInv, Reject
  PROVE  WorkerInv'
<1>1. PICK id : id = Current.id
  OBVIOUS
<1>2. /\ cycle.step = "publish" /\ cycle.batch # <<>>
      /\ UNCHANGED <<events, latest>>
      /\ cycle' = [cycle EXCEPT !.step = "rejected"]
  BY DEF Reject
<1>3. /\ id \in Ids /\ ShapeOK /\ cycle \in Cycle
  BY <1>1, <1>2, CurrentIsInBatch DEF WorkerInv, ShapeOK
<1>4. /\ cycle' \in Cycle /\ cycle'.step = "rejected" /\ cycle'.batch = cycle.batch
  BY <1>2, <1>3, CycleStep
<1>5. /\ history' \in History /\ history'.refused = history.refused \cup {id}
      /\ history'.excused = history.excused
      /\ history'.backdated = history.backdated
      /\ history'.delivered = history.delivered
  <2> DEFINE refused == history.refused \cup {id}
  <2>1. refused \in SUBSET Ids
    BY <1>3 DEF ShapeOK, History
  <2>2. history' = [history EXCEPT !.refused = refused]
    BY <1>1 DEF Reject
  <2> HIDE DEF refused
  <2>3. /\ history' \in History /\ history'.refused = refused
        /\ history'.excused = history.excused
        /\ history'.backdated = history.backdated
        /\ history'.delivered = history.delivered
    BY <1>3, <2>1, <2>2 DEF ShapeOK, History
  <2> QED
    BY <2>3 DEF refused
<1>6. \A n \in Ids : Touched(n)' <=> Touched(n) \/ n = id
  BY <1>5 DEF Touched
<1>7. OutcomeOK'
  <2>1. Current' = Current
    BY <1>4 DEF Current
  <2> QED
    BY <1>1, <1>2, <1>4, <1>5, <2>1 DEF OutcomeOK
<1>8. DeliveriesAreMarked'
  BY <1>2, <1>4, <1>5 DEF WorkerInv, DeliveriesAreMarked
<1> QED
  BY <1>1, <1>2, <1>4, <1>5, <1>6, <1>7, <1>8, CallKeepsInv DEF WorkerInv

\* The worker proceeds: whatever it does to the row at hand, the rest of the
\* batch still says what the rows say.
LEMMA ProceedKeepsBatch ==
  ASSUME WorkerInv, cycle.step \in {"delivered", "rejected"}, Proceed,
         NEW id, id = Current.id,
         DOMAIN events' = DOMAIN events,
         \A n \in DOMAIN events : events'[n].object = events[n].object,
         \A n \in DOMAIN events \ {id} : events'[n] = events[n],
         \A n \in Ids : Touched(n)' <=> Touched(n),
         history'.backdated = history.backdated
  PROVE  /\ cycle' \in Cycle /\ cycle'.step = "publish"
         /\ BatchOK' /\ OutcomeOK' /\ BatchInOrder'
         /\ id \in DOMAIN events /\ id \in Ids /\ Touched(id)
<1>1. /\ ShapeOK /\ BatchOK /\ cycle.batch # <<>> /\ cycle.batch \in Seq(Entry)
      /\ cycle \in Cycle /\ DOMAIN events \subseteq Ids
  BY EventDomain DEF WorkerInv, OutcomeOK, ShapeOK
<1>2. /\ id \in DOMAIN events /\ id \in Ids /\ cycle.batch[1].id = id
      /\ 1 \in DOMAIN cycle.batch /\ Touched(id)
  BY <1>1, CurrentIsInBatch DEF WorkerInv, OutcomeOK, Touched
<1> DEFINE rest == Tail(cycle.batch)
<1>3. /\ rest \in Seq(Entry)
      /\ \A k \in DOMAIN rest :
           /\ k \in Nat \ {0} /\ k + 1 \in DOMAIN cycle.batch
           /\ rest[k] = cycle.batch[k + 1]
      /\ \A k \in DOMAIN cycle.batch : k # 1 => k - 1 \in DOMAIN rest
  BY <1>1, TailPlaces
<1>4. cycle' \in Cycle /\ cycle'.step = "publish" /\ cycle'.batch = rest
  <2> DEFINE c == [cycle EXCEPT !.step = "publish"]
  <2>1. c \in Cycle /\ c.step = "publish" /\ c.batch = cycle.batch
    BY <1>1, CycleStep
  <2>2. cycle' = [c EXCEPT !.batch = rest]
    BY <1>1 DEF Proceed, Cycle
  <2> HIDE DEF c, rest
  <2> QED
    BY <1>3, <2>1, <2>2 DEF Cycle
<1>5. ASSUME NEW k \in DOMAIN rest
      PROVE  /\ rest[k].id \in DOMAIN events \ {id}
             /\ events[rest[k].id].status # "published"
             /\ events[rest[k].id].attempts = rest[k].attempts
  <2>1. k + 1 \in DOMAIN cycle.batch /\ k + 1 # 1 /\ rest[k] = cycle.batch[k + 1]
    BY <1>3
  <2>2. id < rest[k].id
    BY <1>1, <2>1, CurrentIsFirst
  <2>3. rest[k].id \in DOMAIN events
    BY <1>1, <2>1 DEF BatchOK
  <2>4. rest[k].id # id
    BY <1>1, <1>2, <2>2, <2>3, EventDomain
  <2> QED
    BY <1>1, <2>1, <2>3, <2>4 DEF BatchOK, BatchIsCurrent
<1>6. ASSUME NEW j \in DOMAIN rest, NEW k \in DOMAIN rest, j < k
      PROVE  rest[j].id < rest[k].id
  <2>1. /\ j + 1 \in DOMAIN cycle.batch /\ k + 1 \in DOMAIN cycle.batch
        /\ j + 1 < k + 1
        /\ rest[j] = cycle.batch[j + 1] /\ rest[k] = cycle.batch[k + 1]
    BY <1>3, <1>6
  <2> QED
    BY <1>1, <2>1 DEF BatchOK
<1>7. BatchOK'
  <2> HIDE DEF rest
  <2> QED
    BY <1>4, <1>5, <1>6 DEF BatchOK, BatchIsCurrent
<1>8. OutcomeOK'
  BY <1>4 DEF OutcomeOK
<1>9. BatchInOrder'
  <2>1. \A n : InBatch(n)' => InBatch(n)
    BY <1>3, <1>4 DEF InBatch
  <2>2. ASSUME NEW m, InBatch(m)
        PROVE  m = id \/ InBatch(m)'
    <3>1. PICK k \in DOMAIN cycle.batch : cycle.batch[k].id = m
      BY <2>2 DEF InBatch
    <3>2. CASE k = 1
      BY <1>2, <3>1, <3>2
    <3>3. CASE k # 1
      <4>1. /\ k - 1 \in DOMAIN rest /\ k \in Nat
            /\ rest[k - 1] = cycle.batch[(k - 1) + 1]
        BY <1>1, <1>3, <3>3, EventDomain
      <4>2. rest[k - 1].id = m
        BY <3>1, <4>1
      <4> QED
        BY <1>4, <4>1, <4>2 DEF InBatch
    <3> QED
      BY <3>2, <3>3
  <2>3. \A m, n \in DOMAIN events :
          /\ Precedes(m, n)' <=> Precedes(m, n)
          /\ Backdated(m, n)' <=> Backdated(m, n)
    BY DEF Precedes, Backdated
  <2> QED
    BY <1>1, <1>2, <2>1, <2>2, <2>3 DEF WorkerInv, BatchInOrder
<1> QED
  BY <1>2, <1>4, <1>7, <1>8, <1>9

LEMMA LoseMarkKeepsInv ==
  ASSUME WorkerInv, LoseMark
  PROVE  WorkerInv'
<1>1. PICK id : id = Current.id
  OBVIOUS
<1>2. /\ cycle.step \in {"delivered", "rejected"} /\ Excuse /\ Proceed
      /\ UNCHANGED <<events, latest>>
  BY DEF LoseMark
<1>3. /\ cycle' \in Cycle /\ cycle'.step = "publish"
      /\ BatchOK' /\ OutcomeOK' /\ BatchInOrder'
  BY <1>1, <1>2, SameEvents, ExcuseIsNoted, ProceedKeepsBatch
<1>4. ShapeOK'
  BY <1>2, <1>3, ExcuseIsNoted DEF WorkerInv, ShapeOK
<1>5. DeliveriesAreMarked'
  BY <1>2, <1>3, ExcuseIsNoted DEF WorkerInv, DeliveriesAreMarked
<1> QED
  BY <1>2, <1>3, <1>4, <1>5, SameEvents DEF WorkerInv

\* The mark of the event at hand is written.
LEMMA MarkKeepsInv ==
  ASSUME WorkerInv, cycle.step \in {"delivered", "rejected"}, Proceed,
         NEW id, id = Current.id, NEW e \in Event, e.object = events[id].object,
         e.status # "pending",
         events' = [events EXCEPT ![id] = e], UNCHANGED <<latest, history>>,
         e.status = "published" => history.delivered[id] > 0,
         e.attempts > 0 => id \in history.refused,
         e.status = "published" \/ history.delivered[id] = 0 \/ id \in history.excused
  PROVE  WorkerInv'
<1>1. /\ ShapeOK /\ id \in DOMAIN events /\ DOMAIN events \subseteq Ids
      /\ DOMAIN events = 1 .. Len(events) /\ Len(events) \in Nat
  BY CurrentIsInBatch, EventDomain DEF WorkerInv, OutcomeOK
<1>2. /\ events' \in Seq(Event) /\ Len(events') = Len(events)
      /\ DOMAIN events' = DOMAIN events
      /\ events'[id] = e /\ \A n \in DOMAIN events \ {id} : events'[n] = events[n]
  BY <1>1 DEF ShapeOK
<1>3. \A n : Touched(n)' <=> Touched(n)
  BY DEF Touched
<1>4. \A n \in DOMAIN events : events'[n].object = events[n].object
  BY <1>2
<1>5. /\ cycle' \in Cycle /\ cycle'.step = "publish"
      /\ BatchOK' /\ OutcomeOK' /\ BatchInOrder' /\ Touched(id)
  BY <1>2, <1>3, <1>4, ProceedKeepsBatch
<1>6. ShapeOK'
  BY <1>1, <1>2, <1>5 DEF ShapeOK
<1>7. MarksAreTrue'
  BY <1>2 DEF WorkerInv, MarksAreTrue
<1>8. DeliveriesAreMarked'
  BY <1>1, <1>2, <1>5 DEF WorkerInv, DeliveriesAreMarked
<1>9. UntouchedIsPending'
  BY <1>2, <1>3, <1>5 DEF WorkerInv, UntouchedIsPending
<1>10. \A m, n : Backdated(m, n)' <=> Backdated(m, n)
  BY DEF Backdated
<1>11. LifeCyclesInTurn'
  BY <1>2, <1>4, <1>10 DEF WorkerInv, LifeCyclesInTurn, Precedes
<1>12. ObjectsInOrder'
  BY <1>2, <1>3, <1>4, <1>5, <1>10 DEF WorkerInv, ObjectsInOrder, Precedes
<1> QED
  BY <1>5, <1>6, <1>7, <1>8, <1>9, <1>11, <1>12 DEF WorkerInv

LEMMA MarkPublishedKeepsInv ==
  ASSUME WorkerInv, MarkPublished
  PROVE  WorkerInv'
<1>1. PICK id : id = Current.id
  OBVIOUS
<1>2. /\ cycle.step = "delivered" /\ Proceed /\ UNCHANGED <<latest, history>>
      /\ history.delivered[id] > 0
  BY <1>1 DEF MarkPublished, Outcome, WorkerInv, OutcomeOK
<1>3. /\ id \in DOMAIN events /\ events[id] \in Event
      /\ events[id].status # "published"
  BY <1>1, <1>2, CurrentIsInBatch, EventDomain DEF WorkerInv, OutcomeOK
<1> DEFINE e == [events[id] EXCEPT !.status = "published"]
<1>4. /\ e \in Event /\ e.status = "published" /\ e.object = events[id].object
      /\ e.attempts = events[id].attempts
  BY <1>3 DEF Event
<1>5. events' = [events EXCEPT ![id] = e]
  BY <1>1, <1>3 DEF MarkPublished, Waiting, Event
<1> HIDE DEF e
<1>6. e.attempts > 0 => id \in history.refused
  BY <1>3, <1>4 DEF WorkerInv, MarksAreTrue
<1> QED
  BY <1>1, <1>2, <1>4, <1>5, <1>6, MarkKeepsInv

\* What MarkRetry writes.
RetriedEvent(e, attempts, next) ==
  [e EXCEPT !.status = "retrying", !.attempts = attempts, !.next = next]

LEMMA RetriedEventIsTyped ==
  ASSUME NEW e \in Event, NEW attempts \in 0 .. MaxAttempts, NEW next \in Int
  PROVE  /\ RetriedEvent(e, attempts, next) \in Event
         /\ RetriedEvent(e, attempts, next).status = "retrying"
         /\ RetriedEvent(e, attempts, next).object = e.object
<1> DEFINE a == [e EXCEPT !.status = "retrying"]
           b == [a EXCEPT !.attempts = attempts]
           c == [b EXCEPT !.next = next]
<1>1. a \in Event /\ a.status = "retrying" /\ a.object = e.object
  BY DEF Event
<1>2. RetriedEvent(e, attempts, next) = c
  BY DEF RetriedEvent
<1> HIDE DEF a
<1>3. b \in Event /\ b.status = "retrying" /\ b.object = e.object
  BY <1>1 DEF Event
<1> HIDE DEF b
<1>4. c \in Event /\ c.status = "retrying" /\ c.object = e.object
  BY <1>3 DEF Event
<1> QED
  BY <1>2, <1>4

LEMMA MarkRetryKeepsInv ==
  ASSUME WorkerInv, MarkRetry
  PROVE  WorkerInv'
<1>1. PICK id, read : id = Current.id /\ read = Current.attempts
  OBVIOUS
<1>2. /\ cycle.step = "rejected" /\ Proceed /\ UNCHANGED <<latest, history>>
      /\ id \in history.refused
  BY <1>1 DEF MarkRetry, Outcome, WorkerInv, OutcomeOK
<1>3. /\ id \in DOMAIN events /\ id \in Ids /\ events[id] \in Event
      /\ events[id].status # "published" /\ read \in 0 .. MaxAttempts
  BY <1>1, <1>2, CurrentIsInBatch, EventDomain DEF WorkerInv, OutcomeOK, Entry
<1>4. Waiting(events[id])
  BY <1>3 DEF Waiting, Event
<1> DEFINE attempts == Smaller(read + 1, MaxAttempts)
<1>5. PICK late \in 0 .. MaxAge :
        events' = [events EXCEPT
          ![id] = RetriedEvent(events[id], attempts, RetryDelay(read + 1) - late)]
  BY <1>1, <1>3, <1>4, ZenonT(40) DEF MarkRetry, RetriedEvent
<1>6. attempts \in 0 .. MaxAttempts
  BY <1>3, ConstantsAssumption DEF Smaller
<1> DEFINE next == RetryDelay(read + 1) - late
<1>7. next \in Int
  <2>1. read + 1 \in Nat
    BY <1>3, ConstantsAssumption
  <2>2. RetryDelay(read + 1) \in Int
    BY <2>1, RetryDelayIsInt
  <2> QED
    BY <2>2, ConstantsAssumption
<1> HIDE DEF attempts, next
<1> DEFINE e == RetriedEvent(events[id], attempts, next)
<1>8. e \in Event /\ e.status = "retrying" /\ e.object = events[id].object
  BY <1>3, <1>6, <1>7, RetriedEventIsTyped
<1>9. events' = [events EXCEPT ![id] = e]
  BY <1>5 DEF next
<1> HIDE DEF e
<1>10. history.delivered[id] = 0 \/ id \in history.excused
  <2>1. history.delivered[id] \in 0 .. 2
    BY <1>3 DEF WorkerInv, ShapeOK, History
  <2> QED
    BY <1>2, <1>3, <2>1 DEF WorkerInv, DeliveriesAreMarked
<1> QED
  BY <1>1, <1>2, <1>8, <1>9, <1>10, MarkKeepsInv

-----------------------------------------------------------------------------
(* The writers of events, and the clock.                                   *)

\* The event that is appended is the last of its object, and due no earlier
\* than the others unless it is backdated to them.
LEMMA AppendTxKeepsInv ==
  ASSUME WorkerInv, NEW o \in Objects, NEW topic \in {"lifecycle", "other"},
         NEW created \in -MaxAge .. 0, AppendTx(o, topic, created),
         latest' \in [Objects -> -MaxAge .. 0],
         \A p \in Objects : latest[p] <= latest'[p],
         topic = "lifecycle" => latest[o] <= created /\ latest'[o] = created
  PROVE  WorkerInv'
<1> DEFINE e == [object |-> o, status |-> "pending", attempts |-> 0, next |-> created]
           last == Len(events) + 1
           dueLater == {m \in DOMAIN events : /\ events[m].object = o
                                             /\ events[m].status = "pending"
                                             /\ events[m].next > created}
           older == {<<m, last>> : m \in dueLater}
<1>1. /\ events' = Append(events, e)
      /\ history' = [history EXCEPT !.backdated = @ \cup older]
      /\ Topics[last] = topic
  BY DEF AppendTx
<1>2. /\ ShapeOK /\ Len(events) < MaxEvents /\ UNCHANGED cycle
      /\ Len(events) \in Nat /\ DOMAIN events = 1 .. Len(events)
      /\ DOMAIN events \subseteq Ids
      /\ \A n \in DOMAIN events : events[n] \in Event /\ n \in Nat
  BY EventDomain DEF AppendTx, WorkerInv
<1>3. created \in Int /\ \A p \in Objects : latest[p] \in Int /\ latest'[p] \in Int
  BY <1>2, ConstantsAssumption DEF ShapeOK
<1>4. e \in Event
  BY <1>3, ConstantsAssumption DEF Event
<1>5. /\ events' \in Seq(Event) /\ Len(events') = last /\ last <= MaxEvents
      /\ DOMAIN events' = DOMAIN events \cup {last} /\ last \notin DOMAIN events
      /\ events'[last] = e /\ \A n \in DOMAIN events : events'[n] = events[n]
      /\ last \in Ids /\ \A n \in DOMAIN events : n < last
  <2>1. events \in Seq(Event) /\ events' = Append(events, e)
    BY <1>1, <1>2 DEF ShapeOK
  <2>2. last <= MaxEvents /\ last \in Nat \ {0}
    BY <1>2, ConstantsAssumption
  <2> HIDE DEF e
  <2> QED
    BY <1>2, <1>4, <2>1, <2>2, ConstantsAssumption DEF Ids
<1>6. /\ e.object = o /\ e.status = "pending" /\ e.attempts = 0 /\ e.next = created
  OBVIOUS
<1>7. /\ \A m \in DOMAIN events : <<m, last>> \in older <=> m \in dueLater
      /\ \A m, n : <<m, n>> \in older => m \in DOMAIN events /\ n = last
      /\ older \subseteq Ids \X Ids
  BY <1>2, <1>5
<1>8. \A m \in DOMAIN events :
        m \in dueLater <=> /\ events[m].object = o
                           /\ events[m].status = "pending"
                           /\ events[m].next > created
  OBVIOUS
<1> HIDE DEF e, last, dueLater, older
<1>9. /\ history' \in History /\ history'.delivered = history.delivered
      /\ history'.refused = history.refused /\ history'.excused = history.excused
      /\ history'.backdated = history.backdated \cup older
  <2> DEFINE backdated == history.backdated \cup older
  <2>1. backdated \in SUBSET (Ids \X Ids)
    BY <1>2, <1>7 DEF ShapeOK, History
  <2>2. history' = [history EXCEPT !.backdated = backdated]
    BY <1>1
  <2> HIDE DEF backdated
  <2>3. /\ history' \in History /\ history'.delivered = history.delivered
        /\ history'.refused = history.refused /\ history'.excused = history.excused
        /\ history'.backdated = backdated
    BY <1>2, <2>1, <2>2 DEF ShapeOK, History
  <2> QED
    BY <2>3 DEF backdated
<1>10. /\ \A n : Touched(n)' <=> Touched(n)
       /\ ~Touched(last)
  <2>1. \A n : Touched(n)' <=> Touched(n)
    BY <1>9 DEF Touched
  <2>2. ~Touched(last)
    BY <1>5 DEF WorkerInv, UntouchedIsPending
  <2> QED
    BY <2>1, <2>2
<1>11. /\ \A m, n \in DOMAIN events : Backdated(m, n)' <=> Backdated(m, n)
       /\ \A m \in DOMAIN events : <<m, last>> \in history'.backdated <=> m \in dueLater
       /\ \A m, n : Backdated(m, n)' =>
            Backdated(m, n) \/ (m \in DOMAIN events /\ n = last)
  <2>1. \A m, n : Backdated(m, n)' <=> Backdated(m, n) \/ <<m, n>> \in older
    BY <1>9 DEF Backdated
  <2>2. \A m \in DOMAIN events : ~Backdated(m, last)
    BY <1>2, <1>5 DEF WorkerInv, LifeCyclesInTurn
  <2>3. \A m, n \in DOMAIN events : <<m, n>> \notin older
    <3>1. last \notin DOMAIN events
      BY <1>5 DEF Ids
    <3>2. \A m, n : <<m, n>> \in older => n = last
      BY <1>7
    <3> QED
      BY <3>1, <3>2
  <2>4. \A m, n \in DOMAIN events : Backdated(m, n)' <=> Backdated(m, n)
    BY <2>1, <2>3
  <2>5. \A m \in DOMAIN events : <<m, last>> \in history'.backdated <=> m \in dueLater
    BY <1>7, <1>9, <2>2 DEF Backdated
  <2>6. ASSUME NEW m, NEW n, Backdated(m, n)'
        PROVE  Backdated(m, n) \/ (m \in DOMAIN events /\ n = last)
    <3>1. CASE <<m, n>> \in older
      BY <1>7, <3>1
    <3> QED
      BY <2>1, <2>6, <3>1
  <2> QED
    BY <2>4, <2>5, <2>6
<1>12. ShapeOK'
  BY <1>2, <1>5, <1>9 DEF ShapeOK
<1>13. BatchOK' /\ OutcomeOK'
  BY <1>2, <1>5, <1>9 DEF WorkerInv, BatchOK, BatchIsCurrent, OutcomeOK, Current
<1>14. MarksAreTrue' /\ DeliveriesAreMarked'
  <2>1. MarksAreTrue'
    BY <1>5, <1>6, <1>9 DEF WorkerInv, MarksAreTrue
  <2>2. DeliveriesAreMarked'
    BY <1>2, <1>5, <1>9 DEF WorkerInv, DeliveriesAreMarked, Current
  <2> QED
    BY <2>1, <2>2
<1>15. UntouchedIsPending'
  BY <1>5, <1>6, <1>10 DEF WorkerInv, UntouchedIsPending
<1>16. ASSUME NEW m \in DOMAIN events', NEW n \in DOMAIN events', Precedes(m, n)'
       PROVE  /\ m \in DOMAIN events
              /\ n \in DOMAIN events => Precedes(m, n)
              /\ n = last => events[m].object = o
  <2>1. m < n /\ m # last
    BY <1>2, <1>5, <1>16 DEF Precedes, Ids
  <2> QED
    BY <1>5, <1>6, <1>16, <2>1 DEF Precedes
<1>17. LifeCyclesInTurn'
  <2>1. \A m, n \in Ids :
          Backdated(m, n)' => m \in DOMAIN events' /\ n \in DOMAIN events'
    BY <1>5, <1>11 DEF WorkerInv, LifeCyclesInTurn
  <2>2. ASSUME NEW n \in DOMAIN events', InTurn(n), events'[n].status = "pending"
        PROVE  events'[n].next <= latest'[events'[n].object]
    <3>1. CASE n = last
      BY <1>1, <1>3, <1>5, <1>6, <2>2, <3>1 DEF InTurn
    <3>2. CASE n \in DOMAIN events
      <4>1. /\ events'[n] = events[n] /\ events[n].object \in Objects
            /\ events[n].next \in Int
            /\ events[n].next <= latest[events[n].object]
        BY <1>2, <1>5, <2>2, <3>2 DEF WorkerInv, LifeCyclesInTurn, Event
      <4> QED
        BY <1>3, <4>1
    <3> QED
      BY <1>5, <3>1, <3>2
  <2>3. ASSUME NEW m \in DOMAIN events', NEW n \in DOMAIN events', Precedes(m, n)',
               InTurn(m), InTurn(n)
        PROVE  ~Backdated(m, n)'
    <3>1. m \in DOMAIN events
      BY <1>16, <2>3
    <3>2. CASE n \in DOMAIN events
      BY <1>11, <1>16, <2>3, <3>1, <3>2 DEF WorkerInv, LifeCyclesInTurn
    <3>3. CASE n = last
      <4>1. events[m].object = o /\ latest[o] <= created
        BY <1>1, <1>16, <2>3, <3>3 DEF InTurn
      <4>2. events[m].status = "pending" => events[m].next <= latest[o]
        BY <2>3, <3>1, <4>1 DEF WorkerInv, LifeCyclesInTurn
      <4>3. events[m].next \in Int
        BY <1>2, <3>1 DEF Event
      <4>4. m \notin dueLater
        BY <1>3, <1>8, <3>1, <4>1, <4>2, <4>3
      <4>5. <<m, last>> \notin history'.backdated
        BY <1>11, <3>1, <4>4
      <4> QED
        BY <3>3, <4>5 DEF Backdated
    <3> QED
      BY <1>5, <3>2, <3>3
  <2> QED
    BY <2>1, <2>2, <2>3 DEF LifeCyclesInTurn, InTurn
<1>18. ObjectsInOrder'
  <2>1. ASSUME NEW m \in DOMAIN events', NEW n \in DOMAIN events', Precedes(m, n)',
               ~Backdated(m, n)'
        PROVE  /\ Touched(n) => Touched(m)
               /\ ~Touched(m) /\ ~Touched(n) => events'[m].next <= events'[n].next
    <3>1. m \in DOMAIN events
      BY <1>16, <2>1
    <3>2. CASE n \in DOMAIN events
      BY <1>5, <1>11, <1>16, <2>1, <3>1, <3>2 DEF WorkerInv, ObjectsInOrder
    <3>3. CASE n = last
      <4>0. <<m, last>> \notin history'.backdated
        BY <2>1, <3>3 DEF Backdated
      <4>1. m \notin dueLater /\ events[m].object = o /\ events[m].next \in Int
        <5>1. m \notin dueLater
          BY <1>11, <3>1, <4>0
        <5>2. events[m].object = o
          BY <1>16, <2>1, <3>3
        <5>3. events[m].next \in Int
          BY <1>2, <3>1 DEF Event
        <5> QED
          BY <5>1, <5>2, <5>3
      <4>2. ~Touched(m) => events[m].status = "pending"
        BY <3>1 DEF WorkerInv, UntouchedIsPending
      <4>3. ~Touched(m) => events[m].next <= created
        BY <1>3, <1>8, <3>1, <4>1, <4>2
      <4> QED
        BY <1>5, <1>6, <1>10, <3>1, <3>3, <4>3
    <3> QED
      BY <1>5, <3>2, <3>3
  <2> QED
    BY <1>10, <2>1 DEF ObjectsInOrder
<1>19. BatchInOrder'
  <2>1. \A n : InBatch(n)' <=> InBatch(n)
    BY <1>2 DEF InBatch
  <2>2. \A n : InBatch(n) => n \in DOMAIN events
    BY DEF WorkerInv, BatchOK, InBatch
  <2>3. ASSUME NEW m \in DOMAIN events', NEW n \in DOMAIN events', Precedes(m, n)',
               ~Backdated(m, n)', InBatch(n)
        PROVE  Touched(m) \/ InBatch(m)
    <3>1. m \in DOMAIN events /\ n \in DOMAIN events /\ Precedes(m, n)
      BY <1>16, <2>2, <2>3
    <3>2. ~Backdated(m, n)
      BY <1>11, <2>3, <3>1
    <3> QED
      BY <2>3, <3>1, <3>2 DEF WorkerInv, BatchInOrder
  <2> QED
    BY <1>10, <2>1, <2>3 DEF BatchInOrder
<1> QED
  BY <1>12, <1>13, <1>14, <1>15, <1>17, <1>18, <1>19 DEF WorkerInv

LEMMA AppendInTurnKeepsInv ==
  ASSUME WorkerInv, NEW o \in Objects, AppendInTurn(o)
  PROVE  WorkerInv'
<1>1. PICK created \in latest[o] .. 0 :
        /\ AppendTx(o, "lifecycle", created)
        /\ latest' = [latest EXCEPT ![o] = created]
  BY DEF AppendInTurn, ReadAfterRow
<1>2. latest \in [Objects -> -MaxAge .. 0]
  BY DEF WorkerInv, ShapeOK
<1>3. created \in -MaxAge .. 0 /\ latest[o] <= created
  BY <1>2, ConstantsAssumption
<1>4. /\ latest' \in [Objects -> -MaxAge .. 0] /\ latest'[o] = created
      /\ \A p \in Objects : latest[p] <= latest'[p]
  BY <1>1, <1>2, <1>3, ConstantsAssumption
<1> QED
  BY <1>1, <1>3, <1>4, AppendTxKeepsInv

LEMMA AppendAnyTimeKeepsInv ==
  ASSUME WorkerInv, NEW o \in Objects, AppendAnyTime(o)
  PROVE  WorkerInv'
<1>1. PICK created \in -MaxAge .. 0 : AppendTx(o, "other", created)
  BY DEF AppendAnyTime
<1>2. /\ latest' \in [Objects -> -MaxAge .. 0]
      /\ \A p \in Objects : latest[p] <= latest'[p]
  BY ConstantsAssumption DEF AppendAnyTime, WorkerInv, ShapeOK
<1> QED
  BY <1>1, <1>2, AppendTxKeepsInv

LEMMA TickKeepsInv ==
  ASSUME WorkerInv, Tick
  PROVE  WorkerInv'
<1>1. /\ ShapeOK /\ UNCHANGED history
      /\ Len(events) \in Nat /\ DOMAIN events = 1 .. Len(events)
      /\ \A n \in DOMAIN events : events[n] \in Event /\ n \in Nat
  BY EventDomain DEF WorkerInv, Tick
<1>2. ASSUME NEW n \in DOMAIN events
      PROVE  /\ events'[n] \in Event
             /\ events'[n].object = events[n].object
             /\ events'[n].status = events[n].status
             /\ events'[n].attempts = events[n].attempts
             /\ events'[n].next = Earlier(events[n].next)
             /\ events[n].next \in Int /\ events[n].object \in Objects
  <2> DEFINE next == Earlier(events[n].next)
  <2>1. events[n] \in Event /\ events[n].next \in Int /\ events[n].object \in Objects
    BY <1>1 DEF Event
  <2>2. next \in Int
    BY <2>1, EarlierIsMonotone
  <2>3. events'[n] = [events[n] EXCEPT !.next = next]
    BY DEF Tick
  <2> HIDE DEF next
  <2>4. /\ events'[n] \in Event /\ events'[n].object = events[n].object
        /\ events'[n].status = events[n].status
        /\ events'[n].attempts = events[n].attempts /\ events'[n].next = next
    BY <2>1, <2>2, <2>3 DEF Event
  <2> QED
    BY <2>1, <2>4 DEF next
<1>3. /\ events' \in Seq(Event) /\ Len(events') = Len(events)
      /\ DOMAIN events' = DOMAIN events
  <2>1. events' = [n \in 1 .. Len(events) |-> events'[n]]
    BY <1>1 DEF Tick
  <2>2. \A n \in 1 .. Len(events) : events'[n] \in Event
    BY <1>1, <1>2
  <2> QED
    BY <1>1, <2>1, <2>2
<1>4. /\ latest \in [Objects -> -MaxAge .. 0] /\ latest' \in [Objects -> -MaxAge .. 0]
      /\ \A o \in Objects : latest'[o] = Earlier(latest[o]) /\ latest[o] \in Int
  <2>1. \A o \in Objects : latest[o] \in -MaxAge .. 0 /\ latest[o] \in Int
    BY <1>1, ConstantsAssumption DEF ShapeOK
  <2>2. latest' = [o \in Objects |-> Earlier(latest[o])]
    BY DEF Tick
  <2> QED
    BY <1>1, <2>1, <2>2, EarlierIsMonotone DEF ShapeOK
<1>5. /\ cycle' \in Cycle /\ cycle'.step = cycle.step /\ cycle'.batch = cycle.batch
  <2>1. cycle \in Cycle
    BY <1>1 DEF ShapeOK
  <2>2. CASE cycle.step # "due"
    BY <2>1, <2>2 DEF Tick
  <2>3. CASE cycle.step = "due"
    <3> DEFINE age == cycle.age + 1
    <3>1. age \in 0 .. MaxAge
      <4>1. cycle.age \in 0 .. MaxAge /\ cycle.age < MaxAge
        BY <2>1, <2>3 DEF Tick, Cycle
      <4> QED
        BY <4>1, ConstantsAssumption
    <3>2. cycle' = [cycle EXCEPT !.age = age]
      BY <2>3 DEF Tick
    <3> HIDE DEF age
    <3> QED
      BY <2>1, <3>1, <3>2 DEF Cycle
  <2> QED
    BY <2>2, <2>3
<1>6. \A n : Touched(n)' <=> Touched(n)
  BY <1>1 DEF Touched
<1>7. ShapeOK'
  BY <1>1, <1>3, <1>4, <1>5 DEF ShapeOK
<1>8. BatchOK' /\ OutcomeOK' /\ BatchInOrder'
  <2>1. BatchOK'
    BY <1>2, <1>3, <1>5 DEF WorkerInv, BatchOK, BatchIsCurrent
  <2>2. OutcomeOK'
    BY <1>1, <1>5 DEF WorkerInv, OutcomeOK, Current
  <2>3. BatchInOrder'
    BY <1>1, <1>2, <1>3, <1>5, <1>6
    DEF WorkerInv, BatchInOrder, InBatch, Precedes, Backdated
  <2> QED
    BY <2>1, <2>2, <2>3
<1>9. MarksAreTrue' /\ DeliveriesAreMarked'
  <2>1. MarksAreTrue'
    BY <1>1, <1>2, <1>3 DEF WorkerInv, MarksAreTrue
  <2>2. DeliveriesAreMarked'
    BY <1>1, <1>2, <1>3, <1>5 DEF WorkerInv, DeliveriesAreMarked, Current
  <2> QED
    BY <2>1, <2>2
<1>10. UntouchedIsPending'
  BY <1>2, <1>3, <1>6 DEF WorkerInv, UntouchedIsPending
<1>11. \A m, n : Backdated(m, n)' <=> Backdated(m, n)
  BY <1>1 DEF Backdated
<1>12. LifeCyclesInTurn'
  <2>1. \A m, n \in Ids :
          Backdated(m, n)' => m \in DOMAIN events' /\ n \in DOMAIN events'
    BY <1>3, <1>11 DEF WorkerInv, LifeCyclesInTurn
  <2>2. ASSUME NEW n \in DOMAIN events, InTurn(n), events'[n].status = "pending"
        PROVE  events'[n].next <= latest'[events'[n].object]
    <3>1. events[n].next <= latest[events[n].object]
      BY <1>2, <2>2 DEF WorkerInv, LifeCyclesInTurn
    <3>2. Earlier(events[n].next) <= Earlier(latest[events[n].object])
      BY <1>2, <1>4, <3>1, EarlierIsMonotone
    <3> QED
      BY <1>2, <1>4, <3>2
  <2>3. \A m, n \in DOMAIN events :
          Precedes(m, n)' /\ InTurn(m) /\ InTurn(n) => ~Backdated(m, n)'
    BY <1>2, <1>11 DEF WorkerInv, LifeCyclesInTurn, Precedes
  <2> QED
    BY <1>3, <2>1, <2>2, <2>3 DEF LifeCyclesInTurn, InTurn
<1>13. ObjectsInOrder'
  <2>1. \A m, n \in DOMAIN events : Precedes(m, n)' <=> Precedes(m, n)
    BY <1>2 DEF Precedes
  <2>2. \A m, n \in DOMAIN events :
          events[m].next <= events[n].next => events'[m].next <= events'[n].next
    BY <1>2, EarlierIsMonotone
  <2> QED
    BY <1>3, <1>6, <1>11, <2>1, <2>2 DEF WorkerInv, ObjectsInOrder
<1> QED
  BY <1>7, <1>8, <1>9, <1>10, <1>12, <1>13 DEF WorkerInv

-----------------------------------------------------------------------------
(* The invariant, and what follows from it.                                *)

LEMMA InitOK == Init => WorkerInv
<1> SUFFICES ASSUME Init
             PROVE  WorkerInv
  OBVIOUS
<1>1. /\ events = <<>> /\ cycle = Idle
      /\ history = [delivered |-> [n \in Ids |-> 0], refused |-> {}, excused |-> {},
                    backdated |-> {}]
      /\ latest = [o \in Objects |-> -MaxAge]
  BY DEF Init
<1>2. ShapeOK
  BY <1>1, IdIsNat, ConstantsAssumption DEF ShapeOK, History
<1>3. BatchOK /\ OutcomeOK /\ BatchInOrder
  BY <1>1, IdIsNat
  DEF BatchOK, BatchIsCurrent, OutcomeOK, BatchInOrder, InBatch
<1>4. /\ MarksAreTrue /\ DeliveriesAreMarked /\ UntouchedIsPending
      /\ LifeCyclesInTurn /\ ObjectsInOrder
  BY <1>1
  DEF MarksAreTrue, DeliveriesAreMarked, UntouchedIsPending, LifeCyclesInTurn,
      Backdated, ObjectsInOrder, Touched
<1> QED
  BY <1>2, <1>3, <1>4 DEF WorkerInv

LEMMA NextKeepsInv == WorkerInv /\ [Next]_vars => WorkerInv'
<1> SUFFICES ASSUME WorkerInv, [Next]_vars
             PROVE  WorkerInv'
  OBVIOUS
<1>1. CASE UNCHANGED vars
  BY <1>1
  DEF vars, WorkerInv, ShapeOK, BatchOK, BatchIsCurrent, OutcomeOK, Current,
      MarksAreTrue, DeliveriesAreMarked, UntouchedIsPending, Touched,
      LifeCyclesInTurn, Backdated, ObjectsInOrder, Precedes, BatchInOrder, InBatch
<1>2. CASE WorkerStep
  BY <1>2, StartCycleKeepsInv, LoadDueKeepsInv, IdlingKeepsInv, DeliverKeepsInv,
     MarkPublishedKeepsInv, MarkRetryKeepsInv
  DEF WorkerStep
<1> QED
  BY <1>1, <1>2, AppendInTurnKeepsInv, AppendAnyTimeKeepsInv, RejectKeepsInv,
     IdlingKeepsInv, LoseMarkKeepsInv, TickKeepsInv
  DEF Next

LEMMA InvariantHolds == Spec => []WorkerInv
BY InitOK, NextKeepsInv, PTL DEF Spec

(***************************************************************************)
(* The state keeps its shape, and the batch is never stale: whatever is    *)
(* appended, and however long it takes, no event of the batch has been     *)
(* published, and each counts the attempts the worker read.                *)
(***************************************************************************)
THEOREM TypeCorrect == Spec => []TypeOK
<1>1. WorkerInv => TypeOK
  <2> SUFFICES ASSUME WorkerInv
               PROVE  TypeOK
    OBVIOUS
  <2>1. /\ ShapeOK /\ BatchOK /\ BatchIsCurrent
        /\ cycle.step \in {"delivered", "rejected"} => cycle.batch # <<>>
    BY DEF WorkerInv, BatchOK, OutcomeOK
  <2>2. cycle.batch \in Seq([id : DOMAIN events, attempts : 0 .. MaxAttempts])
    <3> DEFINE Fresh == [id : DOMAIN events, attempts : 0 .. MaxAttempts]
    <3>1. /\ cycle.batch \in Seq(Entry)
          /\ \A k \in DOMAIN cycle.batch : cycle.batch[k] \in Entry
      BY <2>1, EventDomain
    <3>2. \A k \in DOMAIN cycle.batch : cycle.batch[k] \in Fresh
      BY <2>1, <3>1 DEF BatchOK, Entry
    <3> HIDE DEF Fresh
    <3>3. cycle.batch \in Seq(Fresh)
      BY <3>1, <3>2
    <3> QED
      BY <3>3 DEF Fresh
  <2> QED
    BY <2>1, <2>2 DEF TypeOK, ShapeOK, Event, Cycle, History
<1> QED
  BY <1>1, InvariantHolds, PTL

(***************************************************************************)
(* An event is published only if the publisher took it, and counts         *)
(* attempts only if the publisher refused it.                              *)
(***************************************************************************)
THEOREM MarksTellTheTruth == Spec => []MarksAreTrue
<1>1. WorkerInv => MarksAreTrue
  BY DEF WorkerInv
<1> QED
  BY <1>1, InvariantHolds, PTL

(***************************************************************************)
(* An event is delivered twice only if a crash or a failing statement lost *)
(* the mark of a delivery.                                                 *)
(***************************************************************************)
THEOREM DeliveredOnce == Spec => []DeliveredOnceUnlessMarkLost
<1>1. WorkerInv => DeliveredOnceUnlessMarkLost
  BY DEF WorkerInv, DeliveriesAreMarked, DeliveredOnceUnlessMarkLost
<1> QED
  BY <1>1, InvariantHolds, PTL

(***************************************************************************)
(* An event overtakes an earlier one of its object that the publisher has  *)
(* not seen only if its writer had read the clock before the other's; the  *)
(* events of one life cycle reach the publisher in order.                  *)
(***************************************************************************)
THEOREM OvertakesAreExplained == Spec => []OvertakesHaveReasons
<1>1. WorkerInv => OvertakesHaveReasons
  <2> SUFFICES ASSUME WorkerInv, NEW m \in DOMAIN events, NEW n \in DOMAIN events,
                      m < n, events[m].object = events[n].object,
                      history.delivered[n] > 0, Unseen(m)
               PROVE  /\ <<m, n>> \in history.backdated
                      /\ "other" \in {Topics[m], Topics[n]}
    BY DEF OvertakesHaveReasons
  <2>1. m \in Ids /\ n \in Ids /\ history.delivered[m] \in 0 .. 2
    BY EventDomain DEF WorkerInv, ShapeOK, History
  <2>2. Precedes(m, n) /\ Touched(n) /\ ~Touched(m)
    BY <2>1 DEF Precedes, Touched, Unseen
  <2>3. Backdated(m, n)
    BY <2>2 DEF WorkerInv, ObjectsInOrder
  <2>4. ~InTurn(m) \/ ~InTurn(n)
    BY <2>2, <2>3 DEF WorkerInv, LifeCyclesInTurn
  <2>5. Topics[m] \in {"lifecycle", "other"} /\ Topics[n] \in {"lifecycle", "other"}
    BY <2>1, ConstantsAssumption DEF Ids
  <2> QED
    BY <2>3, <2>4, <2>5 DEF Backdated, InTurn
<1> QED
  BY <1>1, InvariantHolds, PTL

=============================================================================
