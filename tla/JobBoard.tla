------------------------------ MODULE JobBoard ------------------------------
(***************************************************************************)
(* What the job queue promises.  A job is held by one worker at a time; as *)
(* long as its lease has not lapsed nobody but its holder moves it; every  *)
(* failure its holder reports counts against its limit; and a job that has *)
(* ended stays ended.  There are no clocks, cycles or handlers here.       *)
(***************************************************************************)
EXTENDS Integers

CONSTANTS Jobs, Workers, Limits, Nobody

VARIABLES
  board,   \* [Jobs -> [status, attempts, max, holder]]
  lapsed   \* held jobs whose lease is over

boardVars == <<board, lapsed>>

Unposted == [status |-> "none", attempts |-> 0, max |-> 0, holder |-> Nobody]

Waiting(j) == board[j].status \in {"pending", "retrying"}

HeldBy(j, w) == board[j].status = "running" /\ board[j].holder = w

-----------------------------------------------------------------------------
Init ==
  /\ board = [j \in Jobs |-> Unposted]
  /\ lapsed = {}

Post(j, max) ==
  /\ board[j] = Unposted
  /\ board' = [board EXCEPT ![j].status = "pending", ![j].max = max]
  /\ UNCHANGED lapsed

Withdraw(j) ==
  /\ Waiting(j)
  /\ board' = [board EXCEPT ![j].status = "canceled"]
  /\ UNCHANGED lapsed

\* A worker takes some jobs, with a lease that may be over at once.
Take(taken, w) ==
  /\ \A j \in taken : Waiting(j) \/ j \in lapsed
  /\ board' = [j \in Jobs |->
       IF j \in taken
       THEN [board[j] EXCEPT !.status = "running", !.holder = w]
       ELSE board[j]]
  /\ lapsed' \in {lapsed \ taken, lapsed \cup taken}

Lapse(over) ==
  /\ \A j \in over : board[j].status = "running"
  /\ lapsed' = lapsed \cup over
  /\ UNCHANGED board

\* Lapsed jobs go back to the queue; that is no attempt.
Return(back) ==
  /\ back \subseteq lapsed
  /\ board' = [j \in Jobs |->
       IF j \in back
       THEN [board[j] EXCEPT !.status = "retrying", !.holder = Nobody]
       ELSE board[j]]
  /\ lapsed' = lapsed \ back

Finish(j, w) ==
  /\ HeldBy(j, w)
  /\ board' = [board EXCEPT ![j].status = "completed", ![j].holder = Nobody]
  /\ lapsed' = lapsed \ {j}

\* The last attempt the limit allows fails the job for good.
Fail(j, w) ==
  /\ HeldBy(j, w)
  /\ board[j].attempts < board[j].max
  /\ LET attempts == board[j].attempts + 1
     IN  board' = [board EXCEPT
           ![j].status = IF attempts = board[j].max THEN "failed" ELSE "retrying",
           ![j].attempts = attempts,
           ![j].holder = Nobody]
  /\ lapsed' = lapsed \ {j}

Next ==
  \/ \E j \in Jobs, max \in Limits : Post(j, max)
  \/ \E j \in Jobs : Withdraw(j)
  \/ \E taken \in SUBSET Jobs, w \in Workers : Take(taken, w)
  \/ \E over \in SUBSET Jobs : Lapse(over)
  \/ \E back \in SUBSET Jobs : Return(back)
  \/ \E j \in Jobs, w \in Workers : Finish(j, w) \/ Fail(j, w)

Spec == Init /\ [][Next]_boardVars

=============================================================================
