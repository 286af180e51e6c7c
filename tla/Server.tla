------------------------------- MODULE Server -------------------------------
(***************************************************************************)
(* The process and its requests: requests arrive while it serves or still  *)
(* has connections, are lost when it ends, and meet a closed database when *)
(* it ends without them; a start inserts the users again.                  *)
(***************************************************************************)
EXTENDS Sessions, ServerLifecycle

ASSUME ServerAssumption == Users = {UserNames[n] : n \in DOMAIN UserNames}

vars == <<sessionVars, lifecycleVars>>

-----------------------------------------------------------------------------
\* app.New and the first lines of main.
Startup ==
  \/ (Boot \/ StartServing \/ StatementRefused \/ StatementCanceled)
       /\ UNCHANGED sessionVars
  \/ \E s \in Statements :
       /\ RunStatement(s)
       /\ IF s.kind = "user" THEN SeedUser(s.object, boots)
                             ELSE UNCHANGED sessionVars

\* Connections accepted before the listener closed may bring a request until
\* Shutdown has seen them all idle, or for good if it gave up on them.
Accepts == phase \in {"serving", "draining"} \/ late

Arrive(c) == Accepts /\ (StartLogin(c) \/ StartUse(c))

Handle(c) ==
  \/ dbOpen /\ (FindUser(c) \/ SaveSession(c) \/ Authenticate(c) \/ Logout(c))
  \/ DoWork(c)
  \/ ConfirmLogout(c)
  \/ DatabaseFault(c)

Requests ==
  \E c \in Calls : (Arrive(c) \/ Handle(c)) /\ UNCHANGED lifecycleVars

Runner ==
  RunnerClaims /\ UNCHANGED sessionVars

RunnerGoesOn ==
  (RunnerStartsHandler \/ RunnerEnds) /\ UNCHANGED sessionVars

Handlers == HandlerReturns /\ UNCHANGED sessionVars

\* main, from the signal to its return.
Main ==
  \/ /\ \/ stopping /\ BeginShutdown
        \/ EndDraining(InFlight = {})
        \/ WorkerWaited
        \/ RunnerWaited
     /\ UNCHANGED sessionVars
  \/ Exit /\ LoseRequests

Outside ==
  \/ (StopRequested \/ StatementFaults \/ BeginShutdown) /\ UNCHANGED sessionVars
  \/ (Tick \/ \E u \in Users : DisableUser(u)) /\ UNCHANGED lifecycleVars
  \/ Crash /\ LoseRequests

Init == SessionsInit /\ LifecycleInit

Next ==
  \/ Startup
  \/ Requests
  \/ Runner
  \/ RunnerGoesOn
  \/ Handlers
  \/ Main
  \/ Outside

(***************************************************************************)
(* main and the goroutines run; a handler of a job returns (the one in the *)
(* source does at once); the deadline passes.  Nothing is assumed of the   *)
(* requests, which may hang until the deadline and beyond.                 *)
(***************************************************************************)
Fairness ==
  /\ WF_vars(Startup \/ Main)
  /\ WF_vars(RunnerGoesOn)
  /\ WF_vars(Handlers)

Spec == Init /\ [][Next]_vars /\ Fairness

-----------------------------------------------------------------------------
(* Properties.                                                             *)

\* Only a process that serves or shuts down has requests and goroutines.
NothingRunsBeforeServing ==
  phase \in {"off", "starting"} =>
    InFlight = {} /\ loops = {} /\ inHand = 0 /\ handlers = 0

(***************************************************************************)
(* The shape of the state; nothing runs in a process that does not serve.  *)
(***************************************************************************)
TypeOK ==
  /\ SessionsTypeOK
  /\ LifecycleTypeOK
  /\ NothingRunsBeforeServing

(***************************************************************************)
(* The database is closed under nobody: the worker, the runner and every   *)
(* handler of a job have ended before, and a request is abandoned only     *)
(* after the deadline of the shutdown has passed.                          *)
(***************************************************************************)
CloseIsOrderly ==
  phase = "exiting" =>
    /\ loops = {}
    /\ inHand = 0
    /\ handlers = 0
    /\ InFlight # {} => late

(***************************************************************************)
(* A process that is asked to stop ends, whatever its requests do.         *)
(***************************************************************************)
ShutdownCompletes == stopping ~> phase = "off"

=============================================================================
