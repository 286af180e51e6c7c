-------------------------- MODULE ServerLifecycle ---------------------------
(***************************************************************************)
(* The life of the process: app.New opens the database and runs a script   *)
(* of statements, each of which commits by itself, so that the process may *)
(* die between any two of them; main starts the worker, the runner and the *)
(* listener, waits for a signal, and takes everything down in order.       *)
(***************************************************************************)
EXTENDS Naturals, Sequences, FiniteSets

CONSTANTS
  UserNames,  \* the users that SeedUsers inserts, in order
  Slots,      \* job handlers at the same time
  Batch,      \* jobs claimed in one cycle
  MaxBoots    \* bound: how often the process is started

ASSUME LifecycleAssumption ==
  /\ UserNames \in Seq(STRING)
  /\ Slots \in Nat \ {0}
  /\ Batch \in Nat \ {0}
  /\ MaxBoots \in Nat

VARIABLES
  phase,     \* where main is
  step,      \* the statement of the script that is next
  disk,      \* what the script has made so far, in every boot
  boots,     \* how often the process was started
  refused,   \* the schema on the disk refused a statement of a start
  stopping,  \* a signal has come, or the listener has failed
  late,      \* the deadline of the shutdown ended the wait for requests
  canceled,  \* the context of the worker and the runner
  loops,     \* the polling goroutines that are alive
  inHand,    \* jobs the runner has claimed and not yet started
  handlers,  \* handlers at work
  dbOpen     \* the connection pool

lifecycleVars == <<phase, step, disk, boots, refused, stopping, late, canceled,
                   loops, inHand, handlers, dbOpen>>

background == <<canceled, loops, inHand, handlers>>

-----------------------------------------------------------------------------
(* The script.                                                             *)

Statement(kind, object, needs) == [kind |-> kind, object |-> object, needs |-> needs]

\* CREATE TABLE or INDEX IF NOT EXISTS
Create(object) == Statement("create", object, {})

\* ALTER TABLE ADD COLUMN, which fails when the column is there.
AddColumn(column) == Statement("alter", column, {"business tables"})

\* INSERT OR IGNORE
Insert(table, object) == Statement("insert", object, {table})

\* The tables of the services, the catalogue, the queue and the outbox are one.
MigrationV1 ==
  <<Create("schema_migrations"), Create("users"), Create("sessions"),
    Create("business tables"), Insert("schema_migrations", "version 1")>>

ExtensionMigration ==
  <<Create("maintenance_tasks"),
    AddColumn("inspections.priority"),
    AddColumn("transfer_plans.segment_count"),
    AddColumn("sorting_waves.profile"),
    AddColumn("sorting_waves.closes_at"),
    AddColumn("incidents.risk_score")>>

SeedUsers == [n \in DOMAIN UserNames |-> Statement("user", UserNames[n], {"users"})]

SeedHubs == <<Insert("business tables", "seeded hubs")>>

EnsureSchema == <<Create("runtime flow tables")>>

\* platformdb.Open, SeedUsers, catalog.Seed and EnsureSchema, in app.New's order.
Script == MigrationV1 \o ExtensionMigration \o SeedUsers \o SeedHubs \o EnsureSchema

Statements == {Script[n] : n \in DOMAIN Script}

Objects == {s.object : s \in Statements}

\* A bug to detect: migrateExtensions reports duplicate columns.
NothingTolerated(s) == FALSE

\* containsDuplicateColumn
Tolerated(s) == s.kind = "alter" /\ s.needs \subseteq disk

\* What SQLite says to the statement.
Fails(s) ==
  \/ ~(s.needs \subseteq disk)
  \/ s.kind = "alter" /\ s.object \in disk

-----------------------------------------------------------------------------
(* Startup.                                                                *)

Boot ==
  /\ phase = "off"
  /\ boots < MaxBoots
  /\ phase' = "starting"
  /\ step' = 1
  /\ boots' = boots + 1
  /\ dbOpen' = TRUE
  /\ UNCHANGED <<disk, refused, stopping, late, background>>

Running(s) == phase = "starting" /\ step <= Len(Script) /\ s = Script[step]

RunStatement(s) ==
  /\ Running(s)
  /\ ~stopping
  /\ Fails(s) => Tolerated(s)
  /\ disk' = disk \cup {s.object}
  /\ step' = step + 1
  /\ UNCHANGED <<phase, boots, refused, stopping, late, background, dbOpen>>

StartServing ==
  /\ phase = "starting"
  /\ step > Len(Script)
  /\ phase' = "serving"
  /\ loops' = {"worker", "runner"}
  /\ UNCHANGED <<step, disk, boots, refused, stopping, late, canceled, inHand,
                 handlers, dbOpen>>

\* The process is gone, and with it everything but the database.
Gone(unfit) ==
  /\ phase' = "off"
  /\ step' = 1
  /\ refused' = (refused \/ unfit)
  /\ stopping' = FALSE
  /\ late' = FALSE
  /\ canceled' = FALSE
  /\ loops' = {}
  /\ inHand' = 0
  /\ handlers' = 0
  /\ dbOpen' = FALSE
  /\ UNCHANGED <<disk, boots>>

\* The statement is refused by the schema: os.Exit(1).
StatementRefused ==
  \E s \in Statements :
    /\ Running(s)
    /\ Fails(s)
    /\ ~Tolerated(s)
    /\ Gone(TRUE)

\* A signal canceled the context of the statements: os.Exit(1).
StatementCanceled ==
  /\ phase = "starting"
  /\ step <= Len(Script)
  /\ stopping
  /\ Gone(FALSE)

\* The disk fails, or another process holds the lock: os.Exit(1).
StatementFaults ==
  /\ phase = "starting"
  /\ step <= Len(Script)
  /\ Gone(FALSE)

-----------------------------------------------------------------------------
(* The worker, the runner and its handlers.                                *)

\* Claim; with a canceled context no statement succeeds.
RunnerClaims ==
  /\ "runner" \in loops
  /\ ~canceled
  /\ inHand = 0
  /\ inHand' \in 1 .. Batch
  /\ UNCHANGED <<phase, step, disk, boots, refused, stopping, late, canceled,
                 loops, handlers, dbOpen>>

\* A bug to detect: the cycle starts handlers without a slot.
RunnerStartsAll ==
  /\ inHand > 0
  /\ inHand' = inHand - 1
  /\ handlers' = handlers + 1
  /\ UNCHANGED <<phase, step, disk, boots, refused, stopping, late, canceled,
                 loops, dbOpen>>

\* The cycle goes on to its end when the context is canceled meanwhile.  A job
\* that is being processed already is passed over.
RunnerStartsHandler ==
  /\ inHand > 0
  /\ inHand' = inHand - 1
  /\ \/ handlers < Slots /\ handlers' = handlers + 1
     \/ handlers > 0 /\ UNCHANGED handlers
  /\ UNCHANGED <<phase, step, disk, boots, refused, stopping, late, canceled,
                 loops, dbOpen>>

HandlerReturns ==
  /\ handlers > 0
  /\ handlers' = handlers - 1
  /\ UNCHANGED <<phase, step, disk, boots, refused, stopping, late, canceled,
                 loops, inHand, dbOpen>>

\* Between two cycles the loop sees that it is canceled.
RunnerEnds ==
  /\ "runner" \in loops
  /\ canceled
  /\ inHand = 0
  /\ loops' = loops \ {"runner"}
  /\ UNCHANGED <<phase, step, disk, boots, refused, stopping, late, canceled,
                 inHand, handlers, dbOpen>>

-----------------------------------------------------------------------------
(* Shutdown.                                                               *)

Move(from, to) == phase = from /\ phase' = to

\* A signal during startup; a signal that comes later is BeginShutdown's.
StopRequested ==
  /\ phase = "starting"
  /\ ~stopping
  /\ stopping' = TRUE
  /\ UNCHANGED <<phase, step, disk, boots, refused, late, background, dbOpen>>

\* A signal, now or during startup, or the failure of the listener:
\* server.Shutdown closes the listener and begins to wait.
BeginShutdown ==
  /\ Move("serving", "draining")
  /\ stopping' = TRUE
  /\ UNCHANGED <<step, disk, boots, refused, late, background, dbOpen>>

\* A bug to detect: main forgets cancelWorker.
EndDrainingUncanceled(quiet) ==
  /\ Move("draining", "waitWorker")
  /\ late' = ~quiet
  /\ UNCHANGED <<step, disk, boots, refused, stopping, background, dbOpen>>

\* Shutdown returns when no request is in flight, or else when its deadline
\* has passed; cancelWorker follows at once.
EndDraining(quiet) ==
  /\ Move("draining", "waitWorker")
  /\ late' = ~quiet
  /\ canceled' = TRUE
  /\ UNCHANGED <<step, disk, boots, refused, stopping, loops, inHand, handlers,
                 dbOpen>>

\* The worker sees between two events that it is canceled; Worker.Wait returns.
WorkerWaited ==
  /\ Move("waitWorker", "waitRunner")
  /\ canceled
  /\ loops' = loops \ {"worker"}
  /\ UNCHANGED <<step, disk, boots, refused, stopping, late, canceled, inHand,
                 handlers, dbOpen>>

\* A bug to detect: the runner's wait group counts the loop and no handler.
LoopWaitedOnly ==
  /\ Move("waitRunner", "exiting")
  /\ "runner" \notin loops
  /\ dbOpen' = FALSE
  /\ UNCHANGED <<step, disk, boots, refused, stopping, late, background>>

\* JobRunner.Wait returns: the loop and the handlers share one wait group.
\* The deferred application.Close follows.
RunnerWaited ==
  /\ Move("waitRunner", "exiting")
  /\ "runner" \notin loops
  /\ handlers = 0
  /\ dbOpen' = FALSE
  /\ UNCHANGED <<step, disk, boots, refused, stopping, late, background>>

Exit == phase = "exiting" /\ Gone(FALSE)

Crash == phase # "off" /\ Gone(FALSE)

LifecycleInit ==
  /\ phase = "off"
  /\ step = 1
  /\ disk = {}
  /\ boots = 0
  /\ refused = FALSE
  /\ stopping = FALSE
  /\ late = FALSE
  /\ canceled = FALSE
  /\ loops = {}
  /\ inHand = 0
  /\ handlers = 0
  /\ dbOpen = FALSE

-----------------------------------------------------------------------------
(* Properties.                                                             *)

LifecycleTypeOK ==
  /\ phase \in {"off", "starting", "serving", "draining", "waitWorker",
                "waitRunner", "exiting"}
  /\ step \in 1 .. Len(Script) + 1
  /\ disk \subseteq Objects
  /\ boots \in 0 .. MaxBoots
  /\ refused \in BOOLEAN
  /\ stopping \in BOOLEAN
  /\ late \in BOOLEAN
  /\ canceled \in BOOLEAN
  /\ loops \subseteq {"worker", "runner"}
  /\ inHand \in 0 .. Batch
  /\ handlers \in 0 .. Slots
  /\ dbOpen \in BOOLEAN

(***************************************************************************)
(* Wherever an earlier start died, the script goes through, and a process  *)
(* that serves has the whole schema and its seed.                          *)
(***************************************************************************)
StartupIsRestartable ==
  /\ ~refused
  /\ phase \notin {"off", "starting"} => disk = Objects

=============================================================================
