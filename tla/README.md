# UrbanRelay: specifications, model checking and proofs

UrbanRelay (`src/`) is a Go server over one SQLite file. It plans and tracks
urban transport work: delivery missions, drone inspections, multimodal
transfers, sorting waves, incidents and maintenance. This directory holds TLA+
modules translated from the source, the TLC configurations that check them, and
theorems that TLAPS checks for every value of the constants.

`PROJECT.json` lists, for every definition that models code, the lines it stands
for (`map`), and the components, runs, hazards, findings and theorems named here.

## 1. Inventory

| component | state | operations | where |
|---|---|---|---|
| six business services | one table each, `version` column | `Create`, `Transition`, `Cancel`, `DeleteDraft`, reads | `internal/{mission,inspection,transfer,sorting,incident,maintenance}` |
| HTTP handlers | none | decode, require a permission, call a service, encode the error | `internal/httpapi`, `internal/middleware` |
| domain vocabulary | none | statuses, transition graph, roles and permissions | `internal/domain` |
| idempotency | `idempotency_records` | `Lookup`, `SaveTx`, `Prune` | `internal/idempotency` |
| audit | `audit_events` | `AppendTx`, `List` | `internal/audit` |
| outbox and worker | `outbox_events` | `AppendTx`, `Due`, `MarkPublished`, `MarkRetry`; a polling goroutine | `internal/outbox`, `internal/worker` |
| reservations | `resource_reservations` | `Reserve`, `Release`, `Expire`, reads | `internal/reservation` |
| job queue and runner | `worker_jobs`, `processing`, `sem` | `Enqueue`, `Cancel`, `Claim`, `Complete`, `Fail`, `RequeueExpiredLeases`; a polling goroutine and one per job | `internal/jobqueue` |
| auth and sessions | `users`, `sessions` | `Login`, `Authenticate`, `Logout`, `Require`, `SeedUsers` | `internal/auth` |
| catalog | `hubs`, `assets` | `CreateHub`, `CreateAsset`, `ChangeAssetState`, `ListAssets`, `Seed` | `internal/catalog` |
| runtime flows | `runtime_flow_*` tables | `CreateTx`, `AppendEventTx`, `PutReceiptTx`, reads | `internal/runtimeflow` |
| platform | connection pool, pragmas, schema | `Open`, `Migrate`, `WithTx` | `internal/platformdb` |
| process | contexts, wait groups | start, serve, shut down | `cmd/server`, `internal/app` |
| operations, queries | none | read-only reports | `internal/operations`, `*/queries.go` |

**Interaction.** Handlers run in a goroutine per request and share nothing but
the database. Services commit a row, an audit entry, an outbox event and (on
create) an idempotency record in one transaction. The worker polls the outbox and
calls the publisher; the runner polls the job table and starts handlers. Both
write their outcome back by a conditional `UPDATE`. A middleware looks the session
up before every handler but login. `main` starts all of it after `app.New` has run
the migrations and the seeds, and takes it down after a signal. Nothing in
production calls the catalogue's and the reservations' operations, `Enqueue`,
`Prune`, `DeleteDraft` or `Cancel`; they are exported, and the models contain them
(behind the constant `Uncalled` in `BusinessFlow`).

**What is hard.** Reads before a transaction and writes in it; two transactions
of which one starts with a read; idempotency keys that expire and are not pruned;
lost answers and retries; leases that run out under a handler that is still at
work; bounded slots; a publication and its mark that no transaction spans; a
process that dies between any two of these. `PROJECT.json` lists them one by one
under `hazards`, with the property that would catch each.

**What makes each part correct.** Services: a key creates at most one row, a
version is left at most once, replies agree with the log, ended objects stay
ended. Reservations: no instant held twice, conflicts are real. Queue: a lease is
exclusive until it lapses, redelivery is paid for, every job ends. Outbox: no
event twice unless a mark was lost, none overtaken before the publisher saw it unless
it was written with an older time than its place in the table, no life cycle out of
order, every event published in the end. Catalogue: an asset moves along its graph from the
status it has at the commit, a client that reads page by page misses none.
Sessions: over for good once a client was told so, and over only for a reason.
Process: a start can be repeated wherever an earlier one died, the database is
closed under nobody, a process that is asked to stop stops.

## 2. Modules

| module | what it models |
|---|---|
| `Lifecycle` | `internal/domain`, and the permission each status needs (`transitionAction`) |
| `LifecycleLedger` | abstract: objects, their status and version, a log of moves; its graph is a parameter |
| `BusinessFlow` | the handlers and the six services over the database |
| `ReservationBook` | abstract: a book of windows that never overlap |
| `Reservations` | `Reserve`, `Release`, `Expire`, statement by statement |
| `JobBoard` | abstract: jobs taken under leases, failures counted to a limit |
| `JobQueue` | the job table, the runners' cycles and their goroutines |
| `OutboxWorker` | the outbox table and the worker |
| `Catalog` | hubs and assets, and a client that reads the list page by page |
| `Sessions` | login, the middleware, logout, and the rows they work on |
| `ServerLifecycle` | the statements of a start, serving, shutdown, exit and crash |
| `Server` | `Sessions` and `ServerLifecycle` composed |
| `MC...` | values for TLC |
| `BusinessFlowProofs`, `BusinessRepliesProofs`, `ReservationsProofs`, `JobQueueProofs`, `OutboxWorkerProofs`, `CatalogProofs`, `ServerProofs`, `LedgerProofs` | theorems, section 4 |

### BusinessFlow

`rows`, `idem`, `audit` and `outbox` are the tables; `pc`, `req`, `local` and
`reply` hold what a goroutine knows and what its caller was told. A call meets the
database at these points, and others run between any two of them:

- `Create`: `ReceiveCreate` (handler), `StartCreate` (validate, look the key up),
  `CommitCreate` (the transaction).
- `Transition`: `ReceiveTransition`, `StartTransition` (read and judge the row),
  `CommitTransition` (the transaction, with its conditional `UPDATE`),
  `FinishTransition` (the row is read again for the answer).

A commit is one step because its transaction begins with a write: SQLite's write
lock is held from the first statement to the end. The six services differ in what
`XLinked` and `XService` say (a transfer's destination is not validated but may
not be NULL; a chute and an assignee are free text), and share the rest, as their
sources do. `DatabaseFault` is any failing statement or canceled context, `Crash`
the death of the process: both leave what was committed. Rows are indexed by the
call that made them, which stands for the random UUID; a caller can only present
an identity that was issued. The digest of a request is injective. Bodies keep the
fields `Validate` and the schema look at; response bodies, notes and labels are
left out.

### Reservations

`Reserve` reads for conflicts and inserts in one deferred transaction. What keeps
the two together is SQLite, not the service: a transaction whose first statement
was a read can write only if nobody has committed, to any table, since then
(`current`, `MayWrite`). `MayWrite` is the one definition that models a library; the two
others that stand for no code of `src/`, `CloseHub` and `DisableUser`, are an operator's
own statements. `ForeignCommit` is a commit of another component. A refused write is
answered `internal`. The unique index on equal active windows never has a say,
because an equal window overlaps.

### JobQueue

`jobs` is the table; `cycle` the position of each runner in its cycle, with the
claimed jobs still to be started; `processing` and `slots` the two books of the
runner; `task` the goroutines. The deferred function of `handle` gives the slot
back before it forgets the job, and these are two steps. `history` is a ghost: what
handlers answered, how often a job was handed over, whose lease has ever lapsed.
Claim and Fail read and write in one transaction and take effect at the write.

### OutboxWorker

`events` is the table, in order of id; `cycle` the worker's cycle with the batch it
read. Ids follow the order of commits, but an event's time (`created_at`, and at first
`next_attempt_at`) is whatever its writer read from the clock before: `AppendTx` compares
it with nothing. Who writes decides what is known of it.

- `AppendInTurn` is `Create` and `Transition` of the six services. A transition reads the
  clock after the row (`mission/service.go:76-86`), and goes on only if the row has the
  version its caller presents and still has it at the `UPDATE`; so its time is not before
  that of the previous event of the same life cycle, which `latest` keeps.
- `AppendAnyTime` is everybody else. `Reserve` reads the clock before its transaction,
  `Release` after a row that is not the owner's, and both write under the *owner's* id:
  two of them, or one and the owner's own transition, commit in either order.
  `ChangeAssetState` does not compare versions before it reads the clock, and its caller
  may present one that is still to come. Their times may be any within `MaxAge`.

`Topics` says, by id, which of the two writes each event. `history` is a ghost of what
the publisher took and refused, which marks were lost, and which events were
`backdated`: committed after an event of the same object that was due only later and
still unpublished. A backdated event may be delivered first, and
`OvertakesHaveReasons` says that otherwise no event is delivered before an earlier one
of its object that the publisher has neither taken nor refused, and two events of a
life cycle never are. (Timestamps are texts of fixed width, so that their order in SQL
is the order of time; the clock is taken never to go back.)

`JobQueue` and `OutboxWorker` keep times relative to the present, so that the clock needs no bound:
an instant counts down with every `Tick`. Two instants are compared only through
one reading of the clock, at most `MaxAge` ticks old, so what lies further back
need not be told apart.

### Catalog

The shape of `BusinessFlow` without keys and roles: `StartCreateAsset`, `GetHub`
(outside the transaction), `InsertAsset`; `StartChange`, `GetAsset`, `UpdateAsset`,
`FinishChange`. `ChangeAssetState` does not compare the version it reads with its
caller's; the `WHERE` clause (`Unchanged`) checks the status that was read *and* the
caller's version, and the event it writes is made of both. `UpdateAssetStateTx`
without the status would write events from a status the asset never had (the
mutant `SameVersion`). `CloseHub` is an operator's own statement: the code tests a
hub's status and never changes it. The foreign key of an asset holds whether or not
its connection enforces it (`HubsAreThere`), since nothing deletes a hub. `walk` is a
client of `ListAssets`: each page is one `SELECT`, and others commit between two
pages. The total, counted by an earlier statement than the page, is left out; a
client that stops where the total says may stop early. So are the filters by kind,
which is like the hub, and by status, which no walk could promise anything about.

### Sessions, ServerLifecycle, Server

`Sessions` holds `users`, `sessions` and the requests. A token is named by the login
that drew it. Authentication and the handler are two steps: a session may end
between them, and the request is served. `warned` is a ghost: at the arrival of the
request some client had been told that its token is over. `reply` keeps apart a
refusal from a failing statement, which the middleware answers 401 as well. A logout
commits and answers in two steps (`Logout`, `ConfirmLogout`): its answer may be lost. A
login whose `INSERT` went through and whose answer is lost leaves a token nobody knows,
and is one with a login that failed.

`ServerLifecycle` runs `Script`, the statements of `platformdb.Open`, `SeedUsers`,
`catalog.Seed` and `EnsureSchema` in `app.New`'s order. Each commits by itself, and
the process may die between any two (the tables of the services, and those of
`EnsureSchema`, are one statement each: `IF NOT EXISTS` makes them alike). What makes
`ALTER TABLE` repeatable is `containsDuplicateColumn`; the test before it, of the
error's first 21 bytes against a string of 20, never holds. Then the loops start;
`inHand` are jobs claimed and waiting for a slot, `handlers` those that hold one.
`BeginShutdown` is the signal and the call of `server.Shutdown`; `EndDraining` its
return, because no request is left or the deadline has passed (`late`), and
`cancelWorker`; `WorkerWaited` and `RunnerWaited` the two waits, the latter with the
deferred `Close`. A runner whose context is canceled goes on with the jobs it has in
hand, as `cycle` does.

`Server` lets requests arrive while the process serves and, over connections that were
accepted before, while `Shutdown` waits and after it gave up (`main` ignores its result
and closes no connection); it answers those that meet a closed database with a failure, loses those in flight when the process ends, and
runs `SeedUser`, with an identity just drawn, at the statements that insert users.

## 3. Runs

Every run is on a small instance, and every bound has a name in the module.

| run | instance | shows |
|---|---|---|
| `BusinessConcurrent` | 3 calls in flight, 2 keys, 2 numbers (one body soon overdue), 2 users, clock 0..1, keys expire after 1 | `OneRowPerKey`, `AcknowledgedCreateExists`, `RepliesTellTheTruth`, `OneWriterPerVersion`, `ImplementsLedger` |
| `BusinessLifecycle` | 4 calls, 2 at a time, 3 roles | `CompletionTakesTwoRoles`, `EventsRebuildRows`, `EndedStaysEnded` |
| `BusinessKinds` | 2 calls, 6 services, 1 key, bodies with every kind of resource, `Prune`, `Cancel`, `DeleteDraft` | keys are per service, deletion takes only drafts, with or without foreign keys |
| `Reservations` | 3 calls, windows over 4 instants, longest 2, clock 0..2 | `NoDoubleBooking`, `TrailTellsTheBook`, `ConflictsAreReal`, `ImplementsBook` |
| `JobLeases` | 2 processes, 1 job, 1 slot each, lease 2, limits 1 and 2 | `LeaseRespected`, `HandledOncePerAttempt`, `CompletedWasHandled`, `ImplementsBoard` |
| `JobPool` | 1 process, 2 jobs, 1 slot | `OneHandlerPerJob`, `EveryJobEnds` |
| `Catalog` | 3 calls, 1 seeded and 1 new hub code, 2 numbers, 2 target statuses, 2 versions, pages of 1 or 2 | `WalkMissesNothing`, `RepliesTellTheTruth`, `ImplementsLedger` |
| `Server` | 3 requests, 1 user, 2 starts, clock 0..1, sessions last 1, 1 job at a time | `EndedSessionAdmitsNobody`, `RefusedOnlyIfEnded`, `OneLogoutWins`, `StartupIsRestartable`, `CloseIsOrderly`, `ShutdownCompletes` |
| `Outbox` | 3 events of one object, a reservation between two of its life cycle, batches of 2, 1 attempt before the long delay of 3 ticks | `MarksAreTrue`, `DeliveredOnceUnlessMarkLost`, `OvertakesHaveReasons`, `EveryEventPublished` |
| `OneVehicleTwoMissions`, `ReviewSkipped`, `OutboxRetriesForever` | 4, 4 calls; 1 event | finding 1, 2, 3 below |

*Why these bounds.* Two calls suffice for every race on one key or row; the third
lets something happen between a read and a write of each of two others. Completing
an object takes a create and three transitions: four calls. Three windows over
four instants include equal, crossing, nested, touching, empty, reversed and
overlong ones. Two runners suffice for a lease that changes hands, three
goroutines for one that returns to its first owner while the first handler is
still at work. Two jobs and one slot make the cycle wait. Three events and batches
of two make an event wait for the next batch; with a reservation between two steps of a
life cycle each kind can come before and after the other, and events of the life cycle
are overtaken if their clock is read before the row (the mutant `ReadBeforeRow`). Three calls on the catalogue are an
asset and two changes that race, or three assets and a walk over pages of one. Three
requests are a login and two that race on its session; they are numbered as they
arrive, which leaves out only copies. Two starts: the first dies anywhere, the
second meets what it left. Calls, and keys where named, are
interchangeable; symmetry is used in runs without liveness only.

`db.go:47` sets the pragmas on one connection of a pool of eight, so that others do
not enforce foreign keys (`platformdb_test.go:22` and `:72` see one connection at a
time), and after half an hour (`SetConnMaxLifetime`) none does. `BusinessKinds` lets
each commit meet either kind (`ForeignKeys`): an object may then name a hub nobody
created, and all the properties of that run hold nevertheless.

Deadlock is not checked: calls are finite, and the system may well have nothing
to do.

**Fairness.** `BusinessFlow`, `Reservations` and `Catalog` assume none, and claim nothing that
needs it. `JobQueue` and `OutboxWorker` assume weak fairness of a runner's cycle
(the ticker fires again and again), of each goroutine (handlers return: the one
in the source does at once), of the worker, and of the clock. Nothing is assumed
of handlers' or the publisher's answers. `Server` assumes weak fairness of main, of
the runner once it has claimed or is canceled, and of its handlers, which return;
nothing of requests, which may hang for ever: the deadline of `Shutdown` is what ends
the wait. `main` itself waits for the runner without a deadline, so a handler that
never returned would keep the process alive; the one in the source returns at once.
`EveryJobEnds` and `EveryEventPublished`
are stated for behaviours in which disturbances end, `<>[][~Disturbance]_vars`:
the code retries for ever, and a database that fails for ever, a process that
dies again and again or a handler that always outlives its lease defeats it. A
handler that returns an error is *not* a disturbance of a job; a refusal is one of
an event. All the disturbances may happen any number of times before that.

### Findings

1. *One vehicle, two missions.* `README.md:9` says that a vehicle carries one
   mission at a time. `mission.Service.Transition` never looks at another mission.
2. *Review skipped.* `business_flows_test.go:116` is named for, and `README.md:10`
   lists, a review before completion. The graph (`inspection/model.go:48`) lets
   `active` go to `completed`, and the test only tries it from `planned`.
3. *No permanent failure.* `README.md:5` says that the worker registers permanent
   failure. It marks the event `retrying`, a day later, each time.

## 4. Proofs

TLAPS proves, for every value of the constants that satisfies the modules' named
assumptions, each of these; all of them have the form `Spec => ...`:

| module | theorem: property |
|---|---|
| `BusinessFlowProofs` | `TypeCorrect`: `TypeOK`; `NoLostUpdate`: `OneWriterPerVersion`; `ServicesImplementLedger`: `ImplementsLedger` |
| `BusinessRepliesProofs` | `KeysNameOneRow`: `OneRowPerKey`; `AcknowledgedIsThere`: `AcknowledgedCreateExists`; `AnswersAreTrue`: `RepliesTellTheTruth`; `TwoRolesComplete`: `CompletionTakesTwoRoles`; `EndedForGood`: `EndedStaysEnded`; `OutboxIsAHistory`: `EventsRebuildRows` |
| `ReservationsProofs` | `TypeCorrect`: `TypeOK`; `NeverDoubleBooked`: `NoDoubleBooking`; `TrailIsTrue`: `TrailTellsTheBook`; `ConflictsAreHeld`: `ConflictsAreReal`; `ServiceImplementsBook`: `ImplementsBook` |
| `JobQueueProofs` | `TypeCorrect`: `TypeOK`; `OneHandler`: `OneHandlerPerJob`; `RedeliveryIsPaidFor`: `HandledOncePerAttempt`; `OnlyHandledIsCompleted`: `CompletedWasHandled`; `LeasesAreRespected`: `LeaseRespected`; `QueueImplementsBoard`: `ImplementsBoard` |
| `OutboxWorkerProofs` | `TypeCorrect`: `TypeOK`; `MarksTellTheTruth`: `MarksAreTrue`; `DeliveredOnce`: `DeliveredOnceUnlessMarkLost`; `OvertakesAreExplained`: `OvertakesHaveReasons` |
| `CatalogProofs` | `TypeCorrect`: `TypeOK`; `AnswersAreTrue`: `RepliesTellTheTruth`; `WalkSeesAll`: `WalkMissesNothing`; `CatalogImplementsLedger`: `ImplementsLedger`; `EventsAreAHistory`: the ledger's `MovesAreChained` and `LogReplays` |
| `ServerProofs` | `TypeCorrect`: `TypeOK`; `EndedForGood`: `EndedSessionAdmitsNobody`; `RefusalsHaveReasons`: `RefusedOnlyIfEnded`; `LogoutWinsOnce`: `OneLogoutWins`; `ClosedInOrder`: `CloseIsOrderly`; `StartsAgain`: `StartupIsRestartable` |
| `LedgerProofs` | `LogIsAHistory`: `OneMovePerVersion`, `MovesAreChained` and `LogReplays`, of the abstract ledger |

That is every safety property of the passing runs. **Assumptions.** Each module
states its own (`ConstantsAssumption`, `CatalogAssumption`, `SessionsAssumption`,
`LifecycleAssumption`, `ServerAssumption`), and TLC evaluates them in the runs: types
and signs of the numbers, `None` outside the sets it is a stand-in of, limits of
attempts between 1 and 20 (`jobqueue.Enqueue` refuses others), a usual page no longer
than the longest. Finiteness is assumed only where tokens or pages are counted (`Jobs`,
`Tasks` and the catalogue's `Calls`); every other set may be infinite.

Few of these properties are inductive. The proof of each component is the proof of
one invariant, which lists what one step must know about the others; the properties
follow from it. TLC has checked these invariants on the instances of the runs.

*`LogInv`* (services). That two events of one object have different versions is not
inductive. `LogInv` adds: a call that has not inserted has left no row and no event
(`UnbornHasNoTrace`), every row was announced (`RowIsIssued`), no event of an object
carries a version above its row's (`RowIsAhead`), and a call about to update
remembers a row its graph allows it to leave (`UpdateIsAllowed`). An update writes
an event one version above the row it saw, and its `WHERE` clause says that the row
is still the one it saw; so the new version is above every logged one.
`ServicesImplementLedger` uses the same invariant: the update moves along an edge of
the graph *from the current status*, which is why `UpdateIsAllowed` must be carried
from the read to the write. `EndedForGood` needs no more than that either: the graph
has no edge out of `completed` and `canceled`.

*`FlowInv`* (services, replies) extends `LogInv` by what a call and the tables say of
each other. For each call: it holds a permission from its handler on (`Allowed`), its
trail is empty before its commit, one entry next to one event after it (`Story`), the
identity it was told is one that was issued for the same kind, body and user
(`Acknowledged`), and its row still is what it asked for (`OwnRow`). For the tables: a
record names the create that wrote it (`RecordsOK`); without `Prune` every create that
committed keeps its record (`KeysAreKept`), so that a second row for the same key would
need a free key, which is `KeysNameOneRow`; audit and outbox grow hand in hand
(`HandInHand`); and the right to plan, or to complete, was used by somebody in the
trail of each row, or of each completed one (`RightsWereUsed`). A crash leaves a call
with nothing told, whatever it has committed, and so falsifies none of it.

*`BookInv`* (reservations) says that, as long as the snapshot of a
reserve that found no conflict is current, there still is none (`InsertIsClear`),
and that what an expiry selected is still overdue and active
(`SelectionIsOverdue`). Every commit empties `current`, so no other call's step
can falsify either. Without the rule of SQLite (the mutant `MayAlwaysWrite`) TLC
finds a double booking at once. *`HistoryInv`* adds the trail of each reservation and
that every window that was stored is open (`from < to`): two open windows overlap in
the sense of the query exactly when they share an instant, which is what
`ConflictsAreReal` says of a conflict.

*`QueueInv`* (queue) has four parts. `TableOK`: no row that is still to be run has used
its attempts up. `BooksOK`: the tokens out are as many as the goroutines that hold one,
`processing` is the jobs of the goroutines and the one that waits for a slot, and no two
goroutines of a runner have one job. `ConsentOK`: whoever is about to complete a job has
its handler's consent. `TraceOK`: a job whose lease never lapsed is in one place at a
time (in a queue, or with one goroutine), with its attempts paid for. A lease that
lapsed says nothing any more, which is why `HandledOncePerAttempt` is restricted to the
others. The refinement of `JobBoard` follows from the same parts.

*`WorkerInv`* (outbox worker): the batch is in the order of ids and says of its rows
what they say; what was delivered is marked, about to be, or lost its mark; an event the
publisher has not seen is pending, and due when it was written; and of two events of
one object the earlier is seen first, unless the later is backdated to it
(`ObjectsInOrder`, `BatchInOrder`). The step from there to life cycles is
`LifeCyclesInTurn`: a pending event of a life cycle is due no later than the latest of
them was written, so that the next one, whose time is not before that, is backdated to
none of them. Nothing is assumed of the times of the others.

*`CatalogInv`* (catalogue): an answered change has its move in the log, and no two
changes share one (`MovesDiffer`); every move has a mover (`MovesHaveMovers`); asset
numbers differ. For the walk, what the client is owed and has not seen has at least as
many assets before it as the pages already read hold (`WalkInv`). An asset created
meanwhile can only add to that number. A page that comes back empty would then leave no
place for the asset it misses (`PlacesHaveNoGap`: the places of a finite set of assets
have no gap).

*`ServerInv`* (process and sessions): a session a client holds belongs to a user who
keeps the identity it was made for, through every restart; a client that was told that
its session is over was told so because it was, and stays so (`ReplyOK`); of the
logouts of one session one at most has revoked it, whether its client was told or not
(`UniqueLogout`); the statements
of the script that have run left their objects (`ScriptInv`), so that none of them is
refused later; loops and handlers run in a serving process only (`LifecycleInv`); and
requests outlive the listener only after the deadline (`RequestsInv`).

*`LedgerInv`* (the abstract ledger) is about no code but about the promise the services
and the catalogue were shown to keep. The log of an object is a history: each move starts
where an earlier one ended, and the last one ends where the object is. The invariant adds
that the entries of an object are in the order of their versions (`VersionsRise`), so
that the entry a move continues is the object's last. The hypothesis is that `absent` is
no status of the graph (`GoneIsOutside`), which is proved of both graphs. The two
components then inherit the result through their refinement mappings
(`OutboxIsAHistory`, `EventsAreAHistory`): a consumer of the outbox alone can rebuild
every row and every asset.

*Only model-checked:* the liveness properties `EveryJobEnds`, `EveryEventPublished` and
`ShutdownCompletes`. They need fairness and ENABLED, which are out of reach of the
provers at hand, as is induction over data.

## 5. Not modelled, and the plan

Left out for good, and why:

- *Reports and queries* (`internal/operations`, `*/queries.go`, `audit.List`): they
  only read, one statement each or several without a transaction, and `app.New`
  wires none of them. `ListAssets`, which has their form, is modelled.
- *Runtime flow records*: nothing calls `Create`, `AppendEventTx` or `PutReceiptTx`,
  each of which is one `INSERT`; who may call them in what order is not in the code.
- *Configuration, hashing, tokens, JSON, logging, texts of errors*: no state.
- *A late retry is refused as invalid* (`mission/service.go:36`), *old events fill the
  batch* (`worker.go:51`), *two processes under one owner name* (`app.go:87`): hazards
  without a property, as is *foreign keys hold on some connections only* (`db.go:47`),
  which the models let happen and no property notices. No document promises anything
  about the first, the third and the last; the second depends on the poll being shorter than the delays, which the models'
  clocks do not say.

Left for later: the same for the other two abstract specifications, `ReservationBook` and
`JobBoard`. What a reader of them may rely on is so far proved of the implementations
directly (`NeverDoubleBooked`, `LeasesAreRespected`, `RedeliveryIsPaidFor`).
