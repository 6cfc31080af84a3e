# WindOps in TLA+

A verification project for WindOps: an HTTP server in Go over one SQLite file that
evaluates operating rules for offshore maintenance, records every decision with its
audit event and outbox job, and delivers the jobs from a background worker. The
modules are translated from the Go source under `internal/` and `cmd/`; TLC checks
them on small instances, TLAPS proves the theorems for every instance.

`PROJECT.json` is the index: components, runs, the line of code behind every
definition (`map`), a mutant for every property, the hazards and the theorems.

## The system

| Component | State it keeps | Operations | Correct when |
|---|---|---|---|
| Outbox worker (`internal/worker`) | the batch it read, its context; rows of `outbox_jobs` | poll, due check, publish, write-back | an outcome is stored once, never invented, never undone; a failed delivery waits for its backoff and is given up after five; every job is settled; a signal stops it |
| Decision coordinator (`internal/application/coordinator.go`) | rows of `audit_events`, `outbox_jobs`, `request_log` | Evaluate, Rules, Overview | the rows of a decision are there together or not at all; a request is recorded once; an answer names rows that exist; the counts of one overview fit together |
| Start of a process (`cmd/server`, `store.Open`, `Migrate`, `Bootstrap`) | `schema_migrations`, the seeded inventory | migrate, seed, serve | no half migration, one farm per tenant, a server serves only a complete schema |
| Repositories (`internal/store`, 15 of one pattern) | one table each | Create, Get, Update, List | no update is lost, a version names one content, a page is no further from its total than rows were written between them |
| Entity models (`internal/domain`, 15 of one pattern) | none | Validate, Valid, WithStatus, Clone | a stored value is valid and stays so through its transitions |
| Rules (`internal/policy`, 33) | none | Evaluate... | shared resources are not given twice, and what one rule leaves to another is kept |
| HTTP API (`internal/httpapi`) | none | decision, entities, overview, static files | a handler that panics or whose client left does not harm the others |
| Reports (`internal/report`) | none | Build, readiness | the counts of one report fit together |
| Shutdown (`cmd/server/main.go`) | the root context, the wait group, the open handle | NotifyContext, ListenAndServe, Shutdown, Wait, Close | a clean end drops nothing, any end comes, and what it leaves behind the next process takes up |
| Platform (`clock`, `identity`, `page`, `fault`, `config`) | the identifier sequence | New, Now, Normalize, Load | identifiers are unique |
| Web workspace (`web/`) | view state | pages, DecisionLab | posts decisions one at a time |

How they interact. `run` opens the database, migrates, seeds and then starts two
activities that share it: the HTTP server, whose handlers run concurrently and call
the coordinator, and one worker goroutine. All of them go through one `sql.DB` with a
single connection, so statements interleave but transactions do not. The coordinator
and the worker never call each other: they meet in the `outbox_jobs` table. Signals
reach the worker through the root context; a handler is cancelled by its own request
context. A second process on the same file (a rolling restart) has its own worker,
sequence and connection. The rules are pure functions of one request; what a workflow
did before reaches a rule only as the fields and flags its client sends.

What is hard here:

- a worker works on copies while other processes, signals and store errors act on the
  rows, and it drops every error of a job;
- a transaction can stop after any statement, by an error, a client that leaves, or a
  crash, and holds the only connection meanwhile;
- identifiers start over with the process while the rows they named survive;
- the seeding runs row by row without a transaction;
- reads that belong together (count and page, the pages of one walk, the twelve counts
  of the overview) are separate statements;
- a caller of a repository decides on a value that may be stale when it is written;
- no rule sees a whole workflow: that work stays inside its window, or that a closed
  campaign is done, depends on rules that read each other's results as statuses and
  flags;
- `run` has four ways to end (clean, shutdown timeout, listener failure, crash), and
  only one of them waits for the worker.

Nearly every entry of `hazards` names the properties below that would notice it going
wrong; the rest say why no property covers them.

## Modules

| Module | Models | Code |
|---|---|---|
| `OutboxWorker` | workers of several processes over one table | `worker/outbox.go`, `store/outbox_repository.go`, `cmd/server/main.go`, `policy/outbox_retry_is_due.go` |
| `JobLifecycle` | abstract: what the outbox promises for a job | refined by `OutboxWorker` and `Server` |
| `Decisions` | concurrent handlers in `Coordinator.Evaluate` | `application/coordinator.go`, `store/database.go`, `platform/identity`, `httpapi/server.go` |
| `DecisionLog` | abstract: what recording a decision promises | refined by `Decisions` and `Server` |
| `Server` | handlers, readers, worker and `run` over one handle, from one process to the next; refines `DecisionLog` and `JobLifecycle` at once | `cmd/server/main.go`, `application/coordinator.go` (Overview), `report/operations.go`, `worker/outbox.go`, `store/database.go` |
| `Startup` | several processes that migrate, seed and serve | `store/migrations.go`, `application/bootstrap.go`, `cmd/server/main.go` |
| `Entities` | statuses, required fields, `Validate`, `WithStatus` of the 15 models | `domain/*/model.go` |
| `Repository` | concurrent callers of one repository | `store/*_repository.go` |
| `Listing` | a reader that walks pages while rows change | `store/*_repository.go`, `platform/page` |
| `PolicyRules` | eighteen rules as predicates on their context, one of them as the sort it answers with | `policy/*.go` |
| `Workflow` | planning, permits, dispatch, field work and closing, as far as those rules allow it | the rules above, in the order of `README.md` |
| `Deadlines` | the rule on forwarded deadlines | `policy/context_deadline_is_forwarded.go` |
| `OutboxWorkerProofs`, `SoleWorkerProofs`, `DecisionsProofs`, `ServerProofs`, `StartupProofs`, `RepositoryProofs`, `ListingProofs`, `WorkflowProofs` | the theorems | |
| `MC...` | symmetry sets, request keys and inputs for TLC | |

`Repository` extends `Entities`, `Workflow` extends `PolicyRules`; each `...Proofs`
module extends the module it is about (`SoleWorkerProofs` extends `OutboxWorkerProofs`). `OutboxWorker` and `Decisions` have one side of
the system in detail and instantiate its abstract specification. `Server` composes the
two sides: a transaction and a delivery are one or two steps there, and both abstract
specifications are instantiated over its state. `Enqueue` of `OutboxWorker` is the
committed job insert of `Decisions`, and both are `Commit` of `Server`.

### How state and actions correspond to the code

**OutboxWorker.** `rows` is the table, `batch[w]` the slice `Process` iterates over,
`draft[w]` the value `processOne` is about to write, `canceled[w]` the root context.
`Poll` is the `SELECT` of `Process`; `Skip` is the early return of `processOne`;
`Publish` is the call of the publisher together with the outcome computed from it;
`Record` is `JobRepository.Update`, whose three ways to refuse (validation, context,
version) are `Accepts`. Errors of a job are dropped and the loop moves on: `Advance`.
`Signal`, `Stop`, `Crash`, `Restart` are the life of the process, `RecordFails` a store
error. Time is relative: a copy carries the seconds since its `UpdatedAt`, and because
`AvailableAt` is always `UpdatedAt` plus the backoff of the recorded attempts, "due" is
a comparison of the two. The status `running` exists in the code and is never written.

**Decisions.** A handler stands at the statement it will execute next; `conn` is the
one connection, taken by `Begin` and given back by `Commit` or `Abort`. Inserts are not
visible before `Commit`, and the connection keeps every other statement out, so the
tables change there, all at once. `next` is `identity.Sequence`: it counts identifiers
of all kinds, is consumed by transactions that roll back, and starts at zero after a
restart, because `Bootstrap` then finds its farm and takes no identifier (on an empty
database it takes `SeedIds`). A rule is a pure function of its request, so "rejected",
"allowed" or "denied" is a constant of the request.

**Server.** `main` is where `run` stands: serving, in `Server.Shutdown`, in `Wait`,
returning (the deferred calls are left to do), or down between two processes. `closed`
is the handle, `conn` its one connection, `canceled` the root context, `worker` the
goroutine, which counts itself into the wait group only when it is first scheduled
(`Launch`): `WaitDone` is possible before that, as in the code. `Unaddressed` are the
decisions under a blank tenant: the rules accept them and the coordinator inserts their
jobs, and `Record` fails in `Job.Validate`, so such a job is delivered again on every
tick. A reader counts the rows of one tenant, which is not a blank one (`Addressed`). A transaction is `Begin`
and `Commit`; a reader takes the two counts that can move, of jobs and of events, in two
steps in the order of the code. `Receive` is possible until `Shutdown` has returned
without an error, and after a timeout or a failed listener until the process is gone.
`End` drops what a process had in memory; `Start` is the next one. Left to the modules
that have them in detail: statements of a transaction, identifiers, store errors and
clients that leave (`Decisions`), backoff, refused deliveries, versions and a second
process (`OutboxWorker`), migration and seeding (`Startup`). `Builder.Build` is a reader
although no route calls it yet.

**Startup.** A process reads the recorded versions, takes SQLite's write lock with its
first statement (and is refused when the snapshot it read is out of date, or when another
process holds the lock: at once or after `busy_timeout`, with the same end), creates the
tables and records the version of every missing migration, commits, lists the farms of
its tenant, and inserts farm, turbines and vessels one by one when there is none. A
duplicate identifier ends the start, as `run` returns the error.

**Repository.** A caller holds the value it works on (`copy`) and the row it read
(`read`, whose version is the `expectedVersion` of `Update`). A value is reduced to
identifier, tenant, status, version and the set of fields that are filled in.
`AnswerLost` is a statement that was executed and whose caller sees an error.

**Listing.** `Count` and `Select` are the two statements of `List`; `writes` counts the
rows other callers write between them. The reader is not
part of the code: it asks for the next page while pages are full.

**Workflow.** The code decides and the client records, so an action is a rule's verdict
followed by the client's record of it. The client builds the context of each rule from
what was recorded before and sends the true time. `planning` is window, crew, slot and
costs; `permit` and `work` follow their statuses; `field` is the vessel, the dispatches
and the checksums of evidence. Flags no rule establishes (`crew_on_site`,
`medical_clearance`, ...) are taken as true: that makes more steps possible, never fewer.
Sums of costs and of a manifest wrap like `int64`. A rule that compares lists index by
index reads one only as far as the other is long, and empty names are an error of their
own, as in the code; the client sends lists of equal length.

## Runs

| Run | Instance | Distinct states | Shows |
|---|---|---|---|
| `outbox_replicas` | 2 jobs, 2 processes, batch 2, 2 attempts, ages to 2 s, 1 disruption | 605,764 | stale copies, crashes, signals and failed writes never corrupt, revive or invent an outcome; the worker implements `JobLifecycle` |
| `outbox_live` | 2 jobs, 1 process, batch 1, 3 attempts, ages to 4 s, 1 disruption, fair | 39,566 | no delivery the rule on retries would not allow for the stored row, a second one only after a disruption; every job is settled |
| `outbox_poison` | 2 jobs, one under a blank tenant, batch 1, a publisher that accepts, no disruption, fair | | *violated:* the job of the blank tenant is delivered on every tick and never settled, and the other waits behind it for good |
| `decisions` | 3 requests (allowed, denied, rejected) whose clients retry, 2 handlers, 1 disruption, 1 replay, fair | 192,777 | decisions are recorded whole and once, answers are true, every call ends, who keeps asking is recorded; the handlers implement `DecisionLog` |
| `decisions_survivors` | 3 requests, 1 disruption | | *violated:* identifiers of surviving rows make new decisions fail |
| `server` | 2 decisions, one under a blank tenant, 1 reader, batch 2, 1 signal, crash or listener failure, fair | 93,755 | a clean end drops nothing, counts fit together, a process delivers a job at most once and a recorded decision is delivered in the end, both for tenants that are not blank and beside one that is, run returns after a signal; the whole implements `DecisionLog` and `JobLifecycle` |
| `startup` | 3 processes, 2 tenants, 2 turbines, 1 vessel, 2 disruptions, fair | 71,121 | racing starts leave no half migration and one farm per tenant, who serves has a complete schema, a fleet is incomplete only after a disruption; whoever loses is started again and serves |
| `startup_tenant` | 1 process started for 2 tenants in turn, fair | | *violated:* the second tenant never serves |
| `repository` | 2 identifiers, 2 tenants, 2 callers, versions to 3, 1 lost answer | 81,514 | no update is lost, a version names one content, rows only advance |
| `listing` | 3 rows, 2 tenants, pages of 1 and 2, 1 update | 1,169,576 | a page is as long as its total says, up to one row for each written in between; a walk in a fixed order misses nothing |
| `workflow` | 2 campaigns, 4 instants, integers to 7 | 386,464 | windows, crew, vessel and slot are never given twice, work starts only where and when it was planned, a closed campaign stays done; sums are accepted that fit, or that wrap to a value that does |
| `deadlines` | 3 instants | | *violated:* a detached operation is accepted |

The run `workflow` also evaluates the assumption `PriorityIsStable` of `MCWorkflow`: the
insertion sort of `dispatch_priority_is_stable.go` gives, for all queues of up to four
dispatches with values that tie, the stable order by definition. `PriorityIsSorted` of
`WorkflowProofs` proves it for queues of any length.

Why the bounds are enough. Conflicts in this code are between two parties: two workers
with copies of one row, two handlers at one connection, two callers of one row, two
campaigns in one slot or over one vessel. Two of each show them, and `startup` has a third process so that
one can hold the lock, one wait for it and one list. A batch of 2 lets a copy grow
old behind another; a batch of 1 under a backlog of 2 makes jobs compete for the poll.
Two attempts reach `retry` and `permanent_failure`; three reach backoffs of two lengths
(2 s and 4 s), and ages up to the longer one tell "due" from "not due". One disruption
at any step is enough for each safety property to meet each kind of failure at each
point; `startup` has two, so that a crash can follow the recovery from the first.
`server` has one, because what the next process has to take up is decided by the first
end; each of its four ways to end meets each position of handlers, reader and worker.
One of its decisions is under a blank tenant, so that a job the worker can never record
stands beside one it can. No rule denies in it: a denial is a transaction without a job,
which `decisions` has. Versions to 3 allow a copy to be two writes behind. In
`workflow` the inputs sit at the limits of the rules (`MCWorkflow`): windows and shifts
that touch, nest, are empty or reversed, requests of zero, below zero and `MaxInt`, costs and
manifests that fill budget or vessel exactly, exceed them by one, or wrap to a value
above the limit, and costs that wrap to one below it.

Counters that histories need (`published`, `failures`) stop at `HistoryCap`, which is at
least `MaxAttempts`, so no property sees the cap; `deliveries` of `Server` stops at
`DeliveryCap`, which is above the number of processes there can be. Symmetry is used in safety runs only.
Deadlock is checked in the outbox, decisions and repository runs; the other systems may
stop, and their cfg says when.

### Fairness

- `OutboxWorker`: the clock runs, the loop of a live worker is scheduled and its
  publisher returns (`LogPublisher` never blocks), and a stopped server is started
  again. Nothing is assumed of signals, crashes, store errors or the publisher's answer:
  a job whose deliveries all fail is settled by being given up.
- `Decisions`: the process is started again and a handler that can move does. Weak
  fairness is enough for `Begin` because a request is recorded after finitely many
  calls, so the other handlers leave the connection alone in the end; under a stream of
  requests without end it would be the queue of waiting connections in `database/sql`
  that lets everyone in. Clients whose request is not recorded send it again, with
  strong fairness: the number of handlers is a bound of the model, `net/http` has none,
  so a client cannot be kept out by others that are faster to find a free one.
- `Server`: each handler, the worker and `run` are scheduled, the timeout of the
  shutdown passes, and a stopped server is started again. Weak fairness of a handler
  and the worker is enough while requests are sent once. `EveryDecisionDelivered` needs
  fewer jobs of blank tenants than a poll reads, and says so: with a batch of them it is
  false, as `outbox_poison` shows. Nothing is assumed of signals,
  crashes or the listener.
- `Startup`: a process that runs makes progress and one that ended is started again.
  Its tenant is a free choice at each start, so `ServesItsTenant` has to except the
  process that is started forever for a tenant the database was not seeded for.

All disruptions are bounded, so the liveness properties say: after the last failure,
the system recovers.

## Proofs

TLAPS checks these for every value of the constants that satisfies the named
assumptions (finite set of jobs, natural bounds, distinct `None`). Each property of a
behaviour is proved by an inductive invariant `IInv` of its module: it holds initially,
every step keeps it, with one lemma per action or per action a part of it depends on, and
it implies the property.

| Module | Theorems | What the invariant adds, and why |
|---|---|---|
| `OutboxWorkerProofs` | `TypeCorrect`, `VersionsCount`, `CopiesAlwaysAgree`, `NoInventedSuccess`, `NoEarlyGiveUp`, `SettledStays`, `WorkerImplementsLifecycle` | `AttemptsWereRefused` and `CopiesAgree`. The optimistic version compares two numbers; that equal numbers mean equal rows, and that a draft tells only what the publisher answered, has to be carried from the poll to the write-back |
| `SoleWorkerProofs` | `RedeliveryNeedsDisruption`, `DuplicatesAreDisruptions`, `BackoffIsRespected`, all with one process (`Alone`) | `ExactCopies`, `InHand`, `DeliveriesCounted`. What a lone worker holds is what the table holds, because nobody else writes; a job it published without recording is still in its hand, or a disruption took it away. With two processes both properties are false: each polls what the other has in hand |
| `DecisionsProofs` | `TypeCorrect`, `DecisionsStayWhole`, `NothingTwice`, `AnswersStayTrue`, `HandlersImplementLog` | `HandlersChecked` and `KeysMatch`. What a transaction found free when it inserted is still free when it commits, because whoever changes the tables holds the connection |
| `ServerProofs` | `TypeCorrect`, `CleanEndDropsNothing`, `DeliveredOncePerLife`, `CountsFit`, `ServerImplementsParts` | `TableInv`, `WorkerInv`, `RunInv`, `ViewInv`. A row belongs to a handler that committed; a job the worker holds is open, and one it delivered without recording is out of the reach of its polls until the process ends; where `run` stands tells what is over; what a reader has counted stays a bound, because rows are only added |
| `StartupProofs` | `TypeCorrect`, `MigrationsAreWhole`, `TenantsAreSeededOnce`, `OneFarmEver` | `MigrateInv`, `SeedInv`. The holder of the write lock has seen the versions as they are recorded, or SQLite would have refused its snapshot; the tables it created and did not record are exactly those of the version it is at. All farms have one identifier, so there is one farm and one process that seeds it; who lost is refused, whatever its tenant |
| `RepositoryProofs` | `TypeCorrect`, `VersionsNameContents`, `NothingLost` | `CopyFollowsRead`. `WithStatus` to the same status keeps the version: such a copy is harmless only because it is then unchanged |
| `ListingProofs` | `TypeCorrect`, `PagesMatchTotals`, `WalksMissNothing` | `PageInv`, `WalkInv`. The count is off by at most one for each row written since, because one write brings at most one row into the selection or takes one out. In an order no update changes, a row that is inserted can only move others back, so what has not been shown lies behind the offset |
| `WorkflowProofs` | `TypeCorrect`, `NothingDoubleBooked`, `SlotNeverOverbooked`, `WorkStaysInside`, `WorkWasPlanned`, `ClosedStaysDone`, `SumsAlwaysFit`, `PriorityIsSorted` | `WindowChain`, `ApprovalChain`, `VesselChain`, `CloseChain`: what each rule passes on to the next. A submitted permit has a confirmed window, an approved one an expiry inside it, an activated one a past begin; a campaign that has the vessel keeps it from being available; what closing relied on is never taken back |

Each `IInv` was first checked by TLC as an invariant of the runs' instances. The theorems
of `DecisionsProofs` hold for any `KeyOf`, so also for requests that share a request id,
whether by accident or by a client's choice; the run gives each request its own.

Three arguments are about data rather than steps.

- *The order of a listing* (`ListingProofs`). "Sorted by a field in one direction, then by
  identifier" is a strict total order on the rows that match, so the number of rows
  before a row, plus one, numbers them without a gap: a page is the rows whose numbers lie
  behind the offset. Creating a row or changing a status only ever adds rows before
  another one as long as the walk is over all statuses and the sort field is fixed.
- *Sums* (`WorkflowProofs`). The library states induction for operators, which the
  provers cannot instantiate; `NatSets` states it for a set of numbers instead, from the
  well-foundedness of the order. A fold of the community modules is a function of sets of
  indices (`FoldExists`), and of its first indices it yields one value after the other
  (`FoldSteps`). Wrapping after every addition gives what wrapping the true sum once gives
  (`WrapAdds`, `WrapsAsOne`), so the verdict of a rule depends on the sum alone, in
  whatever order the lines come, and a sum that `int64` can represent is compared as it is
  (`WrappedWithin`). A sum beyond `int64` passes when it wraps to a value within the limit:
  the code accepts such lists, and `SumsFit` says that these are the only ones it accepts
  beyond the limit.
- *The sort* (`WorkflowProofs`). The inner loop puts a dispatch behind the last one it
  does not precede (`InsertPlaces`); that keeps a sorted queue sorted (`PlacingSorts`) and
  adds the dispatch to a rearrangement of those before (`PlacingArranges`).

Only model-checked: the liveness properties (`EveryJobSettles`, `EveryCallEnds`,
`RetriesSucceed`, `ServesItsTenant`, `NothingHangs`, `EveryDecisionDelivered`), which
need fairness and ENABLED, out of the provers' reach. Every invariant, action property and
refinement of a passing run is the property of a theorem; `DuplicatesNeedDisruption` and
`BackoffRespected` under the assumption that there is one process, as in their run.

## What the code does differently from what it says

Four runs end in a violation, each of one property that a document or a test states.

1. **A job that is delivered forever** (`outbox_poison`). `Coordinator.Evaluate` inserts
   the job without `Job.Validate`, and the rules reject only the empty tenant. For a
   tenant of blanks every write-back fails validation and the error is dropped: the job
   stays pending and is delivered on each tick. It also keeps its `updated_at` and so its
   place in the poll: a batch of such jobs fills every poll and no other job is ever
   delivered (`BacklogMoves`). README.md:20-21 promises durable notifications and retry
   state. With fewer of them than a poll reads, every other job is delivered: the run
   `server` has one beside another decision (`EveryDecisionDelivered`).
2. **Survivors block new decisions** (`decisions_survivors`). The identifier sequence
   starts over with the process; after a restart, decisions fail with an internal error
   until it has passed the stored identifiers. README.md:3 and :21 describe the
   surviving records as the point of recovery. `RetriesSucceed` shows that it heals,
   `RecordedOnce` that nothing is overwritten.
3. **The second tenant cannot start** (`startup_tenant`). Seeding takes identifiers from
   one upwards, and `farms.id` is a key over all tenants. README.md:14 invites to
   configure `WINDOPS_TENANT`.
4. **Detached cancellation is accepted** (`deadlines`). The rule passes `true` for
   `deadlinePresent` to a helper that then ignores the flag; the test at
   policy_test.go:242 expects `cancel_not_forwarded`.

## Not modelled

- Thirteen rules: chains of checks on the fields of one request about an operation the
  program does not perform itself (a batch, a recovered record, the release of a
  resource). No verdict of theirs is an input of another, so nothing beyond each chain
  could be said of them. `CrewMemberHasRested` compares two
  numbers its client computed: whether rest after a shift is asked for as well as before
  it is the client's affair, so no property of a plan follows from the verdict.
- `Rules`, which sorts the rule names: `DispatchPriority` is the same insertion sort.
- In the reports the counts by status, the locks and `BuildReadiness`: the tables behind
  them have no writer in the program, and readiness is a function of one report.
- Middlewares, routing, status codes, the entity pages, the probes and static files;
  configuration; the web workspace: no shared state, or formatting only.
- In `Server`: store errors and clients that leave, publishers that refuse, a second
  process beside the first. `Decisions`, `OutboxWorker` and `Startup` have them.
- Fourteen of the fifteen repositories by name: they are one program
  up to table and type; `Repository` takes the entity as a parameter.
- `entity_links`, `workflow_locks` and `idempotency_records`: no code outside the tests
  writes them.
- Text: stamps are instants, names are model values. That RFC3339Nano drops trailing
  zeros matters to the order of stamps inside a second; `Selections` of `OutboxWorker`
  allows any order there.

## Plan

1. Refinement of the composition: that `Server`, with a worker that is disturbed only as
   `Server` allows, is an abstraction of `OutboxWorker` and `Decisions` themselves and not
   only of the specifications all three refine.
2. The safety core of liveness: which action is enabled in every state in which something
   is still to be done, stated without ENABLED, so that what TLC checks under fairness
   rests on proved progress.
3. The rules not modelled yet that sum or compare lists, with the lemmas on folds.

New properties go into the existing runs where their systems compose.
