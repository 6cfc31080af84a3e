------------------------------- MODULE Server -------------------------------
(***************************************************************************)
(* The server as run of cmd/server/main.go composes it: HTTP handlers, the *)
(* outbox worker and the steps of starting and stopping over one database  *)
(* handle with one connection, through the lives of several processes.     *)
(*                                                                         *)
(* What Decisions and OutboxWorker have in detail is one step here: a      *)
(* transaction takes the connection and commits, a job is delivered and    *)
(* recorded.  The counts of Overview and of the operations report are      *)
(* taken table by table, as the code does.                                 *)
(***************************************************************************)
EXTENDS Naturals, FiniteSets

CONSTANTS
  Allowed, Denied,   \* decisions clients ask for, and what the rule says of them
  Unaddressed,       \* decisions whose tenant is blank: Job.Validate rejects their jobs
  Readers,           \* requests for the overview or the operations report
  BatchSize,         \* of the worker
  None,              \* no request, no job
  MaxDisruptions     \* bound on signals, crashes and listener failures together

Evaluations == Allowed \cup Denied
Requests    == Evaluations \cup Readers

\* Decisions of the tenant the readers ask for.  A blank tenant is one of its own.
Addressed == Evaluations \ Unaddressed

\* Bound on the deliveries counted: one more than there can be processes, plus one.
DeliveryCap == MaxDisruptions + 2

ASSUME ServerAssumption ==
  /\ IsFiniteSet(Allowed) /\ IsFiniteSet(Denied)
  /\ Allowed \cap Denied = {} /\ Evaluations \cap Readers = {}
  /\ Unaddressed \subseteq Evaluations
  /\ None \notin Requests
  /\ BatchSize \in Nat \ {0} /\ MaxDisruptions \in Nat

VARIABLES
  recorded,     \* table audit_events: the decisions recorded
  jobs,         \* table outbox_jobs: "none", "open" or "settled" for each decision
  main,         \* where run stands, "down" between two processes
  outcome,      \* what the last run returned
  canceled,     \* the root context is done: the process was told to stop
  closed,       \* the database handle is closed
  conn,         \* the request whose transaction holds the connection, or None
  worker,       \* the goroutine of the worker: "spawned", "running", "done"
  batch,        \* the jobs it read and did not get to yet
  held,         \* the job it delivered and did not record yet, or None
  pc,           \* where each request stands
  view,         \* what a reader has counted
  told,         \* history: decisions their clients know
  deliveries,   \* history: how often each job was delivered, up to DeliveryCap
  lives,        \* history: processes so far
  disruptions   \* history: signals, crashes and listener failures so far

tables  == <<recorded, jobs>>
process == <<main, outcome, canceled, closed>>
loop    == <<worker, batch, held>>
clients == <<pc, view, told>>
vars    == <<tables, process, conn, loop, clients, deliveries, lives, disruptions>>

-----------------------------------------------------------------------------
\* "running", "counted" and "tx" are inside the handler, "recorded" and "failed" have
\* its result and write the response.
Active == {r \in Requests : pc[r] \in {"running", "counted", "tx", "recorded", "failed"}}

Job(state) == {j \in Allowed : jobs[j] = state}

\* The WHERE clause of the poll; a version that claims a job when it is delivered.
DueUnclaimed == {j \in Job("open") : deliveries[j] = 0}
Due          == Job("open")

NoView == [of |-> "none", floor |-> 0, jobs |-> 0, audits |-> 0]

Init ==
  /\ recorded = {}
  /\ jobs = [j \in Allowed |-> "none"]
  /\ main = "serving" /\ outcome = "none" /\ canceled = FALSE /\ closed = FALSE
  /\ conn = None
  /\ worker = "spawned" /\ batch = {} /\ held = None
  /\ pc = [r \in Requests |-> "absent"]
  /\ view = [r \in Readers |-> NoView]
  /\ told = {}
  /\ deliveries = [j \in Allowed |-> 0]
  /\ lives = 1
  /\ disruptions = 0

Goto(r, step) == pc' = [pc EXCEPT ![r] = step]

\* A statement outside a transaction runs when the connection is free.
Statement == ~closed /\ conn = None

-----------------------------------------------------------------------------
\* A request arrives on a new connection, or on one the listener accepted before it
\* was closed.  Shutdown returns without an error only when none of those is left.
Listening == main \in {"serving", "shutdown"} \/ (main = "returning" /\ outcome # "clean")

Receive(r) ==
  /\ Listening
  /\ pc[r] = "absent"
  /\ Goto(r, "running")
  /\ IF r \in Readers
     THEN \E of \in {"overview", "report"} :
            view' = [view EXCEPT ![r].of = of, ![r].floor = Cardinality(told \cap Allowed \cap Addressed)]
     ELSE UNCHANGED view
  /\ UNCHANGED <<tables, process, conn, loop, told, deliveries, lives, disruptions>>

\* BeginTx.
Begin(r) ==
  /\ r \in Evaluations
  /\ pc[r] = "running"
  /\ Statement
  /\ conn' = r
  /\ Goto(r, "tx")
  /\ UNCHANGED <<tables, process, loop, view, told, deliveries, lives, disruptions>>

CommitKeepsConnection(r) ==
  /\ pc[r] = "tx"
  /\ recorded' = recorded \cup {r}
  /\ jobs' = IF r \in Allowed THEN [jobs EXCEPT ![r] = "open"] ELSE jobs
  /\ Goto(r, "recorded")
  /\ UNCHANGED <<process, conn, loop, view, told, deliveries, lives, disruptions>>
CommitWithoutJob(r) ==
  /\ pc[r] = "tx"
  /\ recorded' = recorded \cup {r}
  /\ conn' = None
  /\ Goto(r, "recorded")
  /\ UNCHANGED <<jobs, process, loop, view, told, deliveries, lives, disruptions>>
\* The inserts of Evaluate and the commit.  Close leaves a connection that is in
\* use to its transaction.
Commit(r) ==
  /\ pc[r] = "tx"
  /\ recorded' = recorded \cup {r}
  /\ jobs' = IF r \in Allowed THEN [jobs EXCEPT ![r] = "open"] ELSE jobs
  /\ conn' = None
  /\ Goto(r, "recorded")
  /\ UNCHANGED <<process, loop, view, told, deliveries, lives, disruptions>>

\* The last two counts of Overview and of Build are of outbox_jobs and audit_events,
\* in this order and WHERE tenant_id=?.  The report counts the jobs that are not
\* settled, and asks of the events only for the latest.
Listed(of) == Addressed \cap (Job("open") \cup IF of = "overview" THEN Job("settled") ELSE {})
Tally(r, table) ==
  IF table = "jobs"
  THEN [view[r] EXCEPT !.jobs = Cardinality(Listed(view[r].of))]
  ELSE [view[r] EXCEPT !.audits = Cardinality(recorded \cap Addressed)]
TallyBackwards(r) == Tally(r, IF pc[r] = "running" THEN "audits" ELSE "jobs")
TallyNext(r)      == Tally(r, IF pc[r] = "running" THEN "jobs" ELSE "audits")

Count(r) ==
  /\ r \in Readers
  /\ pc[r] \in {"running", "counted"}
  /\ Statement
  /\ view' = [view EXCEPT ![r] = TallyNext(r)]
  /\ Goto(r, IF pc[r] = "running" THEN "counted" ELSE "recorded")
  /\ UNCHANGED <<tables, process, conn, loop, told, deliveries, lives, disruptions>>

\* Whoever waits for the connection of a closed handle, or asks it for one, gets
\* an error.
Refused(r) ==
  /\ pc[r] \in {"running", "counted"}
  /\ closed
  /\ Goto(r, "failed")
  /\ UNCHANGED <<tables, process, conn, loop, view, told, deliveries, lives, disruptions>>

Answer(r) ==
  /\ pc[r] \in {"recorded", "failed"}
  /\ told' = IF pc[r] = "recorded" /\ r \in Evaluations THEN told \cup {r} ELSE told
  /\ Goto(r, IF pc[r] = "recorded" THEN "answered" ELSE "refused")
  /\ UNCHANGED <<tables, process, conn, loop, view, deliveries, lives, disruptions>>

-----------------------------------------------------------------------------
\* Run counts itself into the wait group when it is first scheduled.
Launch ==
  /\ main # "down"
  /\ worker = "spawned"
  /\ worker' = "running"
  /\ UNCHANGED <<tables, process, conn, batch, held, clients, deliveries, lives, disruptions>>

Resting == worker = "running" /\ batch = {} /\ held = None

\* Process reads the first jobs in the order of their stamps, which is any order.  A
\* query under a context that is done, or of a closed handle, fails: nothing happens.
Poll ==
  /\ Resting
  /\ ~canceled
  /\ Statement
  /\ \E some \in SUBSET Due :
       /\ some # {}
       /\ Cardinality(some) = BatchSize \/ (some = Due /\ Cardinality(some) < BatchSize)
       /\ batch' = some
  /\ UNCHANGED <<tables, process, conn, worker, held, clients, deliveries, lives, disruptions>>

Bump(n) == IF n < DeliveryCap THEN n + 1 ELSE n

\* LogPublisher refuses once the context is done; that outcome cannot be stored
\* under the same context, so the job is left as it was.
Publish(j) ==
  /\ j \in batch /\ held = None
  /\ batch' = batch \ {j}
  /\ IF canceled
     THEN UNCHANGED <<held, deliveries>>
     ELSE held' = j /\ deliveries' = [deliveries EXCEPT ![j] = Bump(@)]
  /\ UNCHANGED <<tables, process, conn, worker, clients, lives, disruptions>>

\* JobRepository.Update validates before it asks for the connection.
Invalid == held \in Unaddressed

RecordOrGiveUp ==
  /\ held # None
  /\ jobs' = IF Invalid \/ canceled \/ ~Statement THEN jobs ELSE [jobs EXCEPT ![held] = "settled"]
  /\ held' = None
  /\ UNCHANGED <<recorded, process, conn, worker, batch, clients, deliveries, lives, disruptions>>
\* The write-back waits for the connection.  A job that does not validate it refuses
\* at once; under a context that is done, or on a closed handle, it fails.  Process
\* drops each of these errors and goes on to the next job.
Record ==
  /\ held # None
  /\ Invalid \/ canceled \/ closed \/ Statement
  /\ jobs' = IF Invalid \/ canceled \/ closed THEN jobs ELSE [jobs EXCEPT ![held] = "settled"]
  /\ held' = None
  /\ UNCHANGED <<recorded, process, conn, worker, batch, clients, deliveries, lives, disruptions>>

StopWhenDrained ==
  /\ Resting
  /\ canceled
  /\ Due = {}
  /\ worker' = "done"
  /\ UNCHANGED <<tables, process, conn, batch, held, clients, deliveries, lives, disruptions>>
Stop ==
  /\ Resting
  /\ canceled
  /\ worker' = "done"
  /\ UNCHANGED <<tables, process, conn, batch, held, clients, deliveries, lives, disruptions>>

-----------------------------------------------------------------------------
Disrupt == disruptions < MaxDisruptions /\ disruptions' = disruptions + 1

\* SIGTERM or SIGINT: NotifyContext ends the root context.
Signal ==
  /\ main # "down" /\ ~canceled
  /\ Disrupt
  /\ canceled' = TRUE
  /\ UNCHANGED <<tables, main, outcome, closed, conn, loop, clients, deliveries, lives>>

Return(result) == main' = "returning" /\ outcome' = result

\* ListenAndServe returns an error: run returns at once.
ListenFails ==
  /\ main = "serving"
  /\ Disrupt
  /\ Return("error")
  /\ UNCHANGED <<tables, canceled, closed, conn, loop, clients, deliveries, lives>>

BeginShutdown ==
  /\ main = "serving" /\ canceled
  /\ main' = "shutdown"
  /\ UNCHANGED <<tables, outcome, canceled, closed, conn, loop, clients, deliveries, lives, disruptions>>

ShutdownDone ==
  /\ main = "shutdown" /\ Active = {}
  /\ main' = "waiting"
  /\ UNCHANGED <<tables, outcome, canceled, closed, conn, loop, clients, deliveries, lives, disruptions>>

\* The timeout of the shutdown passes: run returns without waiting for the worker.
ShutdownTimesOut ==
  /\ main = "shutdown" /\ Active # {}
  /\ Return("timeout")
  /\ UNCHANGED <<tables, canceled, closed, conn, loop, clients, deliveries, lives, disruptions>>

ReturnWithoutWait ==
  /\ main = "waiting"
  /\ Return("clean")
  /\ UNCHANGED <<tables, canceled, closed, conn, loop, clients, deliveries, lives, disruptions>>
\* The wait group is empty when the worker is done, and before it has begun.
WaitDone ==
  /\ main = "waiting" /\ worker # "running"
  /\ Return("clean")
  /\ UNCHANGED <<tables, canceled, closed, conn, loop, clients, deliveries, lives, disruptions>>

\* The deferred calls, last one first: Close, then the cancellation, then main ends.
Close ==
  /\ main = "returning" /\ ~closed
  /\ closed' = TRUE
  /\ UNCHANGED <<tables, main, outcome, canceled, conn, loop, clients, deliveries, lives, disruptions>>

\* The process is gone: its transaction is undone, its memory and connections lost.
End ==
  /\ main' = "down"
  /\ canceled' = FALSE /\ closed' = FALSE
  /\ conn' = None
  /\ worker' = "spawned" /\ batch' = {} /\ held' = None
  /\ pc' = [r \in Requests |-> IF r \in Active THEN "lost" ELSE pc[r]]
  /\ UNCHANGED <<tables, view, told, deliveries, lives>>

Exit == main = "returning" /\ closed /\ End /\ UNCHANGED <<outcome, disruptions>>

Crash == main # "down" /\ Disrupt /\ End /\ outcome' = "crash"

\* Open, Migrate and Bootstrap find what is there (Startup has them in detail).
Start ==
  /\ main = "down"
  /\ main' = "serving"
  /\ outcome' = "none"
  /\ lives' = lives + 1
  /\ UNCHANGED <<tables, canceled, closed, conn, loop, clients, deliveries, disruptions>>

-----------------------------------------------------------------------------
Handle(r) == Begin(r) \/ Commit(r) \/ Count(r) \/ Refused(r) \/ Answer(r)
Run       == Launch \/ Poll \/ Record \/ Stop \/ \E j \in Allowed : Publish(j)
Main      == BeginShutdown \/ ShutdownDone \/ ShutdownTimesOut \/ WaitDone \/ Close \/ Exit \/ Start

Next ==
  \/ \E r \in Requests : Receive(r) \/ Handle(r)
  \/ Run \/ Main
  \/ Signal \/ ListenFails \/ Crash

Spec == Init /\ [][Next]_vars

\* Handlers, the worker and run are scheduled, the timeout of the shutdown passes and
\* a stopped server is started again.  Nothing is assumed of signals or failures.
FairSpec == Spec /\ WF_vars(Run) /\ WF_vars(Main) /\ \A r \in Requests : WF_vars(Handle(r))

-----------------------------------------------------------------------------
\* The types of the state; the connection is held by the one request inside a
\* transaction.
TypeOK ==
  /\ recorded \subseteq Evaluations
  /\ jobs \in [Allowed -> {"none", "open", "settled"}]
  /\ main \in {"serving", "shutdown", "waiting", "returning", "down"}
  /\ outcome \in {"none", "clean", "timeout", "error", "crash"}
  /\ canceled \in BOOLEAN /\ closed \in BOOLEAN
  /\ conn \in Evaluations \cup {None}
  /\ \A r \in Requests : conn = r <=> pc[r] = "tx"
  /\ worker \in {"spawned", "running", "done"}
  /\ batch \subseteq Allowed /\ held \in Allowed \cup {None}
  /\ pc \in [Requests -> {"absent", "running", "counted", "tx", "recorded", "failed",
                          "answered", "refused", "lost"}]
  /\ view \in [Readers -> [of : {"none", "overview", "report"}, floor : Nat, jobs : Nat, audits : Nat]]
  /\ told \subseteq Evaluations
  /\ deliveries \in [Allowed -> 0..DeliveryCap]
  /\ lives \in Nat /\ disruptions \in 0..MaxDisruptions

\* A run that ends cleanly has dropped nothing: when it closes the database no
\* transaction is open, no handler runs and the worker holds no job, whatever was
\* under way when the signal came and in whichever order the goroutines stopped.
CleanStop == outcome = "clean" =>
  conn = None /\ Active = {} /\ batch = {} /\ held = None

\* The counts of an answer are of different states and still fit together, because
\* jobs are counted before the events that are written with them: an overview never
\* shows more jobs than decisions, nor fewer than its client knew of when it asked;
\* a report with pending jobs names a latest event.
OverviewAddsUp(v) == v.floor <= v.jobs /\ v.jobs <= v.audits
ReportAddsUp(v)   == v.jobs > 0 \/ v.floor > 0 => v.audits > 0
ViewsAddUp == \A r \in Readers : pc[r] = "answered" =>
  IF view[r].of = "overview" THEN OverviewAddsUp(view[r]) ELSE ReportAddsUp(view[r])

\* While the store itself does not fail, a process delivers a job whose tenant is not
\* blank at most once: only the end of a process, clean or not, can lose the record
\* of that delivery.  Of jobs under a blank tenant nothing is said, their delivery can
\* never be recorded.
OncePerLife == \A j \in Allowed \ Unaddressed : deliveries[j] <= lives

\* The composition implements both abstract specifications at once: recording as
\* the coordinator promises it, and the life of every notification.
Log == INSTANCE DecisionLog WITH
  Requests <- Evaluations, KeyOf <- [r \in Evaluations |-> r], notified <- Allowed \ Job("none")
Outbox == INSTANCE JobLifecycle WITH
  Jobs <- Allowed, MaxAttempts <- 5,
  state <- jobs, misses <- [j \in Allowed |-> 0], handed <- [j \in Allowed |-> deliveries[j] > 0]
ImplementsParts == Log!Spec /\ Outbox!Spec

\* Nothing hangs: every handler comes to its end, and run returns once it was told
\* to stop, although Wait has no timeout.
RequestEnds(r) == r \in Active ~> r \notin Active
NothingHangs   == (\A r \in Requests : RequestEnds(r)) /\ (canceled ~> main = "down")

\* A recorded decision whose tenant is not blank is delivered and settled in the end,
\* by whichever process, although every poll reads the jobs of blank tenants again.
\* This needs fewer of those than a poll reads: a batch of them fills every poll and
\* leaves no place to any other job.
EveryDecisionDelivered == Cardinality(Unaddressed) < BatchSize =>
  \A j \in Allowed \ Unaddressed : j \in recorded ~> jobs[j] = "settled"
=============================================================================
