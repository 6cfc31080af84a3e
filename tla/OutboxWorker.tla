---------------------------- MODULE OutboxWorker ----------------------------
(***************************************************************************)
(* The outbox worker of internal/worker/outbox.go over the outbox_jobs     *)
(* table: a poll reads a batch of open jobs, each is handed to the         *)
(* publisher, and the outcome is written back under the optimistic         *)
(* version of internal/store/outbox_repository.go.                         *)
(*                                                                         *)
(* A worker is the OutboxWorker goroutine of one server process.  Several  *)
(* processes may share one database file (a new process starting while     *)
(* the old one still drains).  Between the poll and the write-back the     *)
(* worker only holds copies, so what another worker, a signal, a store     *)
(* error or a crash does in between is what this module is about.          *)
(*                                                                         *)
(* Time is relative.  A copy of a job carries its age, the whole seconds   *)
(* since its UpdatedAt; ages saturate at Horizon.  AvailableAt is always   *)
(* UpdatedAt plus the backoff of the recorded attempts, so it needs no     *)
(* field of its own.                                                       *)
(***************************************************************************)
EXTENDS Integers, Sequences, FiniteSets

CONSTANTS
  Jobs,            \* identifiers of outbox rows
  Unaddressed,     \* jobs whose tenant is blank: Job.Validate rejects them
  Workers,         \* server processes, one OutboxWorker each
  Batch,           \* rows read by one poll (WINDOPS_WORKER_BATCH)
  MaxAttempts,     \* failed attempts after which a job is given up (5)
  Outcomes,        \* what the publisher may answer: "ok", "error"
  MaxDisruptions,  \* bound on crashes, signals and store errors together
  Horizon,         \* bound on ages: at least the longest backoff
  HistoryCap       \* bound on the history counters

ASSUME JobsAssumption ==
  /\ IsFiniteSet(Jobs)
  /\ Unaddressed \subseteq Jobs
ASSUME BoundsAssumption ==
  /\ Batch \in Nat \ {0}
  /\ MaxAttempts \in Nat \ {0}
  /\ MaxDisruptions \in Nat
  /\ Horizon \in Nat
  /\ HistoryCap \in Nat
  /\ HistoryCap >= MaxAttempts
ASSUME OutcomesAssumption == Outcomes \subseteq {"ok", "error"}

VARIABLES
  rows,         \* the outbox_jobs table
  pc,           \* where each worker stands
  batch,        \* the copies a worker still has to process
  draft,        \* the copy a worker is about to write back
  canceled,     \* whether the context of a worker is done
  published,    \* history: deliveries the publisher accepted, per job
  failures,     \* history: deliveries the publisher refused, per job
  disruptions   \* history: crashes, signals and store errors so far

worker  == <<pc, batch, draft, canceled>>
history == <<published, failures>>
vars    == <<rows, pc, batch, draft, canceled, published, failures, disruptions>>

-----------------------------------------------------------------------------
Open    == {"pending", "retry"}
Settled == {"succeeded", "permanent_failure"}

Job == [id       : Jobs,
        status   : Open \cup Settled \cup {"absent"},
        version  : Nat,
        attempts : Nat,
        age      : 0..Horizon]

Absent(j) == [id |-> j, status |-> "absent", version |-> 0, attempts |-> 0, age |-> Horizon]

\* The row Coordinator.Evaluate inserts for an allowed decision.
NewJob(j) == [id |-> j, status |-> "pending", version |-> 1, attempts |-> 0, age |-> 0]

\* Seconds between UpdatedAt and AvailableAt of a job with n recorded attempts.
Backoff(n) == IF n = 0 THEN 0 ELSE 2 ^ (IF n < 8 THEN n ELSE 8)

DueAnytime(job) == TRUE
Due(job) == job.age >= Backoff(job.attempts)

Older(job) == [job EXCEPT !.age = IF @ < Horizon THEN @ + 1 ELSE @]

Bump(n) == IF n < HistoryCap THEN n + 1 ELSE n

\* What the worker writes back after the publisher answered.
ResultOffByOne(job, outcome) ==
  IF outcome = "ok"
  THEN [job EXCEPT !.status = "succeeded", !.version = @ + 1, !.age = 0]
  ELSE [job EXCEPT !.status = IF job.attempts + 2 >= MaxAttempts
                              THEN "permanent_failure" ELSE "retry",
                   !.attempts = @ + 1, !.version = @ + 1, !.age = 0]
ResultClaimed(job, outcome) ==
  IF outcome = "ok"
  THEN [job EXCEPT !.status = "succeeded", !.version = @ + 1, !.age = 0]
  ELSE [job EXCEPT !.status = "running", !.attempts = @ + 1, !.version = @ + 1, !.age = 0]
ResultLastSucceeds(job, outcome) ==
  IF outcome = "ok" \/ job.attempts + 1 >= MaxAttempts
  THEN [job EXCEPT !.status = "succeeded", !.version = @ + 1, !.age = 0]
  ELSE [job EXCEPT !.status = "retry", !.attempts = @ + 1, !.version = @ + 1, !.age = 0]
Result(job, outcome) ==
  IF outcome = "ok"
  THEN [job EXCEPT !.status = "succeeded", !.version = @ + 1, !.age = 0]
  ELSE [job EXCEPT !.status = IF job.attempts + 1 >= MaxAttempts
                              THEN "permanent_failure" ELSE "retry",
                   !.attempts = @ + 1, !.version = @ + 1, !.age = 0]

-----------------------------------------------------------------------------
Init ==
  /\ rows      = [j \in Jobs |-> Absent(j)]
  /\ pc        = [w \in Workers |-> "idle"]
  /\ batch     = [w \in Workers |-> <<>>]
  /\ draft     = [w \in Workers |-> <<>>]
  /\ canceled  = [w \in Workers |-> FALSE]
  /\ published = [j \in Jobs |-> 0]
  /\ failures  = [j \in Jobs |-> 0]
  /\ disruptions = 0

\* A committed decision transaction put a job into the table.
Enqueue(j) ==
  /\ rows[j].status = "absent"
  /\ rows' = [rows EXCEPT ![j] = NewJob(j)]
  /\ UNCHANGED <<worker, history, disruptions>>

\* One second passes for every copy of a job, stored or held.
Elapse ==
  /\ rows'  = [j \in Jobs |-> Older(rows[j])]
  /\ batch' = [w \in Workers |-> [i \in DOMAIN batch[w] |-> Older(batch[w][i])]]
  /\ draft' = [w \in Workers |-> [i \in DOMAIN draft[w] |-> Older(draft[w][i])]]
  /\ UNCHANGED <<pc, canceled, history, disruptions>>

-----------------------------------------------------------------------------
EligiblePending == {j \in Jobs : rows[j].status = "pending"}
EligibleAny == {j \in Jobs : rows[j].status \notin {"absent", "permanent_failure"}}
Eligible == {j \in Jobs : rows[j].status \in Open}

\* The result of the poll's SELECT: open jobs by updated_at, oldest first, at
\* most Batch of them.  Stamps of one second come in any order: as text,
\* "...:00.5Z" sorts before "...:00Z".
Selections ==
  LET size == IF Batch < Cardinality(Eligible) THEN Batch ELSE Cardinality(Eligible)
  IN {s \in [1..size -> Eligible] :
        /\ \A i, k \in 1..size : i < k => s[i] # s[k] /\ rows[s[i]].age >= rows[s[k]].age
        /\ \A i \in 1..size : \A j \in Eligible :
             rows[j].age > rows[s[i]].age => \E k \in 1..size : s[k] = j}

Poll(w) ==
  /\ pc[w] = "idle"
  /\ ~canceled[w]
  /\ \E s \in Selections :
       /\ batch' = [batch EXCEPT ![w] = [i \in DOMAIN s |-> rows[s[i]]]]
       /\ pc'    = [pc EXCEPT ![w] = IF DOMAIN s = {} THEN "idle" ELSE "working"]
  /\ UNCHANGED <<rows, draft, canceled, history, disruptions>>

\* The loop of Process moves on, whatever the error of processOne was.
Advance(w) ==
  LET rest == Tail(batch[w])
  IN /\ batch' = [batch EXCEPT ![w] = rest]
     /\ pc'    = [pc EXCEPT ![w] = IF rest = <<>> THEN "idle" ELSE "working"]

\* processOne returns early: the job is not due yet.
Skip(w) ==
  /\ pc[w] = "working"
  /\ ~Due(Head(batch[w]))
  /\ Advance(w)
  /\ UNCHANGED <<rows, draft, canceled, history, disruptions>>

\* The publisher refuses as soon as the context is done.
Answers(w) == IF canceled[w] THEN {"canceled"} ELSE Outcomes

Publish(w, outcome) ==
  LET job == Head(batch[w])
  IN /\ pc[w] = "working"
     /\ Due(job)
     /\ outcome \in Answers(w)
     /\ draft' = [draft EXCEPT ![w] = <<Result(job, outcome)>>]
     /\ pc'    = [pc EXCEPT ![w] = "published"]
     /\ published' = IF outcome = "ok"
                     THEN [published EXCEPT ![job.id] = Bump(@)] ELSE published
     /\ failures'  = IF outcome = "error"
                     THEN [failures EXCEPT ![job.id] = Bump(@)] ELSE failures
     /\ UNCHANGED <<rows, batch, canceled, disruptions>>

\* JobRepository.Update goes through: the value validates, the context is not
\* done, and the row still has the version of the copy.
AcceptsStale(w, job) == ~canceled[w] /\ job.id \notin Unaddressed
AcceptsCanceled(w, job) == job.id \notin Unaddressed /\ rows[job.id].version = job.version
Accepts(w, job) ==
  /\ job.id \notin Unaddressed
  /\ ~canceled[w]
  /\ rows[job.id].version = job.version

Record(w) ==
  LET job == Head(batch[w])
  IN /\ pc[w] = "published"
     /\ rows' = IF Accepts(w, job) THEN [rows EXCEPT ![job.id] = draft[w][1]] ELSE rows
     /\ draft' = [draft EXCEPT ![w] = <<>>]
     /\ Advance(w)
     /\ UNCHANGED <<canceled, history, disruptions>>

-----------------------------------------------------------------------------
Disrupt == disruptions < MaxDisruptions /\ disruptions' = disruptions + 1

\* The update fails in the store; the error is dropped like every other.
RecordFails(w) ==
  /\ pc[w] = "published"
  /\ Disrupt
  /\ draft' = [draft EXCEPT ![w] = <<>>]
  /\ Advance(w)
  /\ UNCHANGED <<rows, canceled, history>>

\* SIGINT or SIGTERM cancels the context the worker runs under.
Signal(w) ==
  /\ pc[w] # "stopped"
  /\ ~canceled[w]
  /\ Disrupt
  /\ canceled' = [canceled EXCEPT ![w] = TRUE]
  /\ UNCHANGED <<rows, pc, batch, draft, history>>

\* Run returns once its select sees the context done.
Stop(w) ==
  /\ pc[w] = "idle"
  /\ canceled[w]
  /\ pc' = [pc EXCEPT ![w] = "stopped"]
  /\ UNCHANGED <<rows, batch, draft, canceled, history, disruptions>>

\* The process dies: its copies are gone, the table stays.
Crash(w) ==
  /\ pc[w] # "stopped"
  /\ Disrupt
  /\ pc'    = [pc EXCEPT ![w] = "stopped"]
  /\ batch' = [batch EXCEPT ![w] = <<>>]
  /\ draft' = [draft EXCEPT ![w] = <<>>]
  /\ UNCHANGED <<rows, canceled, history>>

\* A new process starts a worker with a fresh context.
Restart(w) ==
  /\ pc[w] = "stopped"
  /\ pc'       = [pc EXCEPT ![w] = "idle"]
  /\ canceled' = [canceled EXCEPT ![w] = FALSE]
  /\ UNCHANGED <<rows, batch, draft, history, disruptions>>

Step(w) ==
  \/ Poll(w)
  \/ Skip(w)
  \/ \E outcome \in Outcomes \cup {"canceled"} : Publish(w, outcome)
  \/ Record(w)
  \/ Stop(w)

Next ==
  \/ \E j \in Jobs : Enqueue(j)
  \/ Elapse
  \/ \E w \in Workers :
       Step(w) \/ RecordFails(w) \/ Signal(w) \/ Crash(w) \/ Restart(w)

Spec == Init /\ [][Next]_vars

\* The clock runs, the goroutine of a live process is scheduled, the publisher
\* returns, and a stopped server is started again.
Fairness ==
  /\ WF_vars(Elapse)
  /\ \A w \in Workers : WF_vars(Step(w)) /\ WF_vars(Restart(w))

FairSpec == Spec /\ Fairness

-----------------------------------------------------------------------------
TypeOK ==
  /\ rows \in [Jobs -> Job]
  /\ pc \in [Workers -> {"idle", "working", "published", "stopped"}]
  /\ batch \in [Workers -> Seq(Job)]
  /\ draft \in [Workers -> Seq(Job)]
  /\ canceled \in [Workers -> BOOLEAN]
  /\ published \in [Jobs -> 0..HistoryCap]
  /\ failures \in [Jobs -> 0..HistoryCap]
  /\ disruptions \in 0..MaxDisruptions

\* The version of a job counts exactly the outcomes recorded for it: processOne
\* bumps it once per outcome, so no write-back is lost or applied twice even
\* when two workers hold copies of the same row.
Consistent(job) ==
  CASE job.status = "absent"            -> job.version = 0 /\ job.attempts = 0
    [] job.status = "pending"           -> job.version = 1 /\ job.attempts = 0
    [] job.status = "retry"             -> /\ job.attempts \in 1..(MaxAttempts - 1)
                                           /\ job.version = job.attempts + 1
    [] job.status = "succeeded"         -> /\ job.attempts \in 0..(MaxAttempts - 1)
                                           /\ job.version = job.attempts + 2
    [] job.status = "permanent_failure" -> /\ job.attempts = MaxAttempts
                                           /\ job.version = MaxAttempts + 1

VersionCountsOutcomes == \A j \in Jobs : rows[j].id = j /\ Consistent(rows[j])

\* A job stored as succeeded was accepted by the publisher at least once:
\* processOne never records a success that did not happen, across crashes,
\* signals and stale copies.
SucceededWasPublished ==
  \A j \in Jobs : rows[j].status = "succeeded" => published[j] > 0

\* A job is given up only after the publisher itself refused it MaxAttempts
\* times: deliveries cut short by a shutdown (whose write-back runs under a
\* context that is done) never use up an attempt.
GivenUpAfterRefusals ==
  \A j \in Jobs : rows[j].status = "permanent_failure" => failures[j] >= MaxAttempts

\* What a worker holds is at most as new as the row: a copy is an open job that
\* was stored once, a copy with the version of the row is the row, and every
\* attempt in it was a refusal of the publisher.
Agrees(copy, row, refusals) ==
  /\ copy.status \in Open
  /\ Consistent(copy)
  /\ row.status # "absent"
  /\ copy.version <= row.version
  /\ copy.version = row.version => copy.status = row.status /\ copy.attempts = row.attempts
  /\ copy.attempts <= refusals

\* A draft is the next version of the copy it was made from.  While it may still
\* be stored it tells only what the publisher answered: a success was accepted,
\* an attempt was refused.
Follows(new, job, deliveries, refusals, off) ==
  /\ new.id = job.id
  /\ new.version = job.version + 1
  /\ \/ /\ new.status = "succeeded"
        /\ new.attempts = job.attempts
        /\ deliveries > 0
     \/ /\ new.status = IF new.attempts >= MaxAttempts THEN "permanent_failure" ELSE "retry"
        /\ new.attempts = job.attempts + 1
        /\ off \/ new.attempts <= refusals

HeldCopy(w, i) ==
  LET copy == batch[w][i] IN Agrees(copy, rows[copy.id], failures[copy.id])

HeldDraft(w) ==
  LET job == Head(batch[w])
  IN Len(draft[w]) = 1 /\ Follows(draft[w][1], job, published[job.id], failures[job.id], canceled[w])

\* Whatever the workers interleave, the copies and drafts they hold across the
\* poll, the delivery and the write-back agree with the table in this sense.
CopiesAgree ==
  \A w \in Workers :
    /\ \A i \in DOMAIN batch[w] : HeldCopy(w, i)
    /\ pc[w] \in {"working", "published"} <=> batch[w] # <<>>
    /\ pc[w] = "published" => HeldDraft(w)

\* A settled job is never written again: a worker that still holds an older copy
\* fails on the version and leaves the outcome alone.
SettledIsFinal ==
  [][\A j \in Jobs : rows[j].status \in Settled
       => /\ rows'[j].status = rows[j].status
          /\ rows'[j].version = rows[j].version
          /\ rows'[j].attempts = rows[j].attempts]_rows

\* With one worker, a job is handed over a second time only if a crash, a signal
\* or a store error lost the record of the first delivery.
DuplicatesNeedDisruption == \A j \in Jobs : published[j] <= 1 + disruptions

\* The rule on retries that clients may ask; seconds since the job was last written.
OutboxRetryIsDue(ctx) ==
  /\ ctx.Attempts >= 0 /\ ctx.MaxAttempts >= 1
  /\ ctx.Attempts < ctx.MaxAttempts
  /\ ctx.Now >= ctx.Deadline

\* With one worker, the publisher is called only when the program's own rule on
\* retries allows it for the stored row, although the worker decides on a copy
\* made at the poll and by code of its own.
BackoffRespected ==
  [][\A w \in Workers :
       pc[w] = "working" /\ pc'[w] = "published"
         => LET row == rows[Head(batch[w]).id]
            IN OutboxRetryIsDue([Attempts |-> row.attempts, MaxAttempts |-> MaxAttempts,
                                 Now |-> row.age, Deadline |-> Backoff(row.attempts)])]_vars

\* Every job in the table is eventually recorded as succeeded or given up,
\* however the publisher answers.
EveryJobSettles ==
  \A j \in Jobs : rows[j].status \in Open ~> rows[j].status \in Settled

\* While every job of the table is open, one of them is settled in the end: the
\* notifications do not all wait behind one that can never be recorded.
BacklogMoves ==
  (\A j \in Jobs : rows[j].status \in Open) ~> (\E j \in Jobs : rows[j].status \in Settled)

\* The table, seen through the abstract lifecycle: the worker implements it.
StateOf(status) ==
  CASE status = "absent"            -> "none"
    [] status \in Open              -> "open"
    [] status = "succeeded"         -> "settled"
    [] status = "permanent_failure" -> "given_up"

Lifecycle == INSTANCE JobLifecycle WITH
  state  <- [j \in Jobs |-> StateOf(rows[j].status)],
  misses <- [j \in Jobs |-> rows[j].attempts],
  handed <- [j \in Jobs |-> published[j] > 0]

\* Each step on the table is a step the abstract lifecycle allows, or none.
ImplementsLifecycle == Lifecycle!Spec
=============================================================================
