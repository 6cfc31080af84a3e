---------------------------- MODULE ServerProofs ----------------------------
(***************************************************************************)
(* Proofs about Server, for any decisions, readers, batch size and number  *)
(* of disruptions: types, the clean end, one delivery per process, counts  *)
(* that fit together, and the refinement of both abstract specifications.  *)
(***************************************************************************)
EXTENDS Server, FiniteSetTheorems, TLAPS

\* The rows of a decision are there together, under the handler that wrote them, and
\* clients know only of what is there.
TableInv ==
  /\ \A j \in Allowed : jobs[j] = "none" <=> j \notin recorded
  /\ \A r \in Evaluations :
       /\ r \in recorded => pc[r] \in {"recorded", "answered", "lost"}
       /\ pc[r] \in {"recorded", "answered"} => r \in recorded
  /\ told \subseteq recorded

\* What the worker holds is open and not delivered by this process, except the one job
\* whose delivery it has still to record.  An open job that was delivered by this
\* process is out of the reach of its polls.  Jobs of blank tenants are excepted.
Fresh(j) == j \in Unaddressed \/ deliveries[j] < lives
WorkerInv ==
  /\ lives >= 1
  /\ main = "down" => worker = "spawned"
  /\ worker # "running" => batch = {} /\ held = None
  /\ \A j \in batch : jobs[j] = "open" /\ j # held /\ Fresh(j)
  /\ held # None => jobs[held] = "open" /\ deliveries[held] > 0
  /\ \A j \in Allowed : jobs[j] = "none" => deliveries[j] = 0
  /\ main # "down" /\ ~canceled /\ ~closed =>
       \A j \in Allowed : jobs[j] = "open" /\ j # held => Fresh(j)
  /\ OncePerLife

\* How far run has come tells what is over.
RunInv ==
  /\ main = "down" => Active = {}
  /\ main \in {"serving", "shutdown", "waiting"} => outcome = "none"
  /\ main \in {"shutdown", "waiting"} => canceled
  /\ main = "waiting" => Active = {}
  /\ outcome = "clean" =>
       /\ main \in {"returning", "down"}
       /\ main = "returning" => canceled
       /\ Active = {} /\ batch = {} /\ held = None

\* The decisions of the readers' tenant that are recorded, and those with a job.
Events    == recorded \cap Addressed
Notified  == recorded \cap Allowed \cap Addressed

\* What a reader has counted is bounded by what is in the tables by now.
Fits(v) == IF v.of = "overview" THEN OverviewAddsUp(v) ELSE ReportAddsUp(v)
ViewInv == \A r \in Readers :
  /\ pc[r] \in {"running", "counted"} => view[r].floor <= Cardinality(Notified)
  /\ pc[r] = "counted" =>
       /\ view[r].of = "overview" => view[r].floor <= view[r].jobs
       /\ view[r].jobs <= Cardinality(Events)
  /\ pc[r] \in {"recorded", "answered"} => Fits(view[r])

\* The inductive invariant.
IInv == TypeOK /\ TableInv /\ WorkerInv /\ RunInv /\ ViewInv

-----------------------------------------------------------------------------
\* None is nobody.
LEMMA NobodyIsNone ==
  /\ \A r \in Requests : r # None
  /\ Allowed \subseteq Evaluations /\ Evaluations \subseteq Requests /\ Readers \subseteq Requests
  /\ \A r \in Evaluations : r \notin Readers
  BY ServerAssumption DEF Requests, Evaluations

\* What is counted can be counted.
LEMMA Countable ==
  /\ IsFiniteSet(Allowed) /\ IsFiniteSet(Evaluations)
  /\ \A S \in SUBSET Evaluations : IsFiniteSet(S) /\ Cardinality(S) \in Nat
<1>1. IsFiniteSet(Evaluations)
  BY ServerAssumption, FS_Union DEF Evaluations
<1>2. ASSUME NEW S \in SUBSET Evaluations PROVE IsFiniteSet(S) /\ Cardinality(S) \in Nat
  BY <1>1, <1>2, FS_Subset, FS_CardinalityType
<1> QED
  BY <1>1, <1>2, ServerAssumption

\* A larger set of decisions counts no less.
LEMMA CountsGrow ==
  ASSUME NEW S \in SUBSET Evaluations, NEW T \in SUBSET S
  PROVE  Cardinality(T) <= Cardinality(S) /\ Cardinality(S) \in Nat /\ Cardinality(T) \in Nat
  BY Countable, FS_Subset

\* Only the empty set counts nothing.
LEMMA CountsSomething ==
  ASSUME NEW S \in SUBSET Evaluations
  PROVE  S = {} <=> Cardinality(S) = 0
  BY Countable, FS_EmptySet

\* The groups the next-state relation falls into.
LEMMA StepCases ==
  ASSUME [Next]_vars
  PROVE  \/ \E r \in Requests : Receive(r) \/ Begin(r) \/ Commit(r) \/ Count(r) \/ Refused(r) \/ Answer(r)
         \/ Launch \/ Poll \/ Record \/ Stop \/ (\E j \in Allowed : Publish(j))
         \/ BeginShutdown \/ ShutdownDone \/ ShutdownTimesOut \/ WaitDone \/ Close \/ Exit \/ Start
         \/ Signal \/ ListenFails \/ Crash
         \/ UNCHANGED vars
  BY DEF Next, Handle, Run, Main

-----------------------------------------------------------------------------
\* What a reader counts is a view.
View == [of : {"none", "overview", "report"}, floor : Nat, jobs : Nat, audits : Nat]

LEMMA TallyType ==
  ASSUME TypeOK, NEW r \in Readers
  PROVE  TallyNext(r) \in View
<1>1. view[r] \in View
  BY DEF TypeOK, View
<1>2. recorded \in SUBSET Evaluations
  BY DEF TypeOK
<1>3. \A S \in SUBSET Allowed : Cardinality(S) \in Nat
  BY Countable, NobodyIsNone
<1>4. Listed(view[r].of) \in SUBSET Allowed
  BY DEF Job, Listed
<1>5. Cardinality(recorded \cap Addressed) \in Nat
  BY <1>2, Countable
<1> QED
  BY <1>1, <1>3, <1>4, <1>5 DEF TallyNext, Tally, View

\* Types: the steps of a request.
LEMMA TypeOfRequests ==
  ASSUME TypeOK, NEW r \in Requests,
         Receive(r) \/ Begin(r) \/ Commit(r) \/ Count(r) \/ Refused(r) \/ Answer(r)
  PROVE  TypeOK'
<1> USE NobodyIsNone
<1>1. CASE Receive(r)
  <2>1. UNCHANGED <<tables, process, conn, loop, told, deliveries, lives, disruptions>>
        /\ pc' = [pc EXCEPT ![r] = "running"] /\ pc[r] = "absent"
    BY <1>1 DEF Receive, Goto
  <2>2. view' \in [Readers -> View]
    <3>1. CASE r \in Readers
      <4>1. PICK of \in {"overview", "report"} :
              view' = [view EXCEPT ![r].of = of, ![r].floor = Cardinality(told \cap Allowed \cap Addressed)]
        BY <1>1, <3>1 DEF Receive
      <4>2. Cardinality(told \cap Allowed \cap Addressed) \in Nat
        BY Countable
      <4>3. view \in [Readers -> View]
        BY DEF TypeOK, View
      <4> QED
        BY <4>1, <4>2, <4>3, <3>1 DEF View
    <3>2. CASE r \notin Readers
      BY <1>1, <3>2 DEF Receive, TypeOK, View
    <3> QED
      BY <3>1, <3>2
  <2> QED
    BY <2>1, <2>2 DEF TypeOK, View, tables, process, loop
<1>2. CASE Begin(r)
  <2>1. \A q \in Requests : conn' = q <=> pc'[q] = "tx"
    BY <1>2 DEF Begin, Goto, Statement, TypeOK
  <2> QED
    BY <1>2, <2>1 DEF Begin, Goto, TypeOK, tables, process, loop
<1>3. CASE Commit(r)
  <2>1. conn = r /\ r \in Evaluations
    BY <1>3 DEF Commit, TypeOK
  <2>2. \A q \in Requests : conn' = q <=> pc'[q] = "tx"
    BY <1>3, <2>1 DEF Commit, Goto, TypeOK
  <2> QED
    BY <1>3, <2>1, <2>2 DEF Commit, Goto, TypeOK, process, loop
<1>4. CASE Count(r)
  <2>1. TallyNext(r) \in View
    BY <1>4, TallyType DEF Count
  <2>2. view' \in [Readers -> View]
    BY <1>4, <2>1 DEF Count, TypeOK, View
  <2> QED
    BY <1>4, <2>2 DEF Count, Goto, TypeOK, View, tables, process, loop
<1>5. CASE Refused(r)
  BY <1>5 DEF Refused, Goto, TypeOK, tables, process, loop
<1>6. CASE Answer(r)
  BY <1>6 DEF Answer, Goto, TypeOK, tables, process, loop
<1> QED
  BY <1>1, <1>2, <1>3, <1>4, <1>5, <1>6

\* A delivery is counted, up to the bound.
LEMMA Bumped ==
  ASSUME NEW n \in 0..DeliveryCap
  PROVE  Bump(n) \in 1..DeliveryCap /\ Bump(n) <= n + 1
  BY ServerAssumption DEF Bump, DeliveryCap

\* Types: the steps of the worker.
LEMMA TypeOfWorker ==
  ASSUME TypeOK, Launch \/ Poll \/ Record \/ Stop \/ \E j \in Allowed : Publish(j)
  PROVE  TypeOK'
<1> USE DEF TypeOK, tables, process, clients
<1>1. CASE Launch
  BY <1>1 DEF Launch
<1>2. CASE Poll
  BY <1>2 DEF Poll, Due, Job
<1>3. CASE Record
  BY <1>3 DEF Record
<1>4. CASE Stop
  BY <1>4 DEF Stop
<1>5. CASE \E j \in Allowed : Publish(j)
  <2>1. PICK j \in Allowed : Publish(j)
    BY <1>5
  <2>2. Bump(deliveries[j]) \in 0..DeliveryCap
    BY Bumped, ServerAssumption DEF DeliveryCap
  <2>3. deliveries' \in [Allowed -> 0..DeliveryCap]
    BY <2>1, <2>2 DEF Publish
  <2> QED
    BY <2>1, <2>3 DEF Publish
<1> QED
  BY <1>1, <1>2, <1>3, <1>4, <1>5

\* A process that is gone leaves only its tables, and no request under way.
LEMMA EndClears ==
  ASSUME TypeOK, End
  PROVE  /\ Active' = {} /\ conn' = None
         /\ \A r \in Requests : pc'[r] = pc[r] \/ pc'[r] = "lost"
         /\ pc' \in [Requests -> {"absent", "answered", "refused", "lost"}]
  BY DEF End, Active, TypeOK

\* Types: the steps of run and of what befalls it.
LEMMA TypeOfRun ==
  ASSUME TypeOK,
         \/ BeginShutdown \/ ShutdownDone \/ ShutdownTimesOut \/ WaitDone \/ Close \/ Start
         \/ Signal \/ ListenFails \/ Exit \/ Crash
  PROVE  TypeOK'
<1> USE DEF TypeOK, tables, loop, clients, Return, Disrupt
<1>1. CASE Exit \/ Crash
  <2>1. End
    BY <1>1 DEF Exit, Crash
  <2>2. outcome' \in {"none", "clean", "timeout", "error", "crash"} /\ disruptions' \in 0..MaxDisruptions
    BY <1>1, ServerAssumption DEF Exit, Crash
  <2>3. \A r \in Requests : conn' = r <=> pc'[r] = "tx"
    BY <2>1, EndClears, NobodyIsNone
  <2> QED
    BY <2>1, <2>2, <2>3, EndClears DEF End
<1>2. CASE BeginShutdown
  BY <1>2 DEF BeginShutdown
<1>3. CASE ShutdownDone
  BY <1>3 DEF ShutdownDone
<1>4. CASE ShutdownTimesOut
  BY <1>4 DEF ShutdownTimesOut
<1>5. CASE WaitDone
  BY <1>5 DEF WaitDone
<1>6. CASE Close
  BY <1>6 DEF Close
<1>7. CASE Start
  BY <1>7 DEF Start
<1>8. CASE Signal
  BY <1>8, ServerAssumption DEF Signal
<1>9. CASE ListenFails
  BY <1>9, ServerAssumption DEF ListenFails
<1> QED
  BY <1>1, <1>2, <1>3, <1>4, <1>5, <1>6, <1>7, <1>8, <1>9

LEMMA TypeNext == TypeOK /\ [Next]_vars => TypeOK'
<1> SUFFICES ASSUME TypeOK, [Next]_vars PROVE TypeOK'
  OBVIOUS
<1>1. CASE UNCHANGED vars
  BY <1>1 DEF TypeOK, vars, tables, process, loop, clients
<1> QED
  BY <1>1, StepCases, TypeOfRequests, TypeOfWorker, TypeOfRun

-----------------------------------------------------------------------------
\* Rows and clients: steps that touch neither keep the invariant.
LEMMA TablesRest ==
  ASSUME TableInv, UNCHANGED <<recorded, told>>,
         \A j \in Allowed : jobs'[j] = "none" <=> jobs[j] = "none",
         \A r \in Evaluations : pc'[r] \in {pc[r], "running", "tx", "failed", "lost", "refused"},
         \A r \in Evaluations : pc'[r] # pc[r] /\ pc'[r] # "lost" => pc[r] \in {"absent", "running", "counted", "failed"}
  PROVE  TableInv'
  BY DEF TableInv

LEMMA TableNext == TypeOK /\ TableInv /\ WorkerInv /\ [Next]_vars => TableInv'
<1> SUFFICES ASSUME TypeOK, TableInv, WorkerInv, [Next]_vars PROVE TableInv'
  OBVIOUS
<1> USE NobodyIsNone
<1>1. ASSUME NEW r \in Requests, Receive(r) PROVE TableInv'
  BY <1>1, TablesRest DEF Receive, Goto, TypeOK, tables
<1>2. ASSUME NEW r \in Requests, Begin(r) PROVE TableInv'
  BY <1>2, TablesRest DEF Begin, Goto, TypeOK, tables
<1>3. ASSUME NEW r \in Requests, Commit(r) PROVE TableInv'
  <2>1. r \in Evaluations /\ recorded' = recorded \cup {r} /\ told' = told
    BY <1>3 DEF Commit, TypeOK
  <2>2. \A j \in Allowed : jobs'[j] = IF j = r THEN "open" ELSE jobs[j]
    BY <1>3 DEF Commit, TypeOK
  <2>3. \A q \in Evaluations : pc'[q] = IF q = r THEN "recorded" ELSE pc[q]
    BY <1>3 DEF Commit, Goto, TypeOK
  <2> QED
    BY <2>1, <2>2, <2>3 DEF TableInv
<1>4. ASSUME NEW r \in Requests, Count(r) PROVE TableInv'
  <2>1. \A q \in Evaluations : pc'[q] = pc[q]
    BY <1>4 DEF Count, Goto, TypeOK
  <2> QED
    BY <1>4, <2>1 DEF Count, TableInv, tables
<1>5. ASSUME NEW r \in Requests, Refused(r) PROVE TableInv'
  BY <1>5, TablesRest DEF Refused, Goto, TypeOK, tables
<1>6. ASSUME NEW r \in Requests, Answer(r) PROVE TableInv'
  <2>1. CASE pc[r] = "recorded" /\ r \in Evaluations
    <3>1. told' = told \cup {r} /\ UNCHANGED tables
      BY <1>6, <2>1 DEF Answer
    <3>2. \A q \in Evaluations : pc'[q] = IF q = r THEN "answered" ELSE pc[q]
      BY <1>6, <2>1 DEF Answer, Goto, TypeOK
    <3> QED
      BY <2>1, <3>1, <3>2 DEF TableInv, tables
  <2>2. CASE ~(pc[r] = "recorded" /\ r \in Evaluations)
    <3>1. told' = told /\ UNCHANGED tables
      BY <1>6, <2>2 DEF Answer
    <3>2. \A q \in Evaluations : pc'[q] = pc[q] \/ (pc[q] = "failed" /\ pc'[q] = "refused")
      BY <1>6, <2>2 DEF Answer, Goto, TypeOK
    <3> QED
      BY <3>1, <3>2 DEF TableInv, tables
  <2> QED
    BY <2>1, <2>2
<1>7. CASE Record
  <2>1. \A j \in Allowed : jobs'[j] = "none" <=> jobs[j] = "none"
    BY <1>7 DEF Record, WorkerInv, TypeOK
  <2> QED
    BY <1>7, <2>1 DEF Record, TableInv, clients
<1>8. CASE Exit \/ Crash
  <2>1. End
    BY <1>8 DEF Exit, Crash
  <2>2. \A q \in Evaluations : pc'[q] = pc[q] \/ pc'[q] = "lost"
    BY <2>1, EndClears
  <2>3. \A q \in Evaluations : pc[q] \notin {"recorded"} => pc[q] \notin {"absent", "answered"} \/ pc'[q] = pc[q]
    BY <2>1 DEF End, Active, TypeOK
  <2> QED
    BY <2>1, <2>2, <2>3 DEF End, TableInv, tables
<1>9. CASE Launch \/ Poll \/ Stop \/ (\E j \in Allowed : Publish(j))
  BY <1>9 DEF Launch, Poll, Stop, Publish, TableInv, tables, clients
<1>10. CASE BeginShutdown \/ ShutdownDone \/ ShutdownTimesOut \/ WaitDone \/ Close \/ Start \/ Signal \/ ListenFails
  BY <1>10 DEF BeginShutdown, ShutdownDone, ShutdownTimesOut, WaitDone, Close, Start, Signal, ListenFails,
               TableInv, tables, clients
<1>11. CASE UNCHANGED vars
  BY <1>11 DEF vars, TableInv, tables, clients
<1> QED
  BY <1>1, <1>2, <1>3, <1>4, <1>5, <1>6, <1>7, <1>8, <1>9, <1>10, <1>11, StepCases

-----------------------------------------------------------------------------
\* The worker: the table gets a new job, which nobody delivered.
LEMMA WorkerCommit ==
  ASSUME TypeOK, TableInv, WorkerInv, NEW r \in Requests, Commit(r)
  PROVE  WorkerInv'
<1> USE NobodyIsNone
<1>1. UNCHANGED <<process, loop, deliveries, lives>>
  BY DEF Commit
<1>2. r \notin recorded
  BY DEF Commit, TypeOK, TableInv
<1>3. \A j \in Allowed : jobs'[j] = IF j = r THEN "open" ELSE jobs[j]
  BY DEF Commit, TypeOK
<1>4. r \in Allowed => deliveries[r] = 0
  BY <1>2 DEF TableInv, WorkerInv
<1>5. batch \subseteq Allowed /\ held \in Allowed \cup {None} /\ lives \in Nat
  BY DEF TypeOK
<1> QED
  BY <1>1, <1>3, <1>4, <1>5 DEF WorkerInv, OncePerLife, Fresh, process, loop

\* The worker's own steps.
LEMMA WorkerSteps ==
  ASSUME TypeOK, WorkerInv, Launch \/ Poll \/ Record \/ Stop \/ \E j \in Allowed : Publish(j)
  PROVE  WorkerInv'
<1> USE NobodyIsNone DEF process, clients, tables
<1>1. CASE Launch
  BY <1>1 DEF Launch, WorkerInv, OncePerLife, Fresh
<1>2. CASE Poll
  <2>1. batch' \subseteq Job("open") /\ held = None /\ worker = "running" /\ ~canceled /\ ~closed
    BY <1>2 DEF Poll, Due, Resting, Statement
  <2>2. \A j \in Job("open") : jobs[j] = "open" /\ j # held /\ Fresh(j)
    BY <2>1 DEF WorkerInv, Job
  <2> QED
    BY <1>2, <2>1, <2>2 DEF Poll, WorkerInv, OncePerLife, Fresh
<1>3. CASE Record
  <2>1. held \in Allowed /\ held' = None /\ worker = "running"
    BY <1>3 DEF Record, TypeOK, WorkerInv
  <2>2. CASE Invalid \/ canceled \/ closed
    <3>1. UNCHANGED <<jobs, process, worker, batch, deliveries, lives>>
      BY <1>3, <2>2 DEF Record
    <3>2. ~canceled /\ ~closed => Fresh(held)
      BY <2>2 DEF Invalid, Fresh
    <3> QED
      BY <2>1, <3>1, <3>2 DEF WorkerInv, OncePerLife, Fresh, TypeOK
  <2>3. CASE ~Invalid /\ ~canceled /\ ~closed
    <3>1. jobs' = [jobs EXCEPT ![held] = "settled"]
      BY <1>3, <2>3 DEF Record
    <3>2. \A j \in Allowed : jobs'[j] = IF j = held THEN "settled" ELSE jobs[j]
      BY <3>1, <2>1 DEF TypeOK
    <3> QED
      BY <1>3, <2>1, <3>2 DEF Record, WorkerInv, OncePerLife, Fresh, TypeOK
  <2> QED
    BY <2>2, <2>3
<1>4. CASE Stop
  BY <1>4 DEF Stop, Resting, WorkerInv, OncePerLife, Fresh
<1>5. ASSUME NEW j \in Allowed, Publish(j) PROVE WorkerInv'
  <2>1. j \in batch /\ held = None /\ batch' = batch \ {j} /\ worker = "running"
    BY <1>5 DEF Publish, WorkerInv
  <2>2. CASE canceled
    BY <1>5, <2>1, <2>2 DEF Publish, WorkerInv, OncePerLife, Fresh
  <2>3. CASE ~canceled
    <3>1. held' = j /\ deliveries' = [deliveries EXCEPT ![j] = Bump(@)]
      BY <1>5, <2>3 DEF Publish
    <3>2. \A i \in Allowed : deliveries'[i] = IF i = j THEN Bump(deliveries[i]) ELSE deliveries[i]
      BY <3>1 DEF TypeOK
    <3>3. Fresh(j) /\ lives \in Nat /\ jobs[j] = "open" /\ batch \subseteq Allowed
      BY <2>1 DEF WorkerInv, TypeOK
    <3>4. deliveries[j] \in 0..DeliveryCap /\ deliveries'[j] = Bump(deliveries[j])
      BY <3>2 DEF TypeOK
    <3>5. /\ \A i \in Allowed : i # j => deliveries'[i] = deliveries[i]
          /\ j \notin Unaddressed => deliveries'[j] <= lives
          /\ deliveries'[j] > 0
      <4>1. deliveries'[j] \in Nat /\ deliveries'[j] > 0 /\ deliveries'[j] <= deliveries[j] + 1
        BY <3>4, Bumped, ServerAssumption DEF DeliveryCap
      <4>2. ASSUME j \notin Unaddressed PROVE deliveries'[j] <= lives
        <5>1. deliveries[j] < lives
          BY <3>3, <4>2 DEF Fresh
        <5> QED
          BY <3>3, <3>4, <4>1, <5>1
      <4> QED
        BY <3>2, <4>1, <4>2
    <3>6. UNCHANGED <<tables, process, worker, lives>>
      BY <1>5 DEF Publish
    <3>7. \A i \in Allowed : i # j => (Fresh(i)' <=> Fresh(i))
      BY <3>5, <3>6 DEF Fresh
    <3>8. OncePerLife'
      BY <3>5, <3>6 DEF OncePerLife, WorkerInv
    <3> QED
      BY <2>1, <3>1, <3>3, <3>5, <3>6, <3>7, <3>8 DEF WorkerInv
  <2> QED
    BY <2>2, <2>3
<1> QED
  BY <1>1, <1>2, <1>3, <1>4, <1>5

\* A process that is gone, and the next one: what was delivered is one life older.
LEMMA WorkerEnds ==
  ASSUME TypeOK, WorkerInv, End \/ Start
  PROVE  WorkerInv'
<1> USE NobodyIsNone DEF tables, loop
<1>1. CASE End
  BY <1>1 DEF End, WorkerInv, OncePerLife, Fresh
<1>2. CASE Start
  <2>1. lives' = lives + 1 /\ lives \in Nat /\ \A j \in Allowed : deliveries[j] \in Nat
    BY <1>2, ServerAssumption DEF Start, TypeOK, DeliveryCap
  <2>2. batch = {} /\ held = None
    BY <1>2 DEF Start, WorkerInv
  <2> QED
    BY <1>2, <2>1, <2>2 DEF Start, WorkerInv, OncePerLife, Fresh
<1> QED
  BY <1>1, <1>2

LEMMA WorkerNext == TypeOK /\ TableInv /\ WorkerInv /\ [Next]_vars => WorkerInv'
<1> SUFFICES ASSUME TypeOK, TableInv, WorkerInv, [Next]_vars PROVE WorkerInv'
  OBVIOUS
<1> USE DEF tables, process, loop
<1>1. ASSUME NEW r \in Requests, Receive(r) \/ Begin(r) \/ Count(r) \/ Refused(r) \/ Answer(r) PROVE WorkerInv'
  BY <1>1 DEF Receive, Begin, Count, Refused, Answer, WorkerInv, OncePerLife, Fresh
<1>2. CASE BeginShutdown \/ ShutdownDone \/ ShutdownTimesOut \/ WaitDone \/ Close \/ Signal \/ ListenFails
  BY <1>2 DEF BeginShutdown, ShutdownDone, ShutdownTimesOut, WaitDone, Close, Signal, ListenFails, Return,
              WorkerInv, OncePerLife, Fresh
<1>3. CASE UNCHANGED vars
  BY <1>3 DEF vars, WorkerInv, OncePerLife, Fresh
<1> QED
  BY <1>1, <1>2, <1>3, StepCases, WorkerCommit, WorkerSteps, WorkerEnds DEF Exit, Crash

-----------------------------------------------------------------------------
\* While a request is under way, run is not past its shutdown.
LEMMA UnderWay ==
  ASSUME RunInv, NEW r \in Requests, pc[r] \in {"running", "counted", "tx", "recorded", "failed"}
  PROVE  main \notin {"down", "waiting"} /\ outcome # "clean"
<1>1. r \in Active
  BY DEF Active
<1> QED
  BY <1>1 DEF RunInv

LEMMA RunOfRequests ==
  ASSUME RunInv, NEW r \in Requests,
         Receive(r) \/ Begin(r) \/ Commit(r) \/ Count(r) \/ Refused(r) \/ Answer(r)
  PROVE  RunInv'
<1>1. UNCHANGED <<process, loop>>
  BY DEF Receive, Begin, Commit, Count, Refused, Answer
<1>2. main \notin {"down", "waiting"} /\ outcome # "clean"
  <2>1. CASE Receive(r)
    BY <2>1 DEF Receive, Listening, RunInv
  <2>2. CASE ~Receive(r)
    <3>1. pc[r] \in {"running", "counted", "tx", "recorded", "failed"}
      BY <2>2 DEF Begin, Commit, Count, Refused, Answer
    <3> QED
      BY <3>1, UnderWay
  <2> QED
    BY <2>1, <2>2
<1> QED
  BY <1>1, <1>2 DEF RunInv, process, loop

LEMMA RunOfWorker ==
  ASSUME TypeOK, WorkerInv, RunInv, Launch \/ Poll \/ Record \/ Stop \/ \E j \in Allowed : Publish(j)
  PROVE  RunInv'
<1>1. UNCHANGED <<process, clients>>
  BY DEF Launch, Poll, Record, Stop, Publish
<1>2. outcome = "clean" => UNCHANGED <<batch, held>>
  <2>1. CASE Poll
    BY <2>1 DEF Poll, Resting, RunInv, WorkerInv
  <2>2. CASE Record
    BY <2>2 DEF Record, RunInv
  <2>3. CASE \E j \in Allowed : Publish(j)
    BY <2>3 DEF Publish, RunInv
  <2>4. CASE Launch \/ Stop
    BY <2>4 DEF Launch, Stop
  <2> QED
    BY <2>1, <2>2, <2>3, <2>4
<1> QED
  BY <1>1, <1>2 DEF RunInv, Active, process, clients

LEMMA RunOfMain ==
  ASSUME TypeOK, WorkerInv, RunInv,
         \/ BeginShutdown \/ ShutdownDone \/ ShutdownTimesOut \/ WaitDone \/ Close \/ Start
         \/ Signal \/ ListenFails
  PROVE  RunInv'
<1> USE DEF RunInv, Active, loop, clients, Return
<1>1. CASE BeginShutdown
  BY <1>1 DEF BeginShutdown
<1>2. CASE ShutdownDone
  BY <1>2 DEF ShutdownDone
<1>3. CASE ShutdownTimesOut
  BY <1>3 DEF ShutdownTimesOut
<1>4. CASE WaitDone
  BY <1>4 DEF WaitDone, WorkerInv
<1>5. CASE Close
  BY <1>5 DEF Close
<1>6. CASE Start
  BY <1>6 DEF Start
<1>7. CASE Signal
  BY <1>7 DEF Signal
<1>8. CASE ListenFails
  BY <1>8 DEF ListenFails
<1> QED
  BY <1>1, <1>2, <1>3, <1>4, <1>5, <1>6, <1>7, <1>8

LEMMA RunEnds ==
  ASSUME TypeOK, RunInv, Exit \/ Crash
  PROVE  RunInv'
<1>1. End
  BY DEF Exit, Crash
<1>2. main' = "down" /\ Active' = {} /\ batch' = {} /\ held' = None
  BY <1>1, EndClears DEF End
<1> QED
  BY <1>2 DEF RunInv

LEMMA RunNext == TypeOK /\ WorkerInv /\ RunInv /\ [Next]_vars => RunInv'
<1> SUFFICES ASSUME TypeOK, WorkerInv, RunInv, [Next]_vars PROVE RunInv'
  OBVIOUS
<1>1. CASE UNCHANGED vars
  BY <1>1 DEF vars, RunInv, Active, process, loop, clients
<1> QED
  BY <1>1, StepCases, RunOfRequests, RunOfWorker, RunOfMain, RunEnds

-----------------------------------------------------------------------------
\* The rows of jobs are the recorded decisions that were allowed.
LEMMA JobsAreDecisions ==
  ASSUME TypeOK, TableInv
  PROVE  /\ Listed("overview") = Notified
         /\ \A of : Listed(of) \subseteq Notified
<1>1. Job("open") \cup Job("settled") = recorded \cap Allowed
  BY DEF TypeOK, TableInv, Job
<1>2. Listed("overview") = Addressed \cap (Job("open") \cup Job("settled"))
  BY DEF Listed
<1> QED
  BY <1>1, <1>2 DEF Listed, Notified

\* What a reader counts of the jobs is between what its client knew and what is there.
LEMMA TallyOfJobs ==
  ASSUME TypeOK, TableInv, ViewInv, NEW r \in Readers, pc[r] = "running",
         NEW v, v = TallyNext(r)
  PROVE  /\ v.floor <= Cardinality(Notified)
         /\ v.of = "overview" => v.floor <= v.jobs
         /\ v.jobs <= Cardinality(Events)
<1> DEFINE counted == Listed(view[r].of)
<1>1. view[r] \in View
  BY DEF TypeOK, View
<1>2. v = [view[r] EXCEPT !.jobs = Cardinality(counted)]
  BY DEF TallyNext, Tally
<1>3. v.floor = view[r].floor /\ v.of = view[r].of /\ v.jobs = Cardinality(counted)
  BY <1>1, <1>2 DEF View
<1>4. counted \subseteq Events /\ Events \subseteq Evaluations
  BY JobsAreDecisions DEF TypeOK, Events, Notified
<1>5. Cardinality(counted) <= Cardinality(Events)
  BY <1>4, CountsGrow
<1>6. view[r].of = "overview" => counted = Notified
  BY JobsAreDecisions
<1>7. view[r].floor <= Cardinality(Notified)
  BY DEF ViewInv
<1> HIDE DEF counted
<1> QED
  BY <1>3, <1>5, <1>6, <1>7

\* With the count of the events the view fits together.
LEMMA TallyOfEvents ==
  ASSUME TypeOK, ViewInv, NEW r \in Readers, pc[r] = "counted",
         NEW v, v = TallyNext(r)
  PROVE  Fits(v)
<1>1. view[r] \in View /\ Events \in SUBSET Evaluations /\ Notified \in SUBSET Events
  BY DEF TypeOK, View, Events, Notified
<1>2. v = [view[r] EXCEPT !.audits = Cardinality(Events)]
  BY DEF TallyNext, Tally, Events
<1>3. v.floor = view[r].floor /\ v.of = view[r].of /\ v.jobs = view[r].jobs /\ v.audits = Cardinality(Events)
  BY <1>1, <1>2 DEF View
<1>4. view[r].floor \in Nat /\ view[r].jobs \in Nat
  BY <1>1 DEF View
<1>5. Cardinality(Notified) <= Cardinality(Events)
      /\ Cardinality(Events) \in Nat /\ Cardinality(Notified) \in Nat
  BY <1>1, CountsGrow
<1>6. /\ view[r].floor <= Cardinality(Notified)
      /\ view[r].of = "overview" => view[r].floor <= view[r].jobs
      /\ view[r].jobs <= Cardinality(Events)
  BY DEF ViewInv
<1> QED
  BY <1>3, <1>4, <1>5, <1>6 DEF Fits, OverviewAddsUp, ReportAddsUp

\* Rows are only added: bounds of what was counted stay bounds.
LEMMA ViewsRest ==
  ASSUME TypeOK, TypeOK', ViewInv, recorded \subseteq recorded', view' = view,
         \A r \in Readers : pc'[r] = pc[r] \/ pc'[r] \in {"failed", "refused", "lost"}
                            \/ (pc[r] = "recorded" /\ pc'[r] = "answered")
  PROVE  ViewInv'
<1> SUFFICES ASSUME NEW r \in Readers
             PROVE  /\ pc'[r] \in {"running", "counted"} => view[r].floor <= Cardinality(Notified')
                    /\ pc'[r] = "counted" => /\ view[r].of = "overview" => view[r].floor <= view[r].jobs
                                             /\ view[r].jobs <= Cardinality(Events')
                    /\ pc'[r] \in {"recorded", "answered"} => Fits(view[r])
  BY DEF ViewInv, Fits, OverviewAddsUp, ReportAddsUp
<1>1. /\ Events' \in SUBSET Evaluations /\ Events \in SUBSET Events'
      /\ Notified' \in SUBSET Evaluations /\ Notified \in SUBSET Notified'
  BY DEF TypeOK, Events, Notified
<1>2. Cardinality(Notified) <= Cardinality(Notified')
      /\ Cardinality(Notified) \in Nat /\ Cardinality(Notified') \in Nat
  BY <1>1, CountsGrow
<1>3. Cardinality(Events) <= Cardinality(Events') /\ Cardinality(Events) \in Nat /\ Cardinality(Events') \in Nat
  BY <1>1, CountsGrow
<1>4. view[r].floor \in Nat /\ view[r].jobs \in Nat
  BY DEF TypeOK
<1> QED
  BY <1>2, <1>3, <1>4 DEF ViewInv

LEMMA ViewNext == TypeOK /\ TypeOK' /\ TableInv /\ ViewInv /\ [Next]_vars => ViewInv'
<1> SUFFICES ASSUME TypeOK, TypeOK', TableInv, ViewInv, [Next]_vars PROVE ViewInv'
  OBVIOUS
<1> USE NobodyIsNone DEF tables
<1>1. ASSUME NEW r \in Requests, Receive(r) PROVE ViewInv'
  <2>1. CASE r \in Readers
    <3>1. PICK of \in {"overview", "report"} :
            view' = [view EXCEPT ![r].of = of, ![r].floor = Cardinality(told \cap Allowed \cap Addressed)]
      BY <1>1, <2>1 DEF Receive
    <3>2. view'[r].floor = Cardinality(told \cap Allowed \cap Addressed)
      BY <2>1, <3>1 DEF TypeOK
    <3>3. \A q \in Readers : q # r => view'[q] = view[q] /\ pc'[q] = pc[q]
      BY <1>1, <3>1 DEF Receive, Goto, TypeOK
    <3>4. pc'[r] = "running" /\ recorded' = recorded
      BY <1>1 DEF Receive, Goto, TypeOK
    <3>5. Cardinality(told \cap Allowed \cap Addressed) <= Cardinality(Notified)
      <4>1. told \cap Allowed \cap Addressed \in SUBSET Notified /\ Notified \in SUBSET Evaluations
        BY DEF TableInv, TypeOK, Notified
      <4> QED
        BY <4>1, CountsGrow
    <3>6. Notified' = Notified /\ Events' = Events
      BY <3>4 DEF Notified, Events
    <3> QED
      BY <3>2, <3>3, <3>4, <3>5, <3>6 DEF ViewInv, Fits, OverviewAddsUp, ReportAddsUp
  <2>2. CASE r \notin Readers
    BY <1>1, <2>2, ViewsRest DEF Receive, Goto, TypeOK
  <2> QED
    BY <2>1, <2>2
<1>2. ASSUME NEW r \in Requests, Begin(r) \/ Commit(r) PROVE ViewInv'
  <2>1. r \notin Readers /\ view' = view /\ recorded \subseteq recorded'
    BY <1>2 DEF Begin, Commit, TypeOK
  <2>2. \A q \in Readers : pc'[q] = pc[q]
    BY <1>2, <2>1 DEF Begin, Commit, Goto, TypeOK
  <2> QED
    BY <2>1, <2>2, ViewsRest
<1>3. ASSUME NEW r \in Requests, Count(r) PROVE ViewInv'
  <2>1. r \in Readers /\ view' = [view EXCEPT ![r] = TallyNext(r)] /\ recorded' = recorded
    BY <1>3 DEF Count
  <2>2. view'[r] = TallyNext(r)
    BY <2>1 DEF TypeOK
  <2>3. \A q \in Readers : q # r => view'[q] = view[q] /\ pc'[q] = pc[q]
    BY <1>3, <2>1 DEF Count, Goto, TypeOK
  <2>4. CASE pc[r] = "running"
    <3>1. pc'[r] = "counted"
      BY <1>3, <2>4 DEF Count, Goto, TypeOK
    <3>2. /\ view'[r].floor <= Cardinality(Notified)
          /\ view'[r].of = "overview" => view'[r].floor <= view'[r].jobs
          /\ view'[r].jobs <= Cardinality(Events)
      BY <2>1, <2>2, <2>4, TallyOfJobs
    <3>3. Notified' = Notified /\ Events' = Events
      BY <2>1 DEF Notified, Events
    <3> QED
      BY <2>3, <3>1, <3>2, <3>3 DEF ViewInv, Fits, OverviewAddsUp, ReportAddsUp
  <2>5. CASE pc[r] = "counted"
    <3>1. pc'[r] = "recorded"
      BY <1>3, <2>5 DEF Count, Goto, TypeOK
    <3>2. Fits(view'[r])
      BY <2>1, <2>2, <2>5, TallyOfEvents
    <3>3. Notified' = Notified /\ Events' = Events
      BY <2>1 DEF Notified, Events
    <3> QED
      BY <2>3, <3>1, <3>2, <3>3 DEF ViewInv, Fits, OverviewAddsUp, ReportAddsUp
  <2> QED
    BY <1>3, <2>4, <2>5 DEF Count
<1>4. ASSUME NEW r \in Requests, Refused(r) \/ Answer(r) PROVE ViewInv'
  <2>1. view' = view /\ recorded' = recorded
    BY <1>4 DEF Refused, Answer
  <2>2. \A q \in Readers : pc'[q] = pc[q] \/ pc'[q] \in {"failed", "refused"} \/ (pc[q] = "recorded" /\ pc'[q] = "answered")
    BY <1>4 DEF Refused, Answer, Goto, TypeOK
  <2> QED
    BY <2>1, <2>2, ViewsRest
<1>5. CASE Launch \/ Poll \/ Record \/ Stop \/ \E j \in Allowed : Publish(j)
  BY <1>5, ViewsRest DEF Launch, Poll, Record, Stop, Publish, clients
<1>6. CASE BeginShutdown \/ ShutdownDone \/ ShutdownTimesOut \/ WaitDone \/ Close \/ Start \/ Signal \/ ListenFails
  BY <1>6, ViewsRest DEF BeginShutdown, ShutdownDone, ShutdownTimesOut, WaitDone, Close, Start, Signal, ListenFails, clients
<1>7. CASE Exit \/ Crash
  <2>1. End
    BY <1>7 DEF Exit, Crash
  <2>2. view' = view /\ recorded' = recorded
    BY <2>1 DEF End
  <2> QED
    BY <2>1, <2>2, EndClears, ViewsRest
<1>8. CASE UNCHANGED vars
  BY <1>8, ViewsRest DEF vars, clients
<1> QED
  BY <1>1, <1>2, <1>3, <1>4, <1>5, <1>6, <1>7, <1>8, StepCases

-----------------------------------------------------------------------------
LEMMA InitIInv == Init => IInv
<1> SUFFICES ASSUME Init PROVE IInv
  OBVIOUS
<1> USE NobodyIsNone DEF Init
<1>1. TypeOK
  <2>1. disruptions \in 0..MaxDisruptions /\ lives \in Nat
    BY ServerAssumption
  <2>2. view \in [Readers -> [of : {"none", "overview", "report"}, floor : Nat, jobs : Nat, audits : Nat]]
    BY DEF NoView
  <2>3. \A r \in Requests : conn = r <=> pc[r] = "tx"
    OBVIOUS
  <2>4. deliveries \in [Allowed -> 0..DeliveryCap] /\ pc \in [Requests -> {"absent"}] /\ jobs \in [Allowed -> {"none"}]
    BY ServerAssumption DEF DeliveryCap
  <2> QED
    BY <2>1, <2>2, <2>3, <2>4 DEF TypeOK
<1>2. TableInv /\ WorkerInv /\ RunInv
  BY DEF TableInv, WorkerInv, OncePerLife, RunInv, Active
<1>3. ViewInv
  BY DEF ViewInv
<1> QED
  BY <1>1, <1>2, <1>3 DEF IInv

LEMMA NextIInv == IInv /\ [Next]_vars => IInv'
  BY TypeNext, TableNext, WorkerNext, RunNext, ViewNext DEF IInv

\* The invariant holds throughout.
THEOREM Inductive == Spec => []IInv
  BY InitIInv, NextIInv, PTL DEF Spec

\* The types of the state; the connection is held by the one request inside a
\* transaction, for any requests.
THEOREM TypeCorrect == Spec => []TypeOK
<1>1. IInv => TypeOK
  BY DEF IInv
<1> QED
  BY <1>1, Inductive, PTL

\* A run that ends cleanly has dropped nothing: no transaction, no handler, no job.
THEOREM CleanEndDropsNothing == Spec => []CleanStop
<1>1. IInv => CleanStop
  <2> SUFFICES ASSUME IInv, outcome = "clean"
               PROVE  conn = None /\ Active = {} /\ batch = {} /\ held = None
    BY DEF CleanStop
  <2>1. Active = {} /\ batch = {} /\ held = None
    BY DEF IInv, RunInv
  <2>2. \A r \in Requests : pc[r] # "tx"
    BY <2>1 DEF Active
  <2>3. conn = None
    BY <2>2, NobodyIsNone DEF IInv, TypeOK
  <2> QED
    BY <2>1, <2>3
<1> QED
  BY <1>1, Inductive, PTL

\* While the store does not fail, a process delivers a job whose tenant is not blank
\* at most once, whatever jobs of blank tenants stand beside it.
THEOREM DeliveredOncePerLife == Spec => []OncePerLife
<1>1. IInv => OncePerLife
  BY DEF IInv, WorkerInv
<1> QED
  BY <1>1, Inductive, PTL

\* The counts of an answer fit together, whatever was recorded between them.
THEOREM CountsFit == Spec => []ViewsAddUp
<1>1. IInv => ViewsAddUp
  BY DEF IInv, ViewInv, ViewsAddUp, Fits
<1> QED
  BY <1>1, Inductive, PTL

-----------------------------------------------------------------------------
\* A commit is a Record of the decision log and, when the rule allowed, an Accept of
\* the outbox.
LEMMA CommitRecords ==
  ASSUME IInv, NEW r \in Requests, Commit(r)
  PROVE  Log!Record(r) /\ (r \in Allowed => Outbox!Accept(r)) /\ (r \notin Allowed => UNCHANGED Outbox!vars)
<1> USE NobodyIsNone DEF IInv
<1>1. r \in Evaluations /\ r \notin recorded
  BY DEF Commit, TypeOK, TableInv
<1>2. recorded' = recorded \cup {r} /\ told' = told /\ deliveries' = deliveries
  BY DEF Commit
<1>3. \A q \in recorded : [e \in Evaluations |-> e][q] # [e \in Evaluations |-> e][r]
  BY <1>1 DEF TypeOK
<1>4. \A j \in Allowed : jobs'[j] = IF j = r THEN "open" ELSE jobs[j]
  BY DEF Commit, TypeOK
<1>5. Allowed \ Job("none")' = IF r \in Allowed THEN (Allowed \ Job("none")) \cup {r} ELSE Allowed \ Job("none")
  BY <1>4 DEF Job
<1>6. Log!Record(r)
  BY <1>2, <1>3, <1>5 DEF Log!Record
<1>7. ASSUME r \in Allowed PROVE Outbox!Accept(r)
  <2>1. jobs[r] = "none" /\ jobs' = [jobs EXCEPT ![r] = "open"]
    BY <1>1, <1>7 DEF Commit, TableInv
  <2> QED
    BY <1>2, <2>1 DEF Outbox!Accept
<1>8. ASSUME r \notin Allowed PROVE UNCHANGED Outbox!vars
  BY <1>2, <1>8 DEF Commit, Outbox!vars
<1> QED
  BY <1>6, <1>7, <1>8

\* An answer is a Tell, or nothing, and the outbox does not see it.
LEMMA AnswerTells ==
  ASSUME IInv, NEW r \in Requests, Answer(r)
  PROVE  ((r \in Evaluations /\ Log!Tell(r)) \/ UNCHANGED Log!vars) /\ UNCHANGED Outbox!vars
<1>1. UNCHANGED <<recorded, jobs, deliveries>>
  BY DEF Answer, tables
<1>2. UNCHANGED Job("none")
  BY <1>1 DEF Job
<1>3. CASE pc[r] = "recorded" /\ r \in Evaluations
  BY <1>1, <1>2, <1>3 DEF Answer, IInv, TableInv, Log!Tell, Outbox!vars
<1>4. CASE ~(pc[r] = "recorded" /\ r \in Evaluations)
  BY <1>1, <1>2, <1>4 DEF Answer, Log!vars, Outbox!vars
<1> QED
  BY <1>3, <1>4

\* A delivery is a HandOver, or nothing, and the log does not see it.
LEMMA PublishHandsOver ==
  ASSUME IInv, NEW j \in Allowed, Publish(j)
  PROVE  (Outbox!HandOver(j) \/ UNCHANGED Outbox!vars) /\ UNCHANGED Log!vars
<1>1. UNCHANGED <<recorded, jobs, told>>
  BY DEF Publish, tables, clients
<1>2. UNCHANGED Log!vars
  BY <1>1 DEF Log!vars, Job
<1>3. CASE canceled
  BY <1>1, <1>2, <1>3 DEF Publish, Outbox!vars
<1>4. CASE ~canceled
  <2>1. jobs[j] # "none"
    BY DEF Publish, IInv, WorkerInv
  <2>2. \A i \in Allowed : deliveries'[i] = IF i = j THEN Bump(deliveries[i]) ELSE deliveries[i]
    BY <1>4 DEF Publish, IInv, TypeOK
  <2>3. [i \in Allowed |-> deliveries'[i] > 0] = [[i \in Allowed |-> deliveries[i] > 0] EXCEPT ![j] = TRUE]
    <3>1. deliveries'[j] > 0 /\ \A i \in Allowed : i # j => deliveries'[i] = deliveries[i]
      BY <2>2, Bumped DEF IInv, TypeOK
    <3> QED
      BY <3>1
  <2>4. Outbox!HandOver(j)
    BY <1>1, <2>1, <2>3 DEF Outbox!HandOver
  <2> QED
    BY <1>2, <2>4
<1> QED
  BY <1>3, <1>4

\* A write-back is a Settle, or nothing, and the log does not see it.
LEMMA RecordSettles ==
  ASSUME IInv, Record
  PROVE  ((\E j \in Allowed : Outbox!Settle(j)) \/ UNCHANGED Outbox!vars) /\ UNCHANGED Log!vars
<1>1. UNCHANGED <<recorded, told, deliveries>>
  BY DEF Record, clients
<1>2. held \in Allowed /\ jobs[held] = "open" /\ deliveries[held] > 0
  BY DEF Record, IInv, TypeOK, WorkerInv
<1>3. CASE Invalid \/ canceled \/ closed
  BY <1>1, <1>3 DEF Record, Outbox!vars, Log!vars, Job
<1>4. CASE ~(Invalid \/ canceled \/ closed)
  <2>1. jobs' = [jobs EXCEPT ![held] = "settled"]
    BY <1>4 DEF Record
  <2>2. Job("none")' = Job("none")
    BY <1>2, <2>1 DEF Job, IInv, TypeOK
  <2>3. Outbox!Settle(held)
    BY <1>1, <1>2, <2>1 DEF Outbox!Settle
  <2> QED
    BY <1>1, <1>2, <2>2, <2>3 DEF Log!vars
<1> QED
  BY <1>3, <1>4

LEMMA PartsNext == IInv /\ [Next]_vars => [Log!Next]_(Log!vars) /\ [Outbox!Next]_(Outbox!vars)
<1> SUFFICES ASSUME IInv, [Next]_vars PROVE [Log!Next]_(Log!vars) /\ [Outbox!Next]_(Outbox!vars)
  OBVIOUS
<1>1. ASSUME NEW r \in Requests, Commit(r) PROVE [Log!Next]_(Log!vars) /\ [Outbox!Next]_(Outbox!vars)
  <2>1. r \in Evaluations
    BY <1>1, NobodyIsNone DEF Commit, IInv, TypeOK
  <2> QED
    BY <1>1, <2>1, CommitRecords DEF Log!Next, Outbox!Next
<1>2. ASSUME NEW r \in Requests, Answer(r) PROVE [Log!Next]_(Log!vars) /\ [Outbox!Next]_(Outbox!vars)
  BY <1>2, AnswerTells DEF Log!Next
<1>3. ASSUME NEW j \in Allowed, Publish(j) PROVE [Log!Next]_(Log!vars) /\ [Outbox!Next]_(Outbox!vars)
  BY <1>3, PublishHandsOver DEF Outbox!Next
<1>4. CASE Record
  BY <1>4, RecordSettles DEF Outbox!Next
<1>5. CASE UNCHANGED <<tables, told, deliveries>>
  BY <1>5 DEF tables, Log!vars, Outbox!vars, Job
<1>6. ASSUME NEW r \in Requests, Receive(r) \/ Begin(r) \/ Count(r) \/ Refused(r)
      PROVE  UNCHANGED <<tables, told, deliveries>>
  BY <1>6 DEF Receive, Begin, Count, Refused
<1>7. ASSUME Launch \/ Poll \/ Stop
      PROVE  UNCHANGED <<tables, told, deliveries>>
  BY <1>7 DEF Launch, Poll, Stop, clients
<1>8. ASSUME \/ BeginShutdown \/ ShutdownDone \/ ShutdownTimesOut \/ WaitDone \/ Close \/ Start
             \/ Signal \/ ListenFails \/ Exit \/ Crash \/ UNCHANGED vars
      PROVE  UNCHANGED <<tables, told, deliveries>>
  BY <1>8 DEF BeginShutdown, ShutdownDone, ShutdownTimesOut, WaitDone, Close, Start, Signal, ListenFails,
              Exit, Crash, End, vars, clients
<1> QED
  BY <1>1, <1>2, <1>3, <1>4, <1>5, <1>6, <1>7, <1>8, StepCases

\* Handlers, worker and run together record as DecisionLog promises and treat every
\* notification as JobLifecycle promises, across the ends of processes.
THEOREM ServerImplementsParts == Spec => ImplementsParts
<1>1. Init => Log!Init
  BY DEF Init, Log!Init, Job
<1>2. Init => Outbox!Init
  <2> SUFFICES ASSUME Init PROVE Outbox!Init
    OBVIOUS
  <2>1. \A j \in Allowed : (deliveries[j] > 0) = FALSE
    BY DEF Init
  <2>2. [j \in Allowed |-> deliveries[j] > 0] = [j \in Allowed |-> FALSE]
    BY <2>1
  <2> QED
    BY <2>2 DEF Init, Outbox!Init
<1>3. IInv /\ [Next]_vars => [Log!Next]_(Log!vars) /\ [Outbox!Next]_(Outbox!vars)
  BY PartsNext
<1> QED
  BY <1>1, <1>2, <1>3, Inductive, PTL DEF Spec, ImplementsParts, Log!Spec, Outbox!Spec
=============================================================================
