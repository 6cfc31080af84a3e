-------------------------- MODULE SoleWorkerProofs --------------------------
(***************************************************************************)
(* What the outbox promises a deployment with one server process, for any  *)
(* number of jobs, any batch size, limit of attempts and number of         *)
(* disruptions: deliveries are repeated only after a disruption, and every *)
(* delivery respects the backoff of the stored row.                        *)
(*                                                                         *)
(* The argument is that a sole worker's copies are not only bounded by the *)
(* table (CopiesAgree) but equal to it: nobody else writes a row between   *)
(* the poll and the write-back, and one batch holds no row twice.          *)
(***************************************************************************)
EXTENDS OutboxWorkerProofs

\* One server process at most.
Alone == \A v, w \in Workers : v = w

\* Copies are the rows they were made from, and no row is held twice.
ExactCopies == \A w \in Workers :
  /\ \A i \in DOMAIN batch[w] : batch[w][i] = rows[batch[w][i].id]
  /\ \A i, k \in DOMAIN batch[w] : batch[w][i].id = batch[w][k].id => i = k

\* The publisher accepted the job, and the write-back of that will go through.
InHand(j) == \E w \in Workers :
  /\ pc[w] = "published" /\ ~canceled[w]
  /\ Head(batch[w]).id = j
  /\ draft[w][1].status = "succeeded"

\* Every delivery but the last was lost to a disruption of its own.
DeliveriesCounted == \A j \in Jobs \ Unaddressed :
  published[j] <= disruptions + (IF rows[j].status = "succeeded" \/ InHand(j) THEN 1 ELSE 0)

\* What is invariant beside IInv when a worker is alone.
SoleInv == ExactCopies /\ DeliveriesCounted

-----------------------------------------------------------------------------
\* A copy in hand is a job of the table that is open there.
LEMMA HeldIsOpen ==
  ASSUME IInv, ExactCopies, NEW w \in Workers, NEW i \in DOMAIN batch[w]
  PROVE  /\ batch[w][i] \in Job /\ batch[w][i].id \in Jobs
         /\ batch[w][i] = rows[batch[w][i].id]
         /\ rows[batch[w][i].id].status \in Open
<1>1. batch[w] \in Seq(Job)
  BY DEF IInv, TypeOK
<1>2. batch[w][i] \in Job
  BY <1>1, ElementOfSeq, LenProperties
<1>3. batch[w][i] = rows[batch[w][i].id]
  BY DEF ExactCopies
<1>4. batch[w][i].status \in Open
  BY DEF IInv, CopiesAgree, HeldCopy, Agrees
<1>. QED
  BY <1>2, <1>3, <1>4 DEF Job

\* The copy a working worker turns to.
LEMMA HeadIsHeld ==
  ASSUME IInv, ExactCopies, NEW w \in Workers, pc[w] \in {"working", "published"}
  PROVE  /\ batch[w] # <<>> /\ 1 \in DOMAIN batch[w] /\ Head(batch[w]) = batch[w][1]
         /\ Head(batch[w]) \in Job /\ Head(batch[w]).id \in Jobs
         /\ Head(batch[w]) = rows[Head(batch[w]).id]
         /\ rows[Head(batch[w]).id].status \in Open
<1>1. batch[w] # <<>> /\ batch[w] \in Seq(Job)
  BY DEF IInv, CopiesAgree, TypeOK
<1>2. 1 \in DOMAIN batch[w] /\ Head(batch[w]) = batch[w][1]
  BY <1>1, TailFacts
<1>. QED
  BY <1>1, <1>2, HeldIsOpen

\* Time makes a row and its copies older alike.
LEMMA ElapseExact ==
  ASSUME IInv, ExactCopies, Elapse
  PROVE  ExactCopies'
<1>. SUFFICES ASSUME NEW w \in Workers
              PROVE  /\ \A i \in DOMAIN batch'[w] : batch'[w][i] = rows'[batch'[w][i].id]
                     /\ \A i, k \in DOMAIN batch'[w] : batch'[w][i].id = batch'[w][k].id => i = k
  BY DEF ExactCopies
<1>1. DOMAIN batch'[w] = DOMAIN batch[w]
      /\ \A i \in DOMAIN batch[w] : batch'[w][i] = Older(batch[w][i])
  BY DEF Elapse
<1>2. ASSUME NEW i \in DOMAIN batch[w]
      PROVE  batch'[w][i].id = batch[w][i].id /\ batch'[w][i] = rows'[batch[w][i].id]
  BY <1>1, <1>2, HeldIsOpen, OlderKeeps DEF Elapse
<1>. QED
  BY <1>1, <1>2 DEF ExactCopies

\* A new row is nobody's copy: copies are of open rows.
LEMMA EnqueueExact ==
  ASSUME IInv, ExactCopies, NEW j \in Jobs, Enqueue(j)
  PROVE  ExactCopies'
<1>1. \A k \in Jobs \ {j} : rows'[k] = rows[k]
  BY DEF Enqueue, IInv, TypeOK
<1>2. rows[j].status \notin Open /\ UNCHANGED batch
  BY DEF Enqueue, Open, worker
<1>. QED
  BY <1>1, <1>2, HeldIsOpen DEF ExactCopies

\* The poll reads every row at most once.
LEMMA PollExact ==
  ASSUME IInv, Alone, ExactCopies, NEW w \in Workers, Poll(w)
  PROVE  ExactCopies'
<1>1. PICK s \in Selections : batch' = [batch EXCEPT ![w] = [i \in DOMAIN s |-> rows[s[i]]]]
  BY DEF Poll
<1>2. Eligible \subseteq Jobs
  BY DEF Eligible
<1>3. Cardinality(Eligible) \in Nat
  BY <1>2, JobsAssumption, FS_Subset, FS_CardinalityType
<1>4. PICK n \in Nat : /\ s \in [1..n -> Eligible]
                      /\ \A i, k \in 1..n : i < k => s[i] # s[k]
  BY <1>3, BoundsAssumption DEF Selections
<1>5. \A i \in 1..n : s[i] \in Jobs /\ rows[s[i]].id = s[i]
  BY <1>2, <1>4 DEF IInv, VersionCountsOutcomes
<1>6. DOMAIN batch'[w] = 1..n /\ \A i \in 1..n : batch'[w][i] = rows[s[i]]
  BY <1>1, <1>4 DEF IInv, TypeOK
<1>7. \A i, k \in 1..n : s[i] = s[k] => i = k
  BY <1>4
<1>8. UNCHANGED rows
  BY DEF Poll
<1>9. \A i \in 1..n : batch'[w][i].id = s[i] /\ batch'[w][i] = rows'[batch'[w][i].id]
  BY <1>5, <1>6, <1>8
<1>. QED
  BY <1>6, <1>7, <1>9 DEF ExactCopies, Alone

\* The worker moves on: the copies behind the head stay, and their rows do.
LEMMA AdvanceExact ==
  ASSUME IInv, Alone, ExactCopies, NEW w \in Workers, pc[w] \in {"working", "published"}, Advance(w),
         \A j \in Jobs : j # Head(batch[w]).id => rows'[j] = rows[j]
  PROVE  ExactCopies'
<1>1. /\ batch[w] # <<>> /\ 1 \in DOMAIN batch[w] /\ Head(batch[w]) = batch[w][1]
      /\ batch[w] \in Seq(Job)
  BY HeadIsHeld DEF IInv, TypeOK
<1>2. \A i \in DOMAIN batch'[w] : i + 1 \in DOMAIN batch[w] /\ batch'[w][i] = batch[w][i + 1]
  BY <1>1, AdvanceFacts DEF IInv
<1>3. DOMAIN batch'[w] \subseteq Nat \ {0}
  <2>1. batch' \in [Workers -> Seq(Job)]
    BY <1>1, AdvanceFacts DEF IInv
  <2>. QED
    BY <2>1, LenProperties
<1>4. ASSUME NEW i \in DOMAIN batch'[w]
      PROVE  batch'[w][i] = rows'[batch'[w][i].id]
  <2>1. i + 1 # 1 /\ i + 1 \in DOMAIN batch[w]
    BY <1>2, <1>3, <1>4
  <2>2. batch[w][i + 1].id # batch[w][1].id
    BY <1>1, <2>1 DEF ExactCopies
  <2>. QED
    BY <1>1, <1>2, <2>1, <2>2, HeldIsOpen
<1>5. ASSUME NEW i \in DOMAIN batch'[w], NEW k \in DOMAIN batch'[w], batch'[w][i].id = batch'[w][k].id
      PROVE  i = k
  <2>1. i + 1 = k + 1
    BY <1>2, <1>5 DEF ExactCopies
  <2>. QED
    BY <1>3, <2>1
<1>. QED
  BY <1>4, <1>5 DEF ExactCopies, Alone

\* What a step of the write-back does to the table.
LEMMA RecordRow ==
  ASSUME IInv, ExactCopies, NEW w \in Workers, Record(w)
  PROVE  LET j == Head(batch[w]).id
         IN /\ \A k \in Jobs : k # j => rows'[k] = rows[k]
            /\ ~canceled[w] /\ j \notin Unaddressed => rows'[j] = draft[w][1]
<1>. DEFINE job == Head(batch[w])
<1>1. pc[w] = "published" /\ rows' = IF Accepts(w, job) THEN [rows EXCEPT ![job.id] = draft[w][1]] ELSE rows
  BY DEF Record
<1>2. job.id \in Jobs /\ job = rows[job.id]
  BY <1>1, HeadIsHeld
<1>3. ~canceled[w] /\ job.id \notin Unaddressed => Accepts(w, job)
  BY <1>2 DEF Accepts
<1>. HIDE DEF job
<1>4. /\ \A k \in Jobs : k # job.id => rows'[k] = rows[k]
      /\ ~canceled[w] /\ job.id \notin Unaddressed => rows'[job.id] = draft[w][1]
  BY <1>1, <1>2, <1>3 DEF IInv, TypeOK
<1>. QED
  BY <1>4 DEF job

\* Every step of a sole worker keeps its copies exact.
LEMMA ExactNext ==
  ASSUME IInv, Alone, ExactCopies, [Next]_vars
  PROVE  ExactCopies'
<1>1. CASE Elapse
  BY <1>1, ElapseExact
<1>2. CASE \E j \in Jobs : Enqueue(j)
  BY <1>2, EnqueueExact
<1>3. CASE \E w \in Workers : Poll(w)
  BY <1>3, PollExact
<1>4. ASSUME NEW w \in Workers, Skip(w) \/ RecordFails(w)
      PROVE  ExactCopies'
  BY <1>4, AdvanceExact DEF Skip, RecordFails
<1>5. ASSUME NEW w \in Workers, Record(w)
      PROVE  ExactCopies'
  <2>1. pc[w] = "published" /\ Advance(w)
    BY <1>5 DEF Record
  <2>2. \A k \in Jobs : k # Head(batch[w]).id => rows'[k] = rows[k]
    BY <1>5, RecordRow
  <2>. QED
    BY <2>1, <2>2, AdvanceExact
<1>6. ASSUME NEW w \in Workers, Crash(w)
      PROVE  ExactCopies'
  <2>1. batch'[w] = <<>> /\ UNCHANGED rows
    BY <1>6 DEF Crash, IInv, TypeOK
  <2>. QED
    BY <2>1 DEF ExactCopies, Alone
<1>7. CASE UNCHANGED <<rows, batch>>
  BY <1>7 DEF ExactCopies
<1>8. \/ Elapse
      \/ \E j \in Jobs : Enqueue(j)
      \/ \E w \in Workers : Poll(w) \/ Skip(w) \/ RecordFails(w) \/ Record(w) \/ Crash(w)
      \/ UNCHANGED <<rows, batch>>
  BY DEF Next, Step, Publish, Stop, Signal, Restart, vars
<1>. QED
  BY <1>1, <1>2, <1>3, <1>4, <1>5, <1>6, <1>7, <1>8

-----------------------------------------------------------------------------
\* Nothing is delivered and no delivery is forgotten without a disruption.
LEMMA CountCarriesOver ==
  ASSUME IInv, IInv', DeliveriesCounted, UNCHANGED published,
         \/ disruptions' = disruptions + 1
         \/ /\ disruptions' = disruptions
            /\ \A j \in Jobs \ Unaddressed :
                 rows[j].status = "succeeded" \/ InHand(j) => rows'[j].status = "succeeded" \/ InHand(j)'
  PROVE  DeliveriesCounted'
<1>. SUFFICES ASSUME NEW j \in Jobs \ Unaddressed
              PROVE  published'[j] <= disruptions' + (IF rows'[j].status = "succeeded" \/ InHand(j)' THEN 1 ELSE 0)
  BY DEF DeliveriesCounted
<1>1. published[j] \in Nat /\ disruptions \in Nat
  BY BoundsAssumption DEF IInv, TypeOK
<1>2. published[j] <= disruptions + (IF rows[j].status = "succeeded" \/ InHand(j) THEN 1 ELSE 0)
  BY DEF DeliveriesCounted
<1>. QED
  BY <1>1, <1>2

\* A worker that stands elsewhere has nothing in hand.
LEMMA EmptyHanded ==
  ASSUME Alone, NEW w \in Workers, pc[w] # "published"
  PROVE  \A j \in Jobs : ~InHand(j)
  BY DEF InHand, Alone

\* A delivery counts once, for the job in hand; all earlier ones were disrupted.
LEMMA PublishCounts ==
  ASSUME IInv, IInv', Alone, SoleInv, NEW w \in Workers, NEW outcome, Publish(w, outcome)
  PROVE  DeliveriesCounted'
<1>. DEFINE job == Head(batch[w])
            j   == job.id
<1>1. /\ pc[w] = "working" /\ outcome \in Answers(w)
      /\ draft' = [draft EXCEPT ![w] = <<Result(job, outcome)>>]
      /\ pc' = [pc EXCEPT ![w] = "published"]
      /\ published' = IF outcome = "ok" THEN [published EXCEPT ![j] = Bump(@)] ELSE published
      /\ UNCHANGED <<rows, batch, canceled, disruptions>>
  BY DEF Publish
<1>2. job \in Job /\ j \in Jobs /\ rows[j].status \in Open
  BY <1>1, HeadIsHeld DEF SoleInv
<1>3. \A k \in Jobs : ~InHand(k)
  BY <1>1, EmptyHanded
<1>4. CASE outcome # "ok"
  BY <1>1, <1>3, <1>4, CountCarriesOver DEF SoleInv
<1>5. CASE outcome = "ok"
  <2>1. ~canceled[w]
    BY <1>1, <1>5 DEF Answers
  <2>2. Result(job, outcome).status = "succeeded"
    <3>. HIDE DEF job
    <3>. QED
      BY <1>2, <1>5 DEF Result, Job
  <2>3. /\ pc'[w] = "published" /\ ~canceled'[w]
        /\ Head(batch'[w]).id = j
        /\ draft'[w][1].status = "succeeded"
    <3>1. pc'[w] = "published" /\ draft'[w][1] = Result(job, outcome) /\ ~canceled'[w]
      <4>. HIDE DEF job
      <4>. QED
        BY <1>1, <2>1 DEF IInv, TypeOK
    <3>. QED
      BY <1>1, <2>2, <3>1
  <2>. HIDE DEF job, j
  <2>4. published[j] \in Nat /\ disruptions \in Nat /\ (published[j] <= disruptions \/ j \in Unaddressed)
    <3>1. published[j] \in Nat /\ disruptions \in Nat
      BY <1>2, BoundsAssumption DEF IInv, TypeOK
    <3>2. rows[j].status # "succeeded" /\ ~InHand(j)
      BY <1>2, <1>3 DEF Open
    <3>. QED
      BY <1>2, <3>1, <3>2 DEF SoleInv, DeliveriesCounted
  <2>5. /\ \A k \in Jobs \ {j} : published'[k] = published[k]
        /\ published'[j] = Bump(published[j])
    BY <1>1, <1>2, <1>5 DEF IInv, TypeOK
  <2>6. published[j] \in Nat /\ disruptions \in Nat /\ Bump(published[j]) <= published[j] + 1
    BY <1>2, BoundsAssumption DEF IInv, TypeOK, Bump
  <2>7. ASSUME NEW k \in Jobs \ Unaddressed
        PROVE  published'[k] <= disruptions' + (IF rows'[k].status = "succeeded" \/ InHand(k)' THEN 1 ELSE 0)
    <3>1. CASE k = j
      <4>1. published[j] <= disruptions /\ published'[j] \in Nat
        BY <1>2, <2>4, <3>1, BoundsAssumption DEF IInv, TypeOK
      <4>2. published'[k] <= disruptions' + 1
        BY <1>1, <2>5, <2>6, <3>1, <4>1
      <4>3. InHand(k)'
        BY <2>3, <3>1 DEF InHand
      <4>4. (IF rows'[k].status = "succeeded" \/ InHand(k)' THEN 1 ELSE 0) = 1
        BY <4>3
      <4>. QED
        BY <4>2, <4>4
    <3>2. CASE k # j
      <4>1. published[k] <= disruptions + (IF rows[k].status = "succeeded" THEN 1 ELSE 0)
        BY <1>3 DEF SoleInv, DeliveriesCounted
      <4>2. published[k] \in Nat
        BY BoundsAssumption DEF IInv, TypeOK
      <4>. QED
        BY <1>1, <2>5, <2>6, <3>2, <4>1, <4>2
    <3>. QED
      BY <3>1, <3>2
  <2>. QED
    BY <2>7 DEF DeliveriesCounted
<1>. QED
  BY <1>4, <1>5

\* The write-back turns what was in hand into a stored success.
LEMMA RecordCounts ==
  ASSUME IInv, IInv', Alone, SoleInv, NEW w \in Workers, Record(w)
  PROVE  DeliveriesCounted'
<1>1. pc[w] = "published" /\ UNCHANGED <<published, disruptions>>
  BY DEF Record, history
<1>2. rows[Head(batch[w]).id].status \in Open
  BY <1>1, HeadIsHeld DEF SoleInv
<1>3. ASSUME NEW j \in Jobs \ Unaddressed, rows[j].status = "succeeded"
      PROVE  rows'[j].status = "succeeded"
  <2>1. j # Head(batch[w]).id
    BY <1>2, <1>3 DEF Open
  <2>. QED
    BY <1>3, <2>1, RecordRow DEF SoleInv
<1>4. ASSUME NEW j \in Jobs \ Unaddressed, InHand(j)
      PROVE  rows'[j].status = "succeeded"
  <2>1. Head(batch[w]).id = j /\ ~canceled[w] /\ draft[w][1].status = "succeeded"
    BY <1>4 DEF InHand, Alone
  <2>. QED
    BY <2>1, RecordRow DEF SoleInv
<1>. QED
  BY <1>1, <1>3, <1>4, CountCarriesOver DEF SoleInv

\* Time keeps what is in hand in hand.
LEMMA ElapseCounts ==
  ASSUME IInv, IInv', SoleInv, Elapse
  PROVE  DeliveriesCounted'
<1>1. UNCHANGED <<pc, canceled, published, disruptions>>
  BY DEF Elapse, history
<1>2. \A j \in Jobs : rows'[j].status = rows[j].status
  BY OlderKeeps DEF Elapse, IInv, TypeOK
<1>3. ASSUME NEW j \in Jobs, InHand(j)
      PROVE  InHand(j)'
  <2>1. PICK w \in Workers : /\ pc[w] = "published" /\ ~canceled[w]
                             /\ Head(batch[w]).id = j /\ draft[w][1].status = "succeeded"
    BY <1>3 DEF InHand
  <2>2. Head(batch'[w]).id = j
    <3>1. 1 \in DOMAIN batch[w] /\ Head(batch[w]) = batch[w][1] /\ batch[w][1] \in Job
      BY <2>1, HeadIsHeld DEF SoleInv
    <3>2. batch'[w][1] = Older(batch[w][1])
      BY <3>1 DEF Elapse
    <3>3. batch'[w] # <<>> /\ batch'[w] \in Seq(Job)
      BY <1>1, <2>1 DEF IInv, CopiesAgree, TypeOK
    <3>4. Head(batch'[w]) = batch'[w][1]
      BY <3>3, TailFacts
    <3>. QED
      BY <2>1, <3>1, <3>2, <3>4, OlderKeeps
  <2>3. draft'[w][1].status = "succeeded"
    <3>1. Len(draft[w]) = 1 /\ draft[w] \in Seq(Job)
      BY <2>1 DEF IInv, CopiesAgree, HeldDraft, TypeOK
    <3>2. 1 \in DOMAIN draft[w] /\ draft[w][1] \in Job
      BY <3>1, ElementOfSeq, LenProperties
    <3>3. draft'[w][1] = Older(draft[w][1])
      BY <3>2 DEF Elapse
    <3>. QED
      BY <2>1, <3>2, <3>3, OlderKeeps
  <2>. QED
    BY <1>1, <2>1, <2>2, <2>3 DEF InHand
<1>. QED
  BY <1>1, <1>2, <1>3, CountCarriesOver DEF SoleInv

LEMMA CountNext ==
  ASSUME IInv, IInv', Alone, SoleInv, [Next]_vars
  PROVE  DeliveriesCounted'
<1>1. CASE Elapse
  BY <1>1, ElapseCounts
<1>2. ASSUME NEW j \in Jobs, Enqueue(j)
      PROVE  DeliveriesCounted'
  <2>1. UNCHANGED <<published, disruptions, pc, canceled, batch, draft>>
    BY <1>2 DEF Enqueue, worker, history
  <2>2. \A k \in Jobs : rows[k].status = "succeeded" => rows'[k].status = "succeeded"
    BY <1>2 DEF Enqueue, IInv, TypeOK
  <2>. QED
    BY <2>1, <2>2, CountCarriesOver DEF SoleInv, InHand
<1>3. ASSUME NEW w \in Workers, \E outcome \in Outcomes \cup {"canceled"} : Publish(w, outcome)
      PROVE  DeliveriesCounted'
  BY <1>3, PublishCounts
<1>4. ASSUME NEW w \in Workers, Record(w)
      PROVE  DeliveriesCounted'
  BY <1>4, RecordCounts
<1>5. ASSUME NEW w \in Workers, Poll(w) \/ Skip(w) \/ Stop(w) \/ Restart(w)
      PROVE  DeliveriesCounted'
  <2>1. pc[w] # "published" /\ UNCHANGED <<rows, published, disruptions>>
    BY <1>5 DEF Poll, Skip, Stop, Restart, history
  <2>. QED
    BY <2>1, EmptyHanded, CountCarriesOver DEF SoleInv
<1>6. ASSUME NEW w \in Workers, RecordFails(w) \/ Signal(w) \/ Crash(w)
      PROVE  DeliveriesCounted'
  BY <1>6, CountCarriesOver DEF SoleInv, RecordFails, Signal, Crash, Disrupt, history
<1>7. CASE UNCHANGED vars
  BY <1>7, CountCarriesOver DEF vars, SoleInv, InHand
<1>. QED
  BY <1>1, <1>2, <1>3, <1>4, <1>5, <1>6, <1>7 DEF Next, Step

-----------------------------------------------------------------------------
LEMMA SoleInit == Init => SoleInv
<1>. SUFFICES ASSUME Init PROVE SoleInv
  OBVIOUS
<1>1. ExactCopies
  BY DEF Init, ExactCopies
<1>2. DeliveriesCounted
  BY DEF Init, DeliveriesCounted
<1>. QED
  BY <1>1, <1>2 DEF SoleInv

\* The invariant of a sole worker holds of every reachable state.
LEMMA SoleInvariance ==
  ASSUME Alone
  PROVE  Spec => [](IInv /\ SoleInv)
<1>1. IInv /\ SoleInv /\ [Next]_vars => IInv' /\ SoleInv'
  BY NextInv, ExactNext, CountNext DEF SoleInv
<1>. QED
  BY <1>1, InitInv, SoleInit, PTL DEF Spec

\* With one server process, a notification goes out again only when a crash, a signal
\* or a store error lost the record of the delivery before: at most one delivery more
\* than there were disruptions, for every job that validates.
THEOREM RedeliveryNeedsDisruption ==
  ASSUME Alone
  PROVE  Spec => [](\A j \in Jobs \ Unaddressed : published[j] <= 1 + disruptions)
<1>1. IInv /\ SoleInv => \A j \in Jobs \ Unaddressed : published[j] <= 1 + disruptions
  <2>1. IInv => disruptions \in Nat /\ \A j \in Jobs : published[j] \in Nat
    BY BoundsAssumption DEF IInv, TypeOK
  <2>. QED
    BY <2>1 DEF SoleInv, DeliveriesCounted
<1>. QED
  BY <1>1, SoleInvariance, PTL

\* The same as the property the runs check, where every job is addressed to a tenant.
THEOREM DuplicatesAreDisruptions ==
  ASSUME Alone, Unaddressed = {}
  PROVE  Spec => []DuplicatesNeedDisruption
<1>1. (\A j \in Jobs \ Unaddressed : published[j] <= 1 + disruptions) => DuplicatesNeedDisruption
  BY DEF DuplicatesNeedDisruption
<1>. QED
  BY <1>1, RedeliveryNeedsDisruption, PTL

\* With one server process, processOne hands over a job only when the program's own
\* rule on retries allows it for the row as it is stored at that moment.
THEOREM BackoffIsRespected ==
  ASSUME Alone
  PROVE  Spec => BackoffRespected
<1>1. ASSUME IInv, SoleInv, [Next]_vars, NEW w \in Workers, pc[w] = "working", pc'[w] = "published"
      PROVE  LET row == rows[Head(batch[w]).id]
             IN OutboxRetryIsDue([Attempts |-> row.attempts, MaxAttempts |-> MaxAttempts,
                                  Now |-> row.age, Deadline |-> Backoff(row.attempts)])
  <2>. DEFINE job == Head(batch[w])
  <2>1. job \in Job /\ job = rows[job.id] /\ job = batch[w][1] /\ 1 \in DOMAIN batch[w]
    BY <1>1, HeadIsHeld DEF SoleInv
  <2>2. Due(job)
    BY <1>1 DEF Alone, Next, Step, Enqueue, Elapse, Poll, Skip, Advance, Publish, Record, RecordFails,
                Signal, Stop, Crash, Restart, worker, vars, IInv, TypeOK
  <2>3. job.attempts \in 0..(MaxAttempts - 1)
    BY <1>1, <2>1, AgreesAttempts DEF IInv, CopiesAgree, HeldCopy
  <2>. HIDE DEF job
  <2>4. job.attempts >= 0 /\ job.attempts < MaxAttempts /\ MaxAttempts >= 1
    BY <2>3, BoundsAssumption
  <2>5. OutboxRetryIsDue([Attempts |-> job.attempts, MaxAttempts |-> MaxAttempts,
                          Now |-> job.age, Deadline |-> Backoff(job.attempts)])
    BY <2>2, <2>4 DEF OutboxRetryIsDue, Due
  <2>. QED
    BY <2>1, <2>5 DEF job
<1>2. IInv /\ SoleInv /\ [Next]_vars
        => [\A w \in Workers :
              pc[w] = "working" /\ pc'[w] = "published"
                => LET row == rows[Head(batch[w]).id]
                   IN OutboxRetryIsDue([Attempts |-> row.attempts, MaxAttempts |-> MaxAttempts,
                                        Now |-> row.age, Deadline |-> Backoff(row.attempts)])]_vars
  BY <1>1
<1>. QED
  BY <1>2, SoleInvariance, PTL DEF Spec, BackoffRespected
=============================================================================
