------------------------- MODULE OutboxWorkerProofs -------------------------
(***************************************************************************)
(* Proofs about the outbox worker, for any number of jobs and processes,   *)
(* any batch size and any limit of attempts.                               *)
(*                                                                         *)
(* The inductive invariant IInv says that what a worker holds between the  *)
(* poll and the write-back is bounded by the table (CopiesAgree).  Without *)
(* it a write-back could store anything: the optimistic version only       *)
(* compares two numbers, and it is CopiesAgree that makes equal numbers    *)
(* mean equal rows.                                                        *)
(***************************************************************************)
EXTENDS OutboxWorker, FiniteSetTheorems, SequenceTheorems, TLAPS

\* Every attempt stored in a row was a refusal of the publisher.
AttemptsWereRefused == \A j \in Jobs : rows[j].attempts <= failures[j]

IInv ==
  /\ TypeOK
  /\ VersionCountsOutcomes
  /\ AttemptsWereRefused
  /\ SucceededWasPublished
  /\ CopiesAgree

-----------------------------------------------------------------------------
(***************************************************************************)
(* Facts about one job record.                                             *)
(***************************************************************************)

\* Time changes nothing of a job but its age.
LEMMA OlderKeeps ==
  ASSUME NEW c \in Job
  PROVE  /\ Older(c) \in Job
         /\ Older(c).id = c.id
         /\ Older(c).status = c.status
         /\ Older(c).version = c.version
         /\ Older(c).attempts = c.attempts
BY BoundsAssumption DEF Job, Older

\* The outcome of a delivery (processOne) is a job, and it follows the copy.
LEMMA ResultFollows ==
  ASSUME NEW c \in Job, NEW outcome, NEW n \in Nat, NEW f \in Nat, NEW off,
         c.attempts <= f,
         outcome = "ok" => n > 0,
         outcome = "error" => c.attempts + 1 <= f,
         outcome \notin {"ok", "error"} => off
  PROVE  Result(c, outcome) \in Job /\ Follows(Result(c, outcome), c, n, f, off)
<1> DEFINE d == Result(c, outcome)
<1>1. 0 \in 0..Horizon
  BY BoundsAssumption
<1>2. CASE outcome = "ok"
  <2>1. d = [c EXCEPT !.status = "succeeded", !.version = c.version + 1, !.age = 0]
    BY <1>2 DEF Result
  <2>2. d = [id |-> c.id, status |-> "succeeded", version |-> c.version + 1,
             attempts |-> c.attempts, age |-> 0]
    <3> HIDE DEF d
    <3> QED BY <2>1 DEF Job, Settled
  <2>3. d \in Job
    <3> HIDE DEF d
    <3> QED BY <1>1, <2>2 DEF Job, Settled
  <2> QED BY <1>2, <2>2, <2>3 DEF Follows
<1>3. CASE outcome # "ok"
  <2> DEFINE st == IF c.attempts + 1 >= MaxAttempts THEN "permanent_failure" ELSE "retry"
  <2>1. d = [c EXCEPT !.status = st, !.attempts = c.attempts + 1, !.version = c.version + 1, !.age = 0]
    BY <1>3 DEF Result
  <2>2. st \in Open \cup Settled \cup {"absent"}
    BY DEF Open, Settled
  <2>3. d = [id |-> c.id, status |-> st, version |-> c.version + 1,
             attempts |-> c.attempts + 1, age |-> 0]
    <3> HIDE DEF d, st
    <3> QED BY <2>1 DEF Job
  <2>4. d \in Job
    <3> HIDE DEF d, st
    <3> QED BY <1>1, <2>2, <2>3 DEF Job
  <2> QED BY <1>3, <2>3, <2>4 DEF Follows
<1> QED BY <1>2, <1>3

\* Recording the outcome of an open job keeps the version in step with it.
LEMMA FollowsConsistent ==
  ASSUME NEW c \in Job, NEW d \in Job, NEW n \in Nat, NEW f \in Nat, NEW off,
         c.status \in Open, Consistent(c), Follows(d, c, n, f, off)
  PROVE  /\ Consistent(d)
         /\ d.status \notin {"absent", "pending"}
         /\ d.attempts <= MaxAttempts
<1>1. /\ c.version = c.attempts + 1
      /\ c.attempts \in 0..(MaxAttempts - 1)
  <2>1. CASE c.status = "pending"
    BY <2>1, BoundsAssumption DEF Consistent, Job
  <2>2. CASE c.status = "retry"
    BY <2>2, BoundsAssumption DEF Consistent, Job
  <2> QED BY <2>1, <2>2 DEF Open
<1>2. CASE d.status = "succeeded"
  BY <1>1, <1>2, BoundsAssumption DEF Job, Consistent, Follows
<1>3. CASE d.status = "retry"
  BY <1>1, <1>3, BoundsAssumption DEF Job, Consistent, Follows
<1>4. CASE d.status = "permanent_failure"
  BY <1>1, <1>4, BoundsAssumption DEF Job, Consistent, Follows
<1> QED BY <1>2, <1>3, <1>4 DEF Follows

\* A copy in hand has used up fewer than MaxAttempts attempts, all of them refusals.
LEMMA AgreesAttempts ==
  ASSUME NEW c \in Job, NEW r, NEW f, Agrees(c, r, f)
  PROVE  c.attempts \in 0..(MaxAttempts - 1) /\ c.attempts <= f
<1>1. CASE c.status = "pending"
  BY <1>1, BoundsAssumption DEF Agrees, Consistent, Job
<1>2. CASE c.status = "retry"
  BY <1>2, BoundsAssumption DEF Agrees, Consistent, Job
<1> QED BY <1>1, <1>2 DEF Agrees, Open

\* A copy keeps agreeing with a row that stays or gets a higher version.
LEMMA CopySurvives ==
  ASSUME NEW c \in Job, NEW r \in Job, NEW r2 \in Job, NEW f \in Nat, NEW f2 \in Nat,
         Agrees(c, r, f),
         f <= f2,
         \/ r2.version = r.version /\ r2.status = r.status /\ r2.attempts = r.attempts
         \/ r2.version > r.version /\ r2.status # "absent"
  PROVE  Agrees(c, r2, f2)
BY DEF Agrees, Job

\* The history counters saturate.
LEMMA BumpFacts ==
  ASSUME NEW n \in 0..HistoryCap
  PROVE  /\ Bump(n) \in 0..HistoryCap
         /\ n <= Bump(n)
         /\ \A k \in Nat : k <= n /\ k < HistoryCap => k + 1 <= Bump(n)
BY BoundsAssumption DEF Bump

\* The head and the tail of what is left of a batch.
LEMMA TailFacts ==
  ASSUME NEW s \in Seq(Job), s # <<>>
  PROVE  /\ Head(s) \in Job
         /\ Head(s) = s[1]
         /\ 1 \in DOMAIN s
         /\ Tail(s) \in Seq(Job)
         /\ \A i \in DOMAIN Tail(s) : i + 1 \in DOMAIN s /\ Tail(s)[i] = s[i + 1]
<1>1. Len(s) \in Nat /\ Len(s) > 0 /\ DOMAIN s = 1..Len(s)
  BY EmptySeq, LenProperties
<1>2. Tail(s) \in Seq(Job) /\ Len(Tail(s)) = Len(s) - 1 /\ \A i \in 1..Len(Tail(s)) : Tail(s)[i] = s[i + 1]
  BY HeadTailProperties
<1>3. DOMAIN Tail(s) = 1..Len(Tail(s))
  BY <1>2, LenProperties
<1>4. Head(s) = s[1] /\ Head(s) \in Job
  BY HeadTailProperties
<1> QED BY <1>1, <1>2, <1>3, <1>4

-----------------------------------------------------------------------------
(***************************************************************************)
(* What carries over a step: rows only advance, histories only grow, so    *)
(* copies and drafts that stay in a worker's hands stay in agreement.      *)
(***************************************************************************)

\* Two records of one job that differ at most in their age.
Same(c, d) ==
  c.id = d.id /\ c.status = d.status /\ c.version = d.version /\ c.attempts = d.attempts

RowsAdvance ==
  \A j \in Jobs :
    \/ /\ rows'[j].version = rows[j].version
       /\ rows'[j].status = rows[j].status
       /\ rows'[j].attempts = rows[j].attempts
    \/ rows'[j].version > rows[j].version /\ rows'[j].status # "absent"

HistoryGrows ==
  \A j \in Jobs : published[j] <= published'[j] /\ failures[j] <= failures'[j]

\* Copies that agree still agree when no row changes.
LEMMA CopiesCarryOver ==
  ASSUME TypeOK, TypeOK', RowsAdvance, HistoryGrows, CopiesAgree, NEW w \in Workers,
         \A i \in DOMAIN batch'[w] : \E k \in DOMAIN batch[w] : Same(batch'[w][i], batch[w][k])
  PROVE  \A i \in DOMAIN batch'[w] : HeldCopy(w, i)'
<1> SUFFICES ASSUME NEW i \in DOMAIN batch'[w] PROVE HeldCopy(w, i)'
  OBVIOUS
<1>1. PICK k \in DOMAIN batch[w] : Same(batch'[w][i], batch[w][k])
  OBVIOUS
<1> DEFINE c == batch[w][k]
           c2 == batch'[w][i]
<1>2. c \in Job /\ c2 \in Job
  <2>1. batch[w] \in Seq(Job) /\ batch'[w] \in Seq(Job)
    BY DEF TypeOK
  <2> QED BY <2>1, ElementOfSeq, LenProperties
<1>3. c.id \in Jobs /\ c2.id = c.id
  BY <1>1, <1>2 DEF Same, Job
<1>4. Agrees(c, rows[c.id], failures[c.id])
  BY DEF CopiesAgree, HeldCopy
<1>5. /\ rows[c.id] \in Job /\ rows'[c.id] \in Job
      /\ failures[c.id] \in Nat /\ failures'[c.id] \in Nat
      /\ failures[c.id] <= failures'[c.id]
  BY <1>3, BoundsAssumption DEF TypeOK, HistoryGrows
<1>6. \/ /\ rows'[c.id].version = rows[c.id].version
         /\ rows'[c.id].status = rows[c.id].status
         /\ rows'[c.id].attempts = rows[c.id].attempts
      \/ rows'[c.id].version > rows[c.id].version /\ rows'[c.id].status # "absent"
  BY <1>3 DEF RowsAdvance
<1>7. Agrees(c, rows'[c.id], failures'[c.id])
  <2> HIDE DEF c
  <2> QED BY <1>2, <1>4, <1>5, <1>6, CopySurvives
<1>8. Agrees(c2, rows'[c2.id], failures'[c2.id])
  <2> HIDE DEF c, c2
  <2>1. Same(c2, c)
    BY <1>1 DEF c, c2
  <2> QED BY <1>3, <1>7, <2>1 DEF Agrees, Consistent, Same
<1> QED BY <1>8 DEF HeldCopy

\* An outcome not yet recorded stays what it was when its row does.
LEMMA DraftCarriesOver ==
  ASSUME TypeOK, TypeOK', HistoryGrows, CopiesAgree, NEW w \in Workers,
         pc[w] = "published", batch'[w] # <<>>,
         Same(batch'[w][1], batch[w][1]),
         Len(draft'[w]) = 1, Same(draft'[w][1], draft[w][1]),
         canceled[w] => canceled'[w]
  PROVE  HeldDraft(w)'
<1> DEFINE c == Head(batch[w])
           d == draft[w][1]
           c2 == Head(batch'[w])
           d2 == draft'[w][1]
<1>1. batch[w] # <<>> /\ HeldDraft(w)
  BY DEF CopiesAgree
<1>2. c \in Job /\ c2 \in Job /\ Same(c2, c)
  <2>1. batch[w] \in Seq(Job) /\ batch'[w] \in Seq(Job)
    BY DEF TypeOK
  <2> QED BY <1>1, <2>1, TailFacts
<1>3. d \in Job /\ d2 \in Job
  <2>1. draft[w] \in Seq(Job) /\ draft'[w] \in Seq(Job)
    BY DEF TypeOK
  <2>2. Len(draft[w]) = 1 /\ Len(draft'[w]) = 1
    BY <1>1 DEF HeldDraft
  <2>3. 1 \in 1..Len(draft[w]) /\ 1 \in 1..Len(draft'[w])
    BY <2>2
  <2> QED BY <2>1, <2>3, ElementOfSeq
<1>4. Follows(d, c, published[c.id], failures[c.id], canceled[w])
  BY <1>1 DEF HeldDraft
<1>5. c.id \in Jobs /\ c2.id = c.id
  BY <1>2 DEF Same, Job
<1>6. /\ published[c.id] \in Nat /\ published'[c.id] \in Nat
      /\ failures[c.id] \in Nat /\ failures'[c.id] \in Nat
      /\ published[c.id] <= published'[c.id] /\ failures[c.id] <= failures'[c.id]
      /\ canceled[w] \in BOOLEAN /\ canceled'[w] \in BOOLEAN
  BY <1>5, BoundsAssumption DEF TypeOK, HistoryGrows
<1>7. Follows(d, c, published'[c.id], failures'[c.id], canceled'[w])
  <2> HIDE DEF c, d
  <2>1. d.attempts \in Nat
    BY <1>3 DEF Job
  <2> QED BY <1>4, <1>6, <2>1 DEF Follows
<1>8. Follows(d2, c2, published'[c2.id], failures'[c2.id], canceled'[w])
  <2> HIDE DEF c, c2, d, d2
  <2>1. Same(d2, d)
    BY DEF d, d2
  <2> QED BY <1>2, <1>5, <1>7, <2>1 DEF Follows, Same
<1> QED BY <1>8 DEF HeldDraft

-----------------------------------------------------------------------------
(***************************************************************************)
(* One lemma per action: it preserves the inductive invariant.             *)
(***************************************************************************)
\* The invariant holds initially.
LEMMA InitInv == Init => IInv
<1> SUFFICES ASSUME Init PROVE IInv
  OBVIOUS
<1>1. \A j \in Jobs : Absent(j) \in Job
  BY BoundsAssumption DEF Absent, Job
<1>2. <<>> \in Seq(Job)
  BY EmptySeq
<1>3. 0 \in 0..HistoryCap /\ 0 \in 0..MaxDisruptions
  BY BoundsAssumption
<1>4. TypeOK
  <2>1. rows \in [Jobs -> Job] /\ published \in [Jobs -> 0..HistoryCap] /\ failures \in [Jobs -> 0..HistoryCap]
    BY <1>1, <1>3 DEF Init
  <2>2. batch \in [Workers -> Seq(Job)] /\ draft \in [Workers -> Seq(Job)]
    BY <1>2 DEF Init
  <2>3. canceled \in [Workers -> BOOLEAN]
    BY DEF Init
  <2>4. pc \in [Workers -> {"idle", "working", "published", "stopped"}]
    BY DEF Init
  <2>5. disruptions \in 0..MaxDisruptions
    BY <1>3 DEF Init
  <2> QED BY <2>1, <2>2, <2>3, <2>4, <2>5 DEF TypeOK
<1>5. VersionCountsOutcomes /\ AttemptsWereRefused /\ SucceededWasPublished
  <2>1. \A j \in Jobs : /\ rows[j] = Absent(j)
                       /\ Absent(j).id = j /\ Absent(j).status = "absent"
                       /\ Absent(j).version = 0 /\ Absent(j).attempts = 0
                       /\ failures[j] = 0
    BY DEF Init, Absent
  <2>2. \A j \in Jobs : Consistent(rows[j])
    <3> SUFFICES ASSUME NEW j \in Jobs PROVE Consistent(rows[j])
      OBVIOUS
    <3>1. rows[j].status = "absent" /\ rows[j].version = 0 /\ rows[j].attempts = 0
      BY <2>1
    <3> QED BY <3>1 DEF Consistent
  <2>3. \A j \in Jobs : rows[j].id = j /\ rows[j].status # "succeeded" /\ rows[j].attempts <= failures[j]
    BY <2>1
  <2> QED BY <2>2, <2>3 DEF VersionCountsOutcomes, AttemptsWereRefused, SucceededWasPublished
<1>6. CopiesAgree
  BY DEF Init, CopiesAgree
<1> QED BY <1>4, <1>5, <1>6 DEF IInv

\* A committed decision adds a row; nobody holds a copy of it yet.
LEMMA EnqueueInv ==
  ASSUME IInv, NEW j \in Jobs, Enqueue(j)
  PROVE  IInv'
<1>1. NewJob(j) \in Job /\ Consistent(NewJob(j))
  BY BoundsAssumption DEF NewJob, Job, Consistent, Open
<1>2. TypeOK'
  BY <1>1 DEF IInv, TypeOK, Enqueue, worker, history
<1>3. \A k \in Jobs : k # j => rows'[k] = rows[k]
  BY DEF Enqueue, IInv, TypeOK
<1>4. rows'[j] = NewJob(j) /\ rows[j].status = "absent" /\ rows[j].version = 0
  BY DEF Enqueue, IInv, TypeOK, VersionCountsOutcomes, Consistent
<1>5. VersionCountsOutcomes'
  BY <1>1, <1>3, <1>4 DEF IInv, VersionCountsOutcomes, NewJob
<1>6. AttemptsWereRefused' /\ SucceededWasPublished'
  <2>1. failures[j] \in Nat
    BY BoundsAssumption DEF IInv, TypeOK
  <2> QED BY <1>3, <1>4, <2>1 DEF IInv, AttemptsWereRefused, SucceededWasPublished, NewJob, Enqueue, history
<1>7. RowsAdvance /\ HistoryGrows
  <2>1. HistoryGrows
    BY BoundsAssumption DEF HistoryGrows, Enqueue, history, IInv, TypeOK
  <2> QED BY <1>3, <1>4, <2>1 DEF RowsAdvance, NewJob
<1>8. CopiesAgree'
  <2> SUFFICES ASSUME NEW w \in Workers
               PROVE  /\ \A i \in DOMAIN batch'[w] : HeldCopy(w, i)'
                      /\ pc'[w] \in {"working", "published"} <=> batch'[w] # <<>>
                      /\ pc'[w] = "published" => HeldDraft(w)'
    BY DEF CopiesAgree
  <2>1. \A i \in DOMAIN batch'[w] : HeldCopy(w, i)'
    BY <1>2, <1>7, CopiesCarryOver DEF IInv, Enqueue, worker, Same
  <2>2. pc'[w] = "published" => HeldDraft(w)'
    BY DEF IInv, CopiesAgree, HeldDraft, Enqueue, worker, history
  <2> QED BY <2>1, <2>2 DEF IInv, CopiesAgree, Enqueue, worker
<1> QED BY <1>2, <1>5, <1>6, <1>8 DEF IInv

\* Time leaves everything but the ages alone.
LEMMA ElapseInv ==
  ASSUME IInv, Elapse
  PROVE  IInv'
<1>1. \A j \in Jobs : rows[j] \in Job /\ rows'[j] = Older(rows[j])
  BY DEF IInv, TypeOK, Elapse
<1>2. \A j \in Jobs : rows'[j] \in Job /\ Same(rows'[j], rows[j])
  BY <1>1, OlderKeeps DEF Same
<1>3. \A s \in Seq(Job) : LET t == [i \in DOMAIN s |-> Older(s[i])]
                        IN /\ t \in Seq(Job) /\ Len(t) = Len(s) /\ DOMAIN t = DOMAIN s
                           /\ \A i \in DOMAIN s : Same(t[i], s[i])
                           /\ t = <<>> <=> s = <<>>
  <2> SUFFICES ASSUME NEW s \in Seq(Job)
               PROVE  LET t == [i \in DOMAIN s |-> Older(s[i])]
                      IN /\ t \in Seq(Job) /\ Len(t) = Len(s) /\ DOMAIN t = DOMAIN s
                         /\ \A i \in DOMAIN s : Same(t[i], s[i])
                         /\ t = <<>> <=> s = <<>>
    OBVIOUS
  <2> DEFINE t == [i \in DOMAIN s |-> Older(s[i])]
  <2>1. DOMAIN s = 1..Len(s) /\ Len(s) \in Nat
    BY LenProperties
  <2>2. \A i \in DOMAIN s : s[i] \in Job
    BY <2>1, ElementOfSeq
  <2>3. \A i \in DOMAIN s : t[i] \in Job /\ Same(t[i], s[i])
    BY <2>2, OlderKeeps DEF Same
  <2>4. t \in Seq(Job)
    BY <2>1, <2>3, IsASeq
  <2>5. Len(t) = Len(s)
    BY <2>1, <2>4, LenProperties
  <2>6. t = <<>> <=> s = <<>>
    BY <2>4, <2>5, EmptySeq
  <2> QED BY <2>3, <2>4, <2>5, <2>6
<1>4. \A w \in Workers : /\ batch[w] \in Seq(Job) /\ draft[w] \in Seq(Job)
                         /\ batch'[w] = [i \in DOMAIN batch[w] |-> Older(batch[w][i])]
                         /\ draft'[w] = [i \in DOMAIN draft[w] |-> Older(draft[w][i])]
  BY DEF IInv, TypeOK, Elapse
<1>5. TypeOK'
  <2>1. rows' \in [Jobs -> Job]
    BY <1>2 DEF Elapse
  <2>2. batch' \in [Workers -> Seq(Job)] /\ draft' \in [Workers -> Seq(Job)]
    BY <1>3, <1>4 DEF Elapse
  <2> QED BY <2>1, <2>2 DEF IInv, TypeOK, Elapse, history
<1>6. VersionCountsOutcomes' /\ AttemptsWereRefused' /\ SucceededWasPublished'
  <2>1. \A j \in Jobs : Consistent(rows[j]) => Consistent(rows'[j])
    BY <1>2 DEF Same, Consistent
  <2>2. published' = published /\ failures' = failures
    BY DEF Elapse, history
  <2>3. VersionCountsOutcomes'
    BY <1>2, <2>1 DEF IInv, VersionCountsOutcomes, Same
  <2>4. AttemptsWereRefused'
    BY <1>2, <2>2 DEF IInv, AttemptsWereRefused, Same
  <2>5. SucceededWasPublished'
    BY <1>2, <2>2 DEF IInv, SucceededWasPublished, Same
  <2> QED BY <2>3, <2>4, <2>5
<1>7. RowsAdvance /\ HistoryGrows
  <2>1. HistoryGrows
    BY BoundsAssumption DEF HistoryGrows, Elapse, history, IInv, TypeOK
  <2> QED BY <1>2, <2>1 DEF RowsAdvance, Same
<1>8. CopiesAgree'
  <2> SUFFICES ASSUME NEW w \in Workers
               PROVE  /\ \A i \in DOMAIN batch'[w] : HeldCopy(w, i)'
                      /\ pc'[w] \in {"working", "published"} <=> batch'[w] # <<>>
                      /\ pc'[w] = "published" => HeldDraft(w)'
    BY DEF CopiesAgree
  <2>1. \A i \in DOMAIN batch'[w] : HeldCopy(w, i)'
    <3>1. \A i \in DOMAIN batch'[w] : i \in DOMAIN batch[w] /\ Same(batch'[w][i], batch[w][i])
      BY <1>3, <1>4
    <3> QED BY <1>5, <1>7, <3>1, CopiesCarryOver DEF IInv
  <2>2. pc'[w] \in {"working", "published"} <=> batch'[w] # <<>>
    BY <1>3, <1>4 DEF IInv, CopiesAgree, Elapse
  <2>3. ASSUME pc'[w] = "published" PROVE HeldDraft(w)'
    <3>1. pc[w] = "published" /\ batch[w] # <<>> /\ batch'[w] # <<>> /\ HeldDraft(w)
      BY <2>2, <2>3 DEF Elapse, IInv, CopiesAgree
    <3>2. Same(batch'[w][1], batch[w][1])
      BY <1>3, <1>4, <3>1, TailFacts
    <3>3. Len(draft[w]) = 1 /\ 1 \in DOMAIN draft[w]
      BY <1>4, <3>1, LenProperties DEF HeldDraft
    <3>4. Len(draft'[w]) = 1 /\ Same(draft'[w][1], draft[w][1])
      BY <1>3, <1>4, <3>3
    <3> QED BY <1>5, <1>7, <3>1, <3>2, <3>4, DraftCarriesOver DEF IInv, Elapse
  <2> QED BY <2>1, <2>2, <2>3
<1> QED BY <1>5, <1>6, <1>8 DEF IInv

\* The poll hands out copies of open rows, which agree with themselves.
LEMMA PollInv ==
  ASSUME IInv, NEW w \in Workers, Poll(w)
  PROVE  IInv'
<1>1. PICK s \in Selections :
        /\ batch' = [batch EXCEPT ![w] = [i \in DOMAIN s |-> rows[s[i]]]]
        /\ pc' = [pc EXCEPT ![w] = IF DOMAIN s = {} THEN "idle" ELSE "working"]
  BY DEF Poll
<1> DEFINE got == [i \in DOMAIN s |-> rows[s[i]]]
<1>2. Eligible \subseteq Jobs /\ \A j \in Eligible : rows[j] \in Job /\ rows[j].status \in Open
  BY DEF Eligible, IInv, TypeOK
<1>3. Cardinality(Eligible) \in Nat
  BY <1>2, JobsAssumption, FS_Subset, FS_CardinalityType
<1>4. PICK n \in Nat : s \in [1..n -> Eligible]
  BY <1>3, BoundsAssumption DEF Selections
<1>5. \A i \in 1..n : got[i] \in Job /\ got[i] = rows[s[i]] /\ s[i] \in Eligible
  BY <1>2, <1>4
<1>6. got \in Seq(Job) /\ DOMAIN got = 1..n /\ Len(got) = n
  <2>1. got \in Seq(Job)
    BY <1>4, <1>5, IsASeq
  <2> QED BY <1>4, <2>1, LenProperties
<1>7. got = <<>> <=> DOMAIN s = {}
  <2>1. got = <<>> <=> n = 0
    BY <1>6, EmptySeq
  <2>2. DOMAIN s = {} <=> n = 0
    BY <1>4
  <2> QED BY <2>1, <2>2
<1>8. batch'[w] = got /\ \A v \in Workers : v # w => batch'[v] = batch[v] /\ pc'[v] = pc[v]
  BY <1>1 DEF IInv, TypeOK
<1>9. /\ rows' = rows /\ draft' = draft /\ canceled' = canceled /\ published' = published
      /\ failures' = failures /\ disruptions' = disruptions
  BY DEF Poll, history
<1>10. TypeOK'
  <2>1. batch' \in [Workers -> Seq(Job)]
    <3> HIDE DEF got
    <3>1. batch' = [batch EXCEPT ![w] = got]
      BY <1>1 DEF got
    <3> QED BY <1>6, <3>1 DEF IInv, TypeOK
  <2>2. pc' \in [Workers -> {"idle", "working", "published", "stopped"}]
    BY <1>1 DEF IInv, TypeOK
  <2> QED BY <1>9, <2>1, <2>2 DEF IInv, TypeOK
<1>11. VersionCountsOutcomes' /\ AttemptsWereRefused' /\ SucceededWasPublished'
  BY <1>9 DEF IInv, VersionCountsOutcomes, AttemptsWereRefused, SucceededWasPublished
<1>12. CopiesAgree'
  <2> SUFFICES ASSUME NEW v \in Workers
               PROVE  /\ \A i \in DOMAIN batch'[v] : HeldCopy(v, i)'
                      /\ pc'[v] \in {"working", "published"} <=> batch'[v] # <<>>
                      /\ pc'[v] = "published" => HeldDraft(v)'
    BY DEF CopiesAgree
  <2>1. CASE v # w
    BY <1>8, <1>9, <2>1 DEF IInv, CopiesAgree, HeldCopy, HeldDraft
  <2>2. CASE v = w
    <3>1. pc'[w] = IF DOMAIN s = {} THEN "idle" ELSE "working"
      BY <1>1 DEF IInv, TypeOK
    <3>2. \A i \in DOMAIN batch'[w] : HeldCopy(w, i)'
      <4> SUFFICES ASSUME NEW i \in DOMAIN batch'[w] PROVE HeldCopy(w, i)'
        OBVIOUS
      <4> DEFINE j == s[i]
      <4>1. i \in 1..n /\ batch'[w][i] = rows[j] /\ j \in Eligible /\ j \in Jobs
        BY <1>2, <1>5, <1>6, <1>8
      <4>2. rows[j] \in Job /\ rows[j].status \in Open /\ rows[j].id = j /\ Consistent(rows[j])
            /\ rows[j].attempts <= failures[j]
        BY <1>2, <4>1 DEF IInv, VersionCountsOutcomes, AttemptsWereRefused
      <4>3. Agrees(rows[j], rows[j], failures[j])
        BY <4>2 DEF Agrees, Job, Open
      <4> QED BY <1>9, <4>1, <4>2, <4>3 DEF HeldCopy
    <3> QED BY <1>7, <1>8, <2>2, <3>1, <3>2
  <2> QED BY <2>1, <2>2
<1> QED BY <1>10, <1>11, <1>12 DEF IInv

\* Moving on drops the head of the batch and nothing else.
LEMMA AdvanceFacts ==
  ASSUME TypeOK, NEW w \in Workers, batch[w] # <<>>, Advance(w)
  PROVE  /\ batch' \in [Workers -> Seq(Job)]
         /\ pc' \in [Workers -> {"idle", "working", "published", "stopped"}]
         /\ \A v \in Workers : v # w => batch'[v] = batch[v] /\ pc'[v] = pc[v]
         /\ \A i \in DOMAIN batch'[w] : i + 1 \in DOMAIN batch[w] /\ batch'[w][i] = batch[w][i + 1]
         /\ pc'[w] # "published"
         /\ pc'[w] \in {"working", "published"} <=> batch'[w] # <<>>
<1> DEFINE rest == Tail(batch[w])
<1>1. batch[w] \in Seq(Job)
  BY DEF TypeOK
<1>2. rest \in Seq(Job) /\ \A i \in DOMAIN rest : i + 1 \in DOMAIN batch[w] /\ rest[i] = batch[w][i + 1]
  BY <1>1, TailFacts
<1>3. /\ batch' = [batch EXCEPT ![w] = rest]
      /\ pc' = [pc EXCEPT ![w] = IF rest = <<>> THEN "idle" ELSE "working"]
  BY DEF Advance
<1> HIDE DEF rest
<1>4. batch' \in [Workers -> Seq(Job)] /\ batch'[w] = rest
  BY <1>2, <1>3 DEF TypeOK
<1>5. /\ pc' \in [Workers -> {"idle", "working", "published", "stopped"}]
      /\ pc'[w] = IF rest = <<>> THEN "idle" ELSE "working"
  BY <1>3 DEF TypeOK
<1>6. \A v \in Workers : v # w => batch'[v] = batch[v] /\ pc'[v] = pc[v]
  BY <1>3 DEF TypeOK
<1> QED BY <1>2, <1>4, <1>5, <1>6

\* A step that leaves the table, the batches and the drafts of the others alone
\* leaves their copies and drafts in agreement.
LEMMA OthersCarryOver ==
  ASSUME TypeOK, TypeOK', RowsAdvance, HistoryGrows, CopiesAgree, NEW v \in Workers,
         batch'[v] = batch[v], pc'[v] = pc[v], draft'[v] = draft[v], canceled'[v] = canceled[v]
  PROVE  /\ \A i \in DOMAIN batch'[v] : HeldCopy(v, i)'
         /\ pc'[v] \in {"working", "published"} <=> batch'[v] # <<>>
         /\ pc'[v] = "published" => HeldDraft(v)'
<1>1. \A i \in DOMAIN batch'[v] : HeldCopy(v, i)'
  BY CopiesCarryOver DEF Same
<1>2. pc'[v] \in {"working", "published"} <=> batch'[v] # <<>>
  BY DEF CopiesAgree
<1>3. ASSUME pc'[v] = "published" PROVE HeldDraft(v)'
  <2>1. pc[v] = "published" /\ batch'[v] # <<>> /\ Len(draft'[v]) = 1
    BY <1>2, <1>3 DEF CopiesAgree, HeldDraft
  <2> QED BY <2>1, DraftCarriesOver DEF Same
<1> QED BY <1>1, <1>2, <1>3

\* A job that is not due is dropped from the batch.
LEMMA SkipInv ==
  ASSUME IInv, NEW w \in Workers, Skip(w)
  PROVE  IInv'
<1>1. batch[w] # <<>> /\ Advance(w)
  BY DEF Skip, IInv, CopiesAgree
<1>2. /\ batch' \in [Workers -> Seq(Job)]
      /\ pc' \in [Workers -> {"idle", "working", "published", "stopped"}]
      /\ \A v \in Workers : v # w => batch'[v] = batch[v] /\ pc'[v] = pc[v]
      /\ \A i \in DOMAIN batch'[w] : i + 1 \in DOMAIN batch[w] /\ batch'[w][i] = batch[w][i + 1]
      /\ pc'[w] # "published"
      /\ pc'[w] \in {"working", "published"} <=> batch'[w] # <<>>
  BY <1>1, AdvanceFacts DEF IInv
<1>3. /\ rows' = rows /\ draft' = draft /\ canceled' = canceled
      /\ published' = published /\ failures' = failures /\ disruptions' = disruptions
  BY DEF Skip, history
<1>4. TypeOK'
  BY <1>2, <1>3 DEF IInv, TypeOK
<1>5. VersionCountsOutcomes' /\ AttemptsWereRefused' /\ SucceededWasPublished'
  BY <1>3 DEF IInv, VersionCountsOutcomes, AttemptsWereRefused, SucceededWasPublished
<1>6. RowsAdvance /\ HistoryGrows
  BY <1>3, BoundsAssumption DEF RowsAdvance, HistoryGrows, IInv, TypeOK
<1>7. CopiesAgree'
  <2>1. \A i \in DOMAIN batch'[w] : HeldCopy(w, i)'
    BY <1>2, <1>4, <1>6, CopiesCarryOver DEF IInv, Same
  <2>2. ASSUME NEW v \in Workers, v # w
        PROVE  /\ \A i \in DOMAIN batch'[v] : HeldCopy(v, i)'
               /\ pc'[v] \in {"working", "published"} <=> batch'[v] # <<>>
               /\ pc'[v] = "published" => HeldDraft(v)'
    BY <1>2, <1>3, <1>4, <1>6, <2>2, OthersCarryOver DEF IInv
  <2> QED BY <1>2, <2>1, <2>2 DEF CopiesAgree
<1> QED BY <1>4, <1>5, <1>7 DEF IInv

\* A delivery makes a draft that follows its copy.
LEMMA PublishInv ==
  ASSUME IInv, NEW w \in Workers, NEW outcome, Publish(w, outcome)
  PROVE  IInv'
<1> DEFINE job == Head(batch[w])
<1>1. /\ pc[w] = "working" /\ outcome \in Answers(w)
      /\ draft' = [draft EXCEPT ![w] = <<Result(job, outcome)>>]
      /\ pc' = [pc EXCEPT ![w] = "published"]
      /\ published' = IF outcome = "ok" THEN [published EXCEPT ![job.id] = Bump(@)] ELSE published
      /\ failures' = IF outcome = "error" THEN [failures EXCEPT ![job.id] = Bump(@)] ELSE failures
      /\ rows' = rows /\ batch' = batch /\ canceled' = canceled /\ disruptions' = disruptions
  BY DEF Publish
<1>2. batch[w] # <<>> /\ batch[w] \in Seq(Job)
  BY <1>1 DEF IInv, CopiesAgree, TypeOK
<1>3. job \in Job /\ job = batch[w][1] /\ 1 \in DOMAIN batch[w] /\ job.id \in Jobs
  BY <1>2, TailFacts DEF Job
<1>4. Agrees(job, rows[job.id], failures[job.id])
  BY <1>3 DEF IInv, CopiesAgree, HeldCopy
<1> HIDE DEF job
<1>5. job.attempts \in 0..(MaxAttempts - 1) /\ job.attempts <= failures[job.id]
  BY <1>3, <1>4, AgreesAttempts
<1>6. /\ published[job.id] \in 0..HistoryCap /\ failures[job.id] \in 0..HistoryCap
      /\ published' \in [Jobs -> 0..HistoryCap] /\ failures' \in [Jobs -> 0..HistoryCap]
      /\ outcome = "ok" => published'[job.id] = Bump(published[job.id])
      /\ outcome = "error" => failures'[job.id] = Bump(failures[job.id])
      /\ HistoryGrows
  <2>1. published \in [Jobs -> 0..HistoryCap] /\ failures \in [Jobs -> 0..HistoryCap]
    BY DEF IInv, TypeOK
  <2>2. \A n \in 0..HistoryCap : Bump(n) \in 0..HistoryCap /\ n <= Bump(n)
    BY BumpFacts
  <2> QED BY <1>1, <1>3, <2>1, <2>2 DEF HistoryGrows
<1>7. /\ outcome = "ok" => published'[job.id] > 0
      /\ outcome = "error" => job.attempts + 1 <= failures'[job.id]
      /\ job.attempts <= failures'[job.id]
  <2>1. HistoryCap \in Nat /\ HistoryCap >= MaxAttempts /\ MaxAttempts \in Nat \ {0}
    BY BoundsAssumption
  <2>2. outcome = "ok" => published'[job.id] > 0
    BY <1>6, <2>1 DEF Bump
  <2>3. outcome = "error" => job.attempts + 1 <= failures'[job.id]
    BY <1>5, <1>6, <2>1 DEF Bump
  <2> QED BY <1>3, <1>5, <1>6, <2>2, <2>3, BoundsAssumption DEF HistoryGrows
<1>8. outcome \notin {"ok", "error"} => canceled[w]
  BY <1>1, OutcomesAssumption DEF Answers
<1>9. /\ Result(job, outcome) \in Job
      /\ Follows(Result(job, outcome), job, published'[job.id], failures'[job.id], canceled[w])
  <2>1. published'[job.id] \in Nat /\ failures'[job.id] \in Nat
    BY <1>3, <1>6, BoundsAssumption
  <2> QED BY <1>3, <1>7, <1>8, <2>1, ResultFollows
<1> DEFINE d == Result(job, outcome)
<1>10. TypeOK'
  <2>1. draft' \in [Workers -> Seq(Job)]
    <3> HIDE DEF d
    <3>1. d \in Job /\ draft' = [draft EXCEPT ![w] = <<d>>]
      BY <1>1, <1>9 DEF d
    <3>2. <<d>> \in Seq(Job)
      BY <3>1
    <3> QED BY <3>1, <3>2 DEF IInv, TypeOK
  <2>2. pc' \in [Workers -> {"idle", "working", "published", "stopped"}]
    BY <1>1 DEF IInv, TypeOK
  <2> QED BY <1>1, <1>6, <2>1, <2>2 DEF IInv, TypeOK
<1>11. RowsAdvance
  BY <1>1 DEF RowsAdvance
<1>12. VersionCountsOutcomes' /\ AttemptsWereRefused' /\ SucceededWasPublished'
  <2>1. \A j \in Jobs : /\ published[j] \in Nat /\ published'[j] \in Nat
                       /\ failures[j] \in Nat /\ failures'[j] \in Nat
                       /\ rows[j].attempts \in Nat
    <3>1. 0..HistoryCap \subseteq Nat
      BY BoundsAssumption
    <3>2. \A j \in Jobs : rows[j].attempts \in Nat
      BY DEF IInv, TypeOK, Job
    <3> QED BY <1>6, <3>1, <3>2 DEF IInv, TypeOK
  <2>2. \A j \in Jobs : published[j] <= published'[j] /\ failures[j] <= failures'[j]
    BY <1>6 DEF HistoryGrows
  <2>3. VersionCountsOutcomes'
    BY <1>1 DEF IInv, VersionCountsOutcomes
  <2>4. AttemptsWereRefused'
    BY <1>1, <2>1, <2>2 DEF IInv, AttemptsWereRefused
  <2>5. SucceededWasPublished'
    BY <1>1, <2>1, <2>2 DEF IInv, SucceededWasPublished
  <2> QED BY <2>3, <2>4, <2>5
<1>13. CopiesAgree'
  <2>1. ASSUME NEW v \in Workers, v # w
        PROVE  /\ \A i \in DOMAIN batch'[v] : HeldCopy(v, i)'
               /\ pc'[v] \in {"working", "published"} <=> batch'[v] # <<>>
               /\ pc'[v] = "published" => HeldDraft(v)'
    <3>1. batch'[v] = batch[v] /\ pc'[v] = pc[v] /\ draft'[v] = draft[v] /\ canceled'[v] = canceled[v]
      BY <1>1, <2>1 DEF IInv, TypeOK
    <3> QED BY <1>6, <1>10, <1>11, <3>1, OthersCarryOver DEF IInv
  <2>2. \A i \in DOMAIN batch'[w] : HeldCopy(w, i)'
    BY <1>1, <1>6, <1>10, <1>11, CopiesCarryOver DEF IInv, Same
  <2>3. pc'[w] = "published" /\ batch'[w] # <<>>
    BY <1>1, <1>2 DEF IInv, TypeOK
  <2>4. HeldDraft(w)'
    <3>1. draft'[w] = <<d>>
      BY <1>1 DEF IInv, TypeOK
    <3>2. Len(draft'[w]) = 1 /\ draft'[w][1] = d
      <4> HIDE DEF d
      <4> QED BY <3>1
    <3>3. Head(batch'[w]) = job
      BY <1>1 DEF job
    <3> QED BY <1>1, <1>9, <3>2, <3>3 DEF HeldDraft
  <2> QED BY <2>1, <2>2, <2>3, <2>4 DEF CopiesAgree
<1> QED BY <1>10, <1>12, <1>13 DEF IInv

\* What a write-back changes: the row follows the copy it was made from, or the
\* table stays as it is.
LEMMA RecordEffect ==
  ASSUME IInv, NEW w \in Workers, Record(w)
  PROVE  LET job == Head(batch[w])
             new == draft[w][1]
         IN /\ job.id \in Jobs /\ new \in Job /\ new.id = job.id
            /\ batch[w] # <<>>
            /\ \/ rows' = rows
               \/ /\ rows' = [rows EXCEPT ![job.id] = new]
                  /\ rows[job.id].status \in Open
                  /\ rows[job.id].attempts \in 0..(MaxAttempts - 1)
                  /\ new.version = rows[job.id].version + 1
                  /\ new.status # "absent"
                  /\ Consistent(new)
                  /\ new.attempts <= failures[job.id]
                  /\ \/ /\ new.status = "succeeded"
                        /\ new.attempts = rows[job.id].attempts
                        /\ published[job.id] > 0
                     \/ /\ new.status = IF new.attempts >= MaxAttempts
                                        THEN "permanent_failure" ELSE "retry"
                        /\ new.attempts = rows[job.id].attempts + 1
<1> DEFINE job == Head(batch[w])
           new == draft[w][1]
<1>1. pc[w] = "published" /\ batch[w] # <<>> /\ batch[w] \in Seq(Job) /\ draft[w] \in Seq(Job)
  BY DEF Record, IInv, CopiesAgree, TypeOK
<1>2. job \in Job /\ job.id \in Jobs /\ job = batch[w][1] /\ 1 \in DOMAIN batch[w]
  BY <1>1, TailFacts DEF Job
<1>3. Len(draft[w]) = 1 /\ Follows(new, job, published[job.id], failures[job.id], canceled[w])
  BY <1>1 DEF IInv, CopiesAgree, HeldDraft
<1>4. new \in Job
  <2>1. 1 \in 1..Len(draft[w])
    BY <1>3
  <2> QED BY <1>1, <2>1, ElementOfSeq
<1>5. rows' = IF Accepts(w, job) THEN [rows EXCEPT ![job.id] = new] ELSE rows
  BY DEF Record
<1>6. Agrees(job, rows[job.id], failures[job.id])
  BY <1>2 DEF IInv, CopiesAgree, HeldCopy
<1>7. published[job.id] \in Nat /\ failures[job.id] \in Nat /\ rows[job.id] \in Job
  <2>1. 0..HistoryCap \subseteq Nat
    BY BoundsAssumption
  <2> QED BY <1>2, <2>1 DEF IInv, TypeOK
<1> HIDE DEF job, new
<1>8. Consistent(new) /\ new.status \notin {"absent", "pending"}
  BY <1>2, <1>3, <1>4, <1>6, <1>7, FollowsConsistent DEF Agrees
<1>9. new.id = job.id
  BY <1>3 DEF Follows
<1>10. ASSUME Accepts(w, job)
       PROVE  /\ rows' = [rows EXCEPT ![job.id] = new]
              /\ rows[job.id].status \in Open
              /\ rows[job.id].attempts \in 0..(MaxAttempts - 1)
              /\ new.version = rows[job.id].version + 1
              /\ new.attempts <= failures[job.id]
              /\ \/ /\ new.status = "succeeded"
                    /\ new.attempts = rows[job.id].attempts
                    /\ published[job.id] > 0
                 \/ /\ new.status = IF new.attempts >= MaxAttempts
                                    THEN "permanent_failure" ELSE "retry"
                    /\ new.attempts = rows[job.id].attempts + 1
  <2>1. ~canceled[w] /\ rows[job.id].version = job.version
    BY <1>10 DEF Accepts
  <2>2. job.status \in Open /\ rows[job.id].status = job.status /\ rows[job.id].attempts = job.attempts
    BY <1>6, <2>1 DEF Agrees
  <2>3. job.attempts \in 0..(MaxAttempts - 1) /\ job.attempts <= failures[job.id]
    BY <1>2, <1>6, AgreesAttempts
  <2>4. \/ /\ new.status = "succeeded" /\ new.attempts = job.attempts /\ published[job.id] > 0
        \/ /\ new.status = IF new.attempts >= MaxAttempts THEN "permanent_failure" ELSE "retry"
           /\ new.attempts = job.attempts + 1 /\ new.attempts <= failures[job.id]
    BY <1>3, <2>1 DEF Follows
  <2>5. new.version = job.version + 1
    BY <1>3 DEF Follows
  <2>6. rows' = [rows EXCEPT ![job.id] = new]
    BY <1>5, <1>10
  <2>7. new.attempts <= failures[job.id]
    BY <2>3, <2>4
  <2> QED BY <2>1, <2>2, <2>3, <2>4, <2>5, <2>6, <2>7
<1>11. ~Accepts(w, job) => rows' = rows
  BY <1>5
<1>12. Accepts(w, job) \/ ~Accepts(w, job)
  OBVIOUS
<1> USE DEF job, new
<1> QED BY <1>1, <1>2, <1>4, <1>8, <1>9, <1>10, <1>11, <1>12

\* The write-back stores the next version of the row or leaves the table alone.
LEMMA RecordInv ==
  ASSUME IInv, NEW w \in Workers, Record(w)
  PROVE  IInv'
<1> DEFINE j == Head(batch[w]).id
           new == draft[w][1]
<1>1. /\ j \in Jobs /\ new \in Job /\ new.id = j /\ batch[w] # <<>>
      /\ \/ rows' = rows
         \/ /\ rows' = [rows EXCEPT ![j] = new]
            /\ rows[j].status \in Open
            /\ new.version = rows[j].version + 1
            /\ new.status # "absent"
            /\ Consistent(new)
            /\ new.attempts <= failures[j]
            /\ new.status = "succeeded" => published[j] > 0
  BY RecordEffect, BoundsAssumption
<1>2. /\ draft' = [draft EXCEPT ![w] = <<>>]
      /\ Advance(w)
      /\ canceled' = canceled /\ published' = published /\ failures' = failures /\ disruptions' = disruptions
  BY DEF Record, history
<1> HIDE DEF j, new
<1>3. /\ batch' \in [Workers -> Seq(Job)]
      /\ pc' \in [Workers -> {"idle", "working", "published", "stopped"}]
      /\ \A v \in Workers : v # w => batch'[v] = batch[v] /\ pc'[v] = pc[v]
      /\ \A i \in DOMAIN batch'[w] : i + 1 \in DOMAIN batch[w] /\ batch'[w][i] = batch[w][i + 1]
      /\ pc'[w] # "published"
      /\ pc'[w] \in {"working", "published"} <=> batch'[w] # <<>>
  BY <1>1, <1>2, AdvanceFacts DEF IInv
<1>4. rows \in [Jobs -> Job] /\ rows' \in [Jobs -> Job] /\ \A k \in Jobs : k # j => rows'[k] = rows[k]
  BY <1>1 DEF IInv, TypeOK
<1>5. TypeOK'
  <2>1. draft' \in [Workers -> Seq(Job)]
    BY <1>2, EmptySeq DEF IInv, TypeOK
  <2> QED BY <1>2, <1>3, <1>4, <2>1 DEF IInv, TypeOK
<1>6. VersionCountsOutcomes' /\ AttemptsWereRefused' /\ SucceededWasPublished' /\ RowsAdvance
  <2>1. CASE rows' = rows
    BY <2>1, <1>2 DEF IInv, VersionCountsOutcomes, AttemptsWereRefused, SucceededWasPublished, RowsAdvance
  <2>2. CASE rows' # rows
    <3>1. /\ rows'[j] = new
          /\ new.version > rows[j].version
          /\ new.status # "absent" /\ Consistent(new) /\ new.attempts <= failures[j]
          /\ new.status = "succeeded" => published[j] > 0
      BY <1>1, <1>4, <2>2 DEF Job
    <3>2. VersionCountsOutcomes'
      BY <1>1, <1>4, <3>1 DEF IInv, VersionCountsOutcomes
    <3>3. AttemptsWereRefused' /\ SucceededWasPublished'
      BY <1>2, <1>4, <3>1 DEF IInv, AttemptsWereRefused, SucceededWasPublished
    <3>4. RowsAdvance
      BY <1>4, <3>1 DEF RowsAdvance
    <3> QED BY <3>2, <3>3, <3>4
  <2> QED BY <2>1, <2>2
<1>7. HistoryGrows
  <2>1. 0..HistoryCap \subseteq Nat
    BY BoundsAssumption
  <2> QED BY <1>2, <2>1 DEF HistoryGrows, IInv, TypeOK
<1>8. CopiesAgree'
  <2>1. ASSUME NEW v \in Workers, v # w
        PROVE  /\ \A i \in DOMAIN batch'[v] : HeldCopy(v, i)'
               /\ pc'[v] \in {"working", "published"} <=> batch'[v] # <<>>
               /\ pc'[v] = "published" => HeldDraft(v)'
    <3>1. draft'[v] = draft[v]
      BY <1>2, <2>1 DEF IInv, TypeOK
    <3> QED BY <1>2, <1>3, <1>5, <1>6, <1>7, <2>1, <3>1, OthersCarryOver DEF IInv
  <2>2. \A i \in DOMAIN batch'[w] : HeldCopy(w, i)'
    BY <1>3, <1>5, <1>6, <1>7, CopiesCarryOver DEF IInv, Same
  <2> QED BY <1>3, <2>1, <2>2 DEF CopiesAgree
<1> QED BY <1>5, <1>6, <1>8 DEF IInv

\* The other steps of a worker leave the table and the histories alone: they only
\* drop copies, change where a worker stands or whether its context is done.
LEMMA QuietInv ==
  ASSUME IInv, NEW w \in Workers,
         \/ RecordFails(w) \/ Signal(w) \/ Stop(w) \/ Crash(w) \/ Restart(w)
  PROVE  IInv'
<1>1. rows' = rows /\ published' = published /\ failures' = failures
  BY DEF RecordFails, Signal, Stop, Crash, Restart, history
<1>2. disruptions' \in 0..MaxDisruptions
  BY BoundsAssumption DEF IInv, TypeOK, RecordFails, Signal, Stop, Crash, Restart, Disrupt
<1>3. batch[w] \in Seq(Job) /\ <<>> \in Seq(Job) /\ \A i \in DOMAIN <<>> : FALSE
  BY EmptySeq DEF IInv, TypeOK
<1>4. /\ draft' \in [Workers -> Seq(Job)] /\ canceled' \in [Workers -> BOOLEAN]
      /\ \A v \in Workers : v # w => draft'[v] = draft[v] /\ canceled'[v] = canceled[v]
  BY <1>3 DEF IInv, TypeOK, RecordFails, Signal, Stop, Crash, Restart
<1>5. /\ batch' \in [Workers -> Seq(Job)]
      /\ pc' \in [Workers -> {"idle", "working", "published", "stopped"}]
      /\ \A v \in Workers : v # w => batch'[v] = batch[v] /\ pc'[v] = pc[v]
      /\ \A i \in DOMAIN batch'[w] : \E k \in DOMAIN batch[w] : batch'[w][i] = batch[w][k]
      /\ pc'[w] \in {"working", "published"} <=> batch'[w] # <<>>
      /\ pc'[w] = "published" => /\ pc[w] = "published" /\ batch'[w] = batch[w]
                               /\ draft'[w] = draft[w]
  <2>1. CASE RecordFails(w)
    <3>1. batch[w] # <<>> /\ Advance(w)
      BY <2>1 DEF RecordFails, IInv, CopiesAgree
    <3> QED BY <3>1, AdvanceFacts DEF IInv
  <2>2. CASE Signal(w)
    BY <2>2 DEF Signal, IInv, TypeOK, CopiesAgree
  <2>3. CASE Stop(w)
    BY <2>3 DEF Stop, IInv, TypeOK, CopiesAgree
  <2>4. CASE Crash(w)
    BY <1>3, <2>4 DEF Crash, IInv, TypeOK, CopiesAgree
  <2>5. CASE Restart(w)
    BY <2>5 DEF Restart, IInv, TypeOK, CopiesAgree
  <2> QED BY <2>1, <2>2, <2>3, <2>4, <2>5
<1>6. TypeOK'
  BY <1>1, <1>2, <1>4, <1>5 DEF IInv, TypeOK
<1>7. VersionCountsOutcomes' /\ AttemptsWereRefused' /\ SucceededWasPublished'
  BY <1>1 DEF IInv, VersionCountsOutcomes, AttemptsWereRefused, SucceededWasPublished
<1>8. RowsAdvance /\ HistoryGrows
  <2>1. 0..HistoryCap \subseteq Nat
    BY BoundsAssumption
  <2> QED BY <1>1, <2>1 DEF RowsAdvance, HistoryGrows, IInv, TypeOK
<1>9. CopiesAgree'
  <2>1. ASSUME NEW v \in Workers, v # w
        PROVE  /\ \A i \in DOMAIN batch'[v] : HeldCopy(v, i)'
               /\ pc'[v] \in {"working", "published"} <=> batch'[v] # <<>>
               /\ pc'[v] = "published" => HeldDraft(v)'
    BY <1>4, <1>5, <1>6, <1>8, <2>1, OthersCarryOver DEF IInv
  <2>2. \A i \in DOMAIN batch'[w] : HeldCopy(w, i)'
    BY <1>5, <1>6, <1>8, CopiesCarryOver DEF IInv, Same
  <2>3. ASSUME pc'[w] = "published" PROVE HeldDraft(w)'
    <3>1. pc[w] = "published" /\ batch'[w] = batch[w] /\ draft'[w] = draft[w]
      BY <1>5, <2>3
    <3>2. batch[w] # <<>> /\ Len(draft[w]) = 1
      BY <3>1 DEF IInv, CopiesAgree, HeldDraft
    <3>3. canceled[w] => canceled'[w]
      BY <3>1 DEF RecordFails, Signal, Stop, Crash, Restart, IInv, TypeOK
    <3> QED BY <1>6, <1>8, <3>1, <3>2, <3>3, DraftCarriesOver DEF IInv, Same
  <2> QED BY <1>5, <2>1, <2>2, <2>3 DEF CopiesAgree
<1> QED BY <1>6, <1>7, <1>9 DEF IInv

-----------------------------------------------------------------------------
(***************************************************************************)
(* Theorems.                                                               *)
(***************************************************************************)

\* Every step of every interleaving preserves the inductive invariant.
LEMMA NextInv == IInv /\ [Next]_vars => IInv'
<1> SUFFICES ASSUME IInv, [Next]_vars PROVE IInv'
  OBVIOUS
<1>1. CASE \E j \in Jobs : Enqueue(j)
  BY <1>1, EnqueueInv
<1>2. CASE Elapse
  BY <1>2, ElapseInv
<1>3. ASSUME NEW w \in Workers,
             Step(w) \/ RecordFails(w) \/ Signal(w) \/ Crash(w) \/ Restart(w)
      PROVE  IInv'
  <2>1. CASE Poll(w)
    BY <2>1, PollInv
  <2>2. CASE Skip(w)
    BY <2>2, SkipInv
  <2>3. CASE \E outcome \in Outcomes \cup {"canceled"} : Publish(w, outcome)
    BY <2>3, PublishInv
  <2>4. CASE Record(w)
    BY <2>4, RecordInv
  <2>5. CASE RecordFails(w) \/ Signal(w) \/ Stop(w) \/ Crash(w) \/ Restart(w)
    BY <2>5, QuietInv
  <2> QED BY <1>3, <2>1, <2>2, <2>3, <2>4, <2>5 DEF Step
<1>4. CASE UNCHANGED vars
  BY <1>4 DEF vars, IInv, TypeOK, VersionCountsOutcomes, AttemptsWereRefused, SucceededWasPublished,
              CopiesAgree, HeldCopy, HeldDraft
<1> QED BY <1>1, <1>2, <1>3, <1>4 DEF Next

\* The invariant holds in every state of every run.
LEMMA Invariance == Spec => []IInv
<1> QED BY InitInv, NextInv, PTL DEF Spec

\* The table, the copies and the histories stay in their types.
THEOREM TypeCorrect == Spec => []TypeOK
<1>1. IInv => TypeOK
  BY DEF IInv
<1> QED BY <1>1, Invariance, PTL

\* The version of every row counts the outcomes recorded for it (processOne and
\* JobRepository.Update), however many processes poll the table.
THEOREM VersionsCount == Spec => []VersionCountsOutcomes
<1>1. IInv => VersionCountsOutcomes
  BY DEF IInv
<1> QED BY <1>1, Invariance, PTL

\* Copies and drafts in the hands of the workers agree with the table.
THEOREM CopiesAlwaysAgree == Spec => []CopiesAgree
<1>1. IInv => CopiesAgree
  BY DEF IInv
<1> QED BY <1>1, Invariance, PTL

\* No job is recorded as succeeded that the publisher did not accept.
THEOREM NoInventedSuccess == Spec => []SucceededWasPublished
<1>1. IInv => SucceededWasPublished
  BY DEF IInv
<1> QED BY <1>1, Invariance, PTL

\* No job is given up before the publisher refused it MaxAttempts times.
THEOREM NoEarlyGiveUp == Spec => []GivenUpAfterRefusals
<1>1. IInv => GivenUpAfterRefusals
  <2> SUFFICES ASSUME IInv, NEW j \in Jobs, rows[j].status = "permanent_failure"
               PROVE  failures[j] >= MaxAttempts
    BY DEF GivenUpAfterRefusals
  <2>1. Consistent(rows[j]) /\ rows[j].attempts <= failures[j]
    BY DEF IInv, VersionCountsOutcomes, AttemptsWereRefused
  <2>2. rows[j].attempts = MaxAttempts
    BY <2>1 DEF Consistent
  <2>3. failures[j] \in 0..HistoryCap
    BY DEF IInv, TypeOK
  <2> QED BY <2>1, <2>2, <2>3, BoundsAssumption
<1> QED BY <1>1, Invariance, PTL

-----------------------------------------------------------------------------
\* How a step changes the table, as far as anything but ages goes: it leaves it
\* alone, adds a pending row, or stores the next version of one open row.
LEMMA RowSteps ==
  ASSUME IInv, [Next]_vars
  PROVE  \/ \A j \in Jobs : Same(rows'[j], rows[j])
         \/ \E j \in Jobs : Enqueue(j)
         \/ \E w \in Workers : Record(w)
<1>1. CASE Elapse
  <2> SUFFICES ASSUME NEW j \in Jobs PROVE Same(rows'[j], rows[j])
    OBVIOUS
  <2>1. rows[j] \in Job /\ rows'[j] = Older(rows[j])
    BY <1>1 DEF IInv, TypeOK, Elapse
  <2> QED BY <2>1, OlderKeeps DEF Same
<1>2. CASE UNCHANGED rows
  BY <1>2 DEF Same
<1> QED BY <1>1, <1>2 DEF Next, Step, Poll, Skip, Publish, RecordFails, Signal, Stop, Crash, Restart, vars

\* A settled row is never written again.
THEOREM SettledStays == Spec => SettledIsFinal
<1>1. ASSUME IInv, [Next]_vars, NEW j \in Jobs, rows[j].status \in Settled
      PROVE  Same(rows'[j], rows[j])
  <2>1. CASE \E k \in Jobs : Enqueue(k)
    <3>1. PICK k \in Jobs : Enqueue(k)
      BY <2>1
    <3>2. k # j
      BY <1>1, <3>1 DEF Enqueue, Settled
    <3> QED BY <1>1, <3>1, <3>2 DEF Enqueue, IInv, TypeOK, Same
  <2>2. CASE \E w \in Workers : Record(w)
    <3>1. PICK w \in Workers : Record(w)
      BY <2>2
    <3> DEFINE k == Head(batch[w]).id
               new == draft[w][1]
    <3>2. k \in Jobs /\ (rows' = rows \/ (rows' = [rows EXCEPT ![k] = new] /\ rows[k].status \in Open))
      BY <1>1, <3>1, RecordEffect
    <3> HIDE DEF k, new
    <3>3. rows[k].status \in Open => k # j
      BY <1>1 DEF Open, Settled
    <3>4. CASE rows' = rows
      BY <3>4 DEF Same
    <3>5. CASE rows' = [rows EXCEPT ![k] = new] /\ rows[k].status \in Open
      BY <1>1, <3>2, <3>3, <3>5 DEF IInv, TypeOK, Same
    <3> QED BY <3>2, <3>4, <3>5
  <2> QED BY <1>1, <2>1, <2>2, RowSteps
<1>2. IInv /\ [Next]_vars
        => [\A j \in Jobs : rows[j].status \in Settled
             => /\ rows'[j].status = rows[j].status
                /\ rows'[j].version = rows[j].version
                /\ rows'[j].attempts = rows[j].attempts]_rows
  BY <1>1 DEF Same
<1> QED BY <1>2, Invariance, PTL DEF Spec, SettledIsFinal

-----------------------------------------------------------------------------
(***************************************************************************)
(* The worker implements the abstract lifecycle.                           *)
(***************************************************************************)
AbsState  == [j \in Jobs |-> StateOf(rows[j].status)]
AbsMisses == [j \in Jobs |-> rows[j].attempts]
AbsHanded == [j \in Jobs |-> published[j] > 0]

\* Rows that stay the same are the same to the abstract lifecycle.
LEMMA AbsUnchanged ==
  ASSUME \A j \in Jobs : Same(rows'[j], rows[j])
  PROVE  AbsState' = AbsState /\ AbsMisses' = AbsMisses
BY DEF AbsState, AbsMisses, Same

\* The abstract states the stored statuses stand for.
LEMMA StateOfValues ==
  /\ StateOf("absent") = "none"
  /\ \A st \in Open : StateOf(st) = "open"
  /\ StateOf("succeeded") = "settled"
  /\ StateOf("permanent_failure") = "given_up"
BY DEF StateOf, Open

\* The initial states are initial states of the abstract lifecycle.
LEMMA AbsInit == Init => Lifecycle!Init
<1> SUFFICES ASSUME Init PROVE Lifecycle!Init
  OBVIOUS
<1>1. \A j \in Jobs : StateOf(rows[j].status) = "none" /\ rows[j].attempts = 0 /\ ~(published[j] > 0)
  <2>1. \A j \in Jobs : rows[j].status = "absent" /\ rows[j].attempts = 0 /\ published[j] = 0
    BY DEF Init, Absent
  <2> QED BY <2>1, StateOfValues
<1>2. AbsState = [j \in Jobs |-> "none"] /\ AbsMisses = [j \in Jobs |-> 0]
  BY <1>1 DEF AbsState, AbsMisses
<1>3. AbsHanded = [j \in Jobs |-> FALSE]
  <2>1. \A j \in Jobs : (published[j] > 0) = FALSE
    BY <1>1
  <2> QED BY <2>1, Zenon DEF AbsHanded
<1> QED BY <1>2, <1>3 DEF Lifecycle!Init, AbsState, AbsMisses, AbsHanded

\* A committed decision is an Accept.
LEMMA AbsEnqueue ==
  ASSUME IInv, NEW j \in Jobs, Enqueue(j)
  PROVE  Lifecycle!Accept(j)
<1>1. /\ rows \in [Jobs -> Job] /\ rows[j].status = "absent" /\ rows[j].attempts = 0
      /\ rows' = [rows EXCEPT ![j] = NewJob(j)] /\ published' = published
  BY DEF IInv, TypeOK, VersionCountsOutcomes, Consistent, Enqueue, history
<1>2. /\ rows'[j].status = "pending" /\ rows'[j].attempts = 0
      /\ \A k \in Jobs : k # j => rows'[k] = rows[k]
  BY <1>1 DEF NewJob
<1>3. StateOf("absent") = "none" /\ StateOf("pending") = "open"
  BY DEF StateOf, Open
<1>4. AbsState[j] = "none" /\ AbsState' = [AbsState EXCEPT ![j] = "open"]
  BY <1>1, <1>2, <1>3 DEF AbsState
<1>5. AbsMisses' = AbsMisses /\ AbsHanded' = AbsHanded
  BY <1>1, <1>2 DEF AbsMisses, AbsHanded
<1> QED BY <1>4, <1>5 DEF Lifecycle!Accept, AbsState, AbsMisses, AbsHanded

\* A write-back is a Settle, a Miss or a GiveUp, or changes nothing.
LEMMA AbsRecord ==
  ASSUME IInv, NEW w \in Workers, Record(w)
  PROVE  \/ \E j \in Jobs : Lifecycle!Settle(j) \/ Lifecycle!Miss(j) \/ Lifecycle!GiveUp(j)
         \/ UNCHANGED Lifecycle!vars
<1> DEFINE j == Head(batch[w]).id
           new == draft[w][1]
<1>1. /\ j \in Jobs /\ new \in Job
      /\ \/ rows' = rows
         \/ /\ rows' = [rows EXCEPT ![j] = new]
            /\ rows[j].status \in Open
            /\ rows[j].attempts \in 0..(MaxAttempts - 1)
            /\ \/ /\ new.status = "succeeded"
                  /\ new.attempts = rows[j].attempts
                  /\ published[j] > 0
               \/ /\ new.status = IF new.attempts >= MaxAttempts
                                  THEN "permanent_failure" ELSE "retry"
                  /\ new.attempts = rows[j].attempts + 1
  BY RecordEffect
<1> HIDE DEF j, new
<1>2. published' = published /\ AbsHanded' = AbsHanded
  BY DEF Record, history, AbsHanded
<1>3. CASE rows' = rows
  BY <1>2, <1>3 DEF Lifecycle!vars, AbsState, AbsMisses, AbsHanded
<1>4. CASE rows' # rows
  <2>1. rows'[j] = new /\ \A k \in Jobs : k # j => rows'[k] = rows[k]
    BY <1>1, <1>4 DEF IInv, TypeOK
  <2>2. /\ AbsState[j] = "open" /\ AbsMisses[j] = rows[j].attempts
        /\ AbsState' = [AbsState EXCEPT ![j] = StateOf(new.status)]
        /\ AbsMisses' = [AbsMisses EXCEPT ![j] = new.attempts]
    BY <1>1, <1>4, <2>1, StateOfValues DEF AbsState, AbsMisses
  <2>3. /\ StateOf("succeeded") = "settled" /\ StateOf("permanent_failure") = "given_up"
        /\ StateOf("retry") = "open"
    BY StateOfValues DEF Open
  <2>4. CASE new.status = "succeeded" /\ new.attempts = rows[j].attempts /\ published[j] > 0
    <3>1. AbsMisses' = AbsMisses /\ AbsState' = [AbsState EXCEPT ![j] = "settled"]
      BY <2>2, <2>3, <2>4 DEF AbsMisses
    <3>2. AbsHanded[j]
      BY <1>1, <2>4 DEF AbsHanded
    <3> QED BY <1>1, <1>2, <2>2, <3>1, <3>2 DEF Lifecycle!Settle, AbsState, AbsMisses, AbsHanded
  <2>5. CASE /\ new.status = IF new.attempts >= MaxAttempts THEN "permanent_failure" ELSE "retry"
             /\ new.attempts = rows[j].attempts + 1
             /\ rows[j].attempts \in 0..(MaxAttempts - 1)
    <3>1. AbsMisses' = [AbsMisses EXCEPT ![j] = @ + 1]
      BY <1>1, <2>2, <2>5 DEF AbsMisses
    <3>2. CASE new.attempts >= MaxAttempts
      <4>1. AbsMisses[j] + 1 = MaxAttempts
        BY <2>2, <2>5, <3>2, BoundsAssumption
      <4>2. AbsState' = [AbsState EXCEPT ![j] = "given_up"]
        BY <2>2, <2>3, <2>5, <3>2
      <4> QED BY <1>1, <1>2, <2>2, <3>1, <4>1, <4>2 DEF Lifecycle!GiveUp, AbsState, AbsMisses, AbsHanded
    <3>3. CASE ~(new.attempts >= MaxAttempts)
      <4>1. AbsMisses[j] + 1 < MaxAttempts
        BY <2>2, <2>5, <3>3, BoundsAssumption
      <4>2. AbsState' = AbsState
        BY <2>2, <2>3, <2>5, <3>3 DEF AbsState
      <4> QED BY <1>1, <1>2, <2>2, <3>1, <4>1, <4>2 DEF Lifecycle!Miss, AbsState, AbsMisses, AbsHanded
    <3> QED BY <3>2, <3>3
  <2> QED BY <1>1, <1>4, <2>4, <2>5
<1> QED BY <1>1, <1>3, <1>4

\* A delivery is a HandOver of a job that is in the table, or changes nothing.
LEMMA AbsPublish ==
  ASSUME IInv, NEW w \in Workers, NEW outcome, Publish(w, outcome)
  PROVE  (\E j \in Jobs : Lifecycle!HandOver(j)) \/ UNCHANGED Lifecycle!vars
<1> DEFINE j == Head(batch[w]).id
<1>1. batch[w] # <<>> /\ batch[w] \in Seq(Job)
  BY DEF Publish, IInv, CopiesAgree, TypeOK
<1>2. j \in Jobs /\ 1 \in DOMAIN batch[w] /\ j = batch[w][1].id
  BY <1>1, TailFacts DEF Job
<1>3. rows[j].status # "absent" /\ rows[j] \in Job
  BY <1>2 DEF IInv, CopiesAgree, HeldCopy, Agrees, TypeOK
<1>4. /\ rows' = rows
      /\ published' = IF outcome = "ok" THEN [published EXCEPT ![j] = Bump(@)] ELSE published
  BY DEF Publish
<1> HIDE DEF j
<1>5. AbsState' = AbsState /\ AbsMisses' = AbsMisses
  BY <1>4 DEF AbsState, AbsMisses
<1>6. CASE outcome # "ok"
  BY <1>4, <1>5, <1>6 DEF Lifecycle!vars, AbsState, AbsMisses, AbsHanded
<1>7. CASE outcome = "ok"
  <2>1. AbsState[j] # "none"
    BY <1>2, <1>3 DEF AbsState, StateOf, Job, Open, Settled
  <2>2. published \in [Jobs -> 0..HistoryCap] /\ published' = [published EXCEPT ![j] = Bump(published[j])]
    BY <1>4, <1>7 DEF IInv, TypeOK
  <2>3. Bump(published[j]) > 0
    BY <1>2, <2>2, BoundsAssumption DEF Bump
  <2>4. AbsHanded' = [AbsHanded EXCEPT ![j] = TRUE]
    <3>1. \A k \in Jobs : published'[k] = IF k = j THEN Bump(published[j]) ELSE published[k]
      BY <1>2, <2>2
    <3>2. \A k \in Jobs : (published'[k] > 0) = IF k = j THEN TRUE ELSE published[k] > 0
      BY <2>3, <3>1
    <3>3. AbsHanded' = [k \in Jobs |-> IF k = j THEN TRUE ELSE published[k] > 0]
      BY <3>2, Zenon DEF AbsHanded
    <3> QED BY <1>2, <3>3 DEF AbsHanded
  <2> QED BY <1>2, <1>5, <2>1, <2>4 DEF Lifecycle!HandOver, AbsState, AbsMisses, AbsHanded
<1> QED BY <1>6, <1>7

\* Every step of the worker is a step of the abstract lifecycle or leaves it alone.
LEMMA AbsNext ==
  ASSUME IInv, [Next]_vars
  PROVE  [Lifecycle!Next]_(Lifecycle!vars)
<1>1. CASE \E j \in Jobs : Enqueue(j)
  BY <1>1, AbsEnqueue DEF Lifecycle!Next
<1>2. CASE \E w \in Workers : Record(w)
  BY <1>2, AbsRecord DEF Lifecycle!Next
<1>3. CASE \E w \in Workers, outcome \in Outcomes \cup {"canceled"} : Publish(w, outcome)
  BY <1>3, AbsPublish DEF Lifecycle!Next
<1>4. CASE (\A j \in Jobs : Same(rows'[j], rows[j])) /\ published' = published
  BY <1>4, AbsUnchanged DEF Lifecycle!vars, AbsState, AbsMisses, AbsHanded
<1>5. \/ \E j \in Jobs : Enqueue(j)
      \/ \E w \in Workers : Record(w)
      \/ \E w \in Workers, outcome \in Outcomes \cup {"canceled"} : Publish(w, outcome)
      \/ published' = published
  BY DEF Next, Step, Elapse, Poll, Skip, RecordFails, Signal, Stop, Crash, Restart, history, vars
<1> QED BY <1>1, <1>2, <1>3, <1>4, <1>5, RowSteps

\* The worker over the table keeps the promise of the outbox: a notification is
\* settled only after a delivery, given up only after MaxAttempts recorded misses,
\* and never revived.
THEOREM WorkerImplementsLifecycle == Spec => ImplementsLifecycle
<1>1. Init => Lifecycle!Init
  BY AbsInit
<1>2. IInv /\ [Next]_vars => [Lifecycle!Next]_(Lifecycle!vars)
  BY AbsNext
<1> QED BY <1>1, <1>2, Invariance, PTL DEF Spec, ImplementsLifecycle, Lifecycle!Spec
=============================================================================
