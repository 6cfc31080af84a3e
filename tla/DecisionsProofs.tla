-------------------------- MODULE DecisionsProofs --------------------------
(***************************************************************************)
(* Theorems about Decisions, for any requests, request ids and handlers.   *)
(*                                                                         *)
(* A transaction checks an identifier and commits some steps later.  What  *)
(* it checked still holds at the commit because the connection is held by  *)
(* one handler, and only who holds it changes the tables.                  *)
(***************************************************************************)
EXTENDS Decisions, TLAPS

\* Requests are logged under their own request id.
KeysMatch == \A row \in request_log : row.id = KeyOf[row.request]

\* The rows of a decision are in the tables.
Stored(r, audit, job) ==
  /\ [id |-> audit, request |-> r] \in audit_events
  /\ IF r \in Allowed THEN [id |-> job, request |-> r] \in outbox_jobs ELSE job = 0

\* What a handler has checked so far, it still has to rely on.
Checked(c) ==
  /\ c.pc # "idle" => c.request \in Requests
  /\ c.pc = "job" => c.request \in Allowed
  /\ c.pc \in {"begin", "audit", "log", "commit"} /\ c.request \notin Allowed => c.job = 0
  /\ c.pc \in {"job", "log", "commit"} => ~Taken(audit_events, c.audit)
  /\ c.pc \in {"log", "commit"} /\ c.request \in Allowed => ~Taken(outbox_jobs, c.job)
  /\ c.pc = "commit" => ~Taken(request_log, KeyOf[c.request])
  /\ c.pc = "recorded" => Stored(c.request, c.audit, c.job)

HandlersChecked == \A h \in Handlers : Checked(call[h])

\* The inductive invariant.
IInv == TypeOK /\ KeysMatch /\ DecisionsAreWhole /\ RecordedOnce /\ AnswersHold /\ HandlersChecked

Calls == [Handlers -> Call]

\* One handler moves on: the others are where they were.
LEMMA OneMoves ==
  ASSUME call \in Calls, NEW h \in Handlers, NEW c \in Call, call' = [call EXCEPT ![h] = c]
  PROVE  call' \in Calls /\ call'[h] = c /\ \A g \in Handlers : g # h => call'[g] = call[g]
  BY DEF Calls

\* Calls are in the types, and at most one is inside a transaction.
LEMMA TypesOfCalls ==
  ASSUME TypeOK
  PROVE  /\ call \in Calls
         /\ \A h \in Handlers : call[h] \in Call
         /\ \A g, h \in Handlers : call[g].pc \in InTx /\ call[h].pc \in InTx => g = h
  BY DEF TypeOK, Calls

\* Fields of calls.
LEMMA NoCallIsCall == NoCall \in Call /\ NoCall.pc = "idle" /\ NoCall.job = 0 /\ Checked(NoCall)
  BY DEF NoCall, Call, InTx, Checked

\* A step that moves one handler, gives the connection to it when it enters the
\* transaction, frees it when it leaves, and touches no table.
LEMMA MoveKeeps ==
  ASSUME IInv, NEW h \in Handlers, NEW c \in Call, call' = [call EXCEPT ![h] = c],
         UNCHANGED tables,
         up' \in BOOLEAN, next' \in Nat, disruptions' \in 0..MaxDisruptions, replays' \in 0..MaxReplays,
         answers' \subseteq [request : Requests, audit : Nat, job : Nat], AnswersHold',
         conn' = IF c.pc \in InTx THEN h ELSE IF conn = h THEN None ELSE conn,
         c.pc \in InTx => conn \in {h, None},
         Checked(c)
  PROVE  IInv'
<1>1. /\ call' \in Calls /\ call'[h] = c
      /\ \A g \in Handlers : g # h => call'[g] = call[g]
  BY OneMoves, TypesOfCalls DEF IInv
<1>2. UNCHANGED <<audit_events, outbox_jobs, request_log>>
  BY DEF tables
<1>3. TypeOK'
  <2>1. \A g \in Handlers : conn' = g <=> call'[g].pc \in InTx
    <3> TAKE g \in Handlers
    <3>1. conn = g <=> call[g].pc \in InTx
      BY DEF IInv, TypeOK
    <3>2. None \notin Handlers
      BY RequestsAssumption
    <3>3. CASE g = h
      BY <1>1, <3>2, <3>3
    <3>4. CASE g # h
      BY <1>1, <3>1, <3>2, <3>4
    <3> QED
      BY <3>3, <3>4
  <2>2. conn' \in Handlers \cup {None}
    BY DEF IInv, TypeOK
  <2> QED
    BY <1>1, <1>2, <2>1, <2>2 DEF IInv, TypeOK, Calls
<1>4. HandlersChecked'
  <2> SUFFICES ASSUME NEW g \in Handlers PROVE Checked(call[g])'
    BY DEF HandlersChecked
  <2>1. CASE g = h
    BY <1>1, <1>2, <2>1 DEF Checked, Stored, Taken
  <2>2. CASE g # h
    <3>1. call'[g] = call[g] /\ Checked(call[g])
      BY <1>1, <2>2 DEF IInv, HandlersChecked
    <3> QED
      BY <1>2, <3>1 DEF Checked, Stored, Taken
  <2> QED
    BY <2>1, <2>2
<1>5. KeysMatch' /\ DecisionsAreWhole' /\ RecordedOnce'
  BY <1>2 DEF IInv, KeysMatch, DecisionsAreWhole, RequestsIn, RecordedOnce, Unique
<1> QED
  BY <1>3, <1>4, <1>5 DEF IInv

-----------------------------------------------------------------------------
\* The invariant holds when the server starts on an empty database.
LEMMA InitIInv == Init => IInv
<1> SUFFICES ASSUME Init PROVE IInv
  OBVIOUS
<1>1. TypeOK
  <2>1. call \in [Handlers -> Call] /\ \A h \in Handlers : call[h].pc = "idle"
    BY NoCallIsCall DEF Init
  <2>2. None \notin Handlers
    BY RequestsAssumption
  <2> QED
    BY <2>1, <2>2, LimitsAssumption DEF Init, TypeOK, InTx
<1>2. HandlersChecked
  BY NoCallIsCall DEF Init, HandlersChecked
<1> QED
  BY <1>1, <1>2 DEF Init, IInv, KeysMatch, DecisionsAreWhole, RequestsIn, RecordedOnce, Unique, AnswersHold

\* An aborted transaction, or a call that never reached one, fails.
LEMMA AbortKeeps ==
  ASSUME IInv, NEW h \in Handlers, NEW why \in {"audit_id", "job_id", "request_id", "store"},
         Abort(h, why), call[h].pc # "idle",
         UNCHANGED tables, UNCHANGED up, UNCHANGED answers, UNCHANGED replays,
         next' \in Nat, disruptions' \in 0..MaxDisruptions
  PROVE  IInv'
<1> DEFINE c == [call[h] EXCEPT !.pc = "failed", !.cause = why]
<1>1. call[h] \in Call /\ Checked(call[h])
  BY TypesOfCalls DEF IInv, HandlersChecked
<1>2. c \in Call /\ c.pc = "failed" /\ c.request = call[h].request
  BY <1>1 DEF Call
<1>3. call' = [call EXCEPT ![h] = c]
  BY DEF Abort
<1>4. Checked(c)
  BY <1>1, <1>2 DEF Checked
<1>5. conn' = IF c.pc \in InTx THEN h ELSE IF conn = h THEN None ELSE conn
  BY <1>2 DEF Abort, InTx
<1>6. AnswersHold' /\ answers' \subseteq [request : Requests, audit : Nat, job : Nat]
      /\ up' \in BOOLEAN /\ replays' \in 0..MaxReplays
  BY DEF IInv, TypeOK, AnswersHold, tables
<1>7. c.pc \notin InTx
  BY <1>2 DEF InTx
<1> HIDE DEF c
<1> QED
  BY <1>2, <1>3, <1>4, <1>5, <1>6, <1>7, MoveKeeps


\* The record a call is replaced with inside the transaction.
Moved(c, pc, job) ==
  [pc |-> pc, request |-> c.request, audit |-> c.audit, job |-> job, live |-> c.live, cause |-> c.cause]

\* Moving a call on changes its place and its job only.
LEMMA MovedFacts ==
  ASSUME NEW c \in Call, NEW pc \in InTx, NEW job \in Nat
  PROVE  LET d == Moved(c, pc, job)
         IN /\ d \in Call
            /\ d.pc = pc /\ d.job = job /\ d.request = c.request /\ d.audit = c.audit
  BY DEF Call, Moved

-----------------------------------------------------------------------------
\* A rejected request fails at once, any other waits for the connection.
LEMMA ReceiveKeeps == ASSUME IInv, NEW h \in Handlers, NEW r \in Requests, Receive(h, r) PROVE IInv'
<1>1. /\ call[h].pc = "idle" /\ next \in Nat /\ next + 1 \in Nat /\ replays' \in 0..MaxReplays
      /\ disruptions' \in 0..MaxDisruptions /\ up' \in BOOLEAN
      /\ UNCHANGED tables
      /\ conn' = conn
      /\ answers' = answers
  BY LimitsAssumption DEF Receive, IInv, TypeOK
<1>2. conn # h
  BY <1>1 DEF IInv, TypeOK, InTx
<1>3. AnswersHold' /\ answers' \subseteq [request : Requests, audit : Nat, job : Nat]
  BY <1>1 DEF tables, IInv, TypeOK, AnswersHold
<1>4. CASE r \in Rejected
  <2> DEFINE d == [NoCall EXCEPT !.pc = "failed"]
             e == [d EXCEPT !.request = r]
             c == [e EXCEPT !.cause = "rejected"]
  <2>1. call' = [call EXCEPT ![h] = c] /\ next' \in Nat
    BY <1>1, <1>4 DEF Receive
  <2>2. d \in Call /\ d.pc = "failed"
    BY NoCallIsCall DEF Call
  <2> HIDE DEF d
  <2>3. e \in Call /\ e.pc = "failed" /\ e.request = r
    BY <2>2 DEF Call
  <2> HIDE DEF e
  <2>4. c \in Call /\ c.pc = "failed" /\ c.request = r
    BY <2>3 DEF Call
  <2> HIDE DEF c
  <2>5. Checked(c) /\ c.pc \notin InTx
    BY <2>4 DEF Checked, InTx
  <2> QED
    BY <1>1, <1>2, <1>3, <2>1, <2>4, <2>5, MoveKeeps
<1>5. CASE r \notin Rejected
  <2> DEFINE d == [NoCall EXCEPT !.pc = "begin"]
             e == [d EXCEPT !.request = r]
             c == [e EXCEPT !.audit = next + 1]
  <2>1. call' = [call EXCEPT ![h] = c] /\ next' \in Nat
    BY <1>1, <1>5 DEF Receive
  <2>2. d \in Call /\ d.pc = "begin" /\ d.job = 0
    BY NoCallIsCall DEF Call
  <2> HIDE DEF d
  <2>3. e \in Call /\ e.pc = "begin" /\ e.request = r /\ e.job = 0
    BY <2>2 DEF Call
  <2> HIDE DEF e
  <2>4. c \in Call /\ c.pc = "begin" /\ c.request = r /\ c.job = 0
    BY <1>1, <2>3 DEF Call
  <2> HIDE DEF c
  <2>5. Checked(c) /\ c.pc \notin InTx
    BY <2>4 DEF Checked, InTx
  <2> QED
    BY <1>1, <1>2, <1>3, <2>1, <2>4, <2>5, MoveKeeps
<1> QED
  BY <1>4, <1>5

\* What every step of Evaluate before the commit leaves alone.
Untouched == UNCHANGED <<tables, up, history>>

\* Nothing that clients or other handlers see has changed.
LEMMA UntouchedFacts ==
  ASSUME IInv, Untouched
  PROVE  /\ UNCHANGED tables /\ UNCHANGED up /\ UNCHANGED answers /\ UNCHANGED replays
         /\ up' \in BOOLEAN /\ disruptions' \in 0..MaxDisruptions /\ replays' \in 0..MaxReplays
         /\ answers' \subseteq [request : Requests, audit : Nat, job : Nat] /\ AnswersHold'
         /\ next \in Nat
  BY DEF Untouched, history, tables, IInv, TypeOK, AnswersHold

\* A handler that enters its transaction or passes one statement of it.
LEMMA StepInTx ==
  ASSUME IInv, NEW h \in Handlers, NEW pc \in InTx,
         (call[h].pc = "begin" /\ conn = None) \/ call[h].pc \in InTx,
         NEW job \in Nat, call' = [call EXCEPT ![h] = Moved(call[h], pc, job)],
         Checked(Moved(call[h], pc, job)),
         conn' = h, Untouched, next' \in Nat
  PROVE  IInv'
<1> DEFINE c == Moved(call[h], pc, job)
<1>1. c \in Call /\ c.pc = pc
  BY TypesOfCalls, MovedFacts DEF IInv
<1>2. conn \in {h, None}
  BY DEF IInv, TypeOK
<1>3. call' = [call EXCEPT ![h] = c] /\ Checked(c)
  OBVIOUS
<1> HIDE DEF c
<1> QED
  BY <1>1, <1>2, <1>3, UntouchedFacts, MoveKeeps

\* Goto is a move that keeps the job.
LEMMA GotoMoves ==
  ASSUME IInv, NEW h \in Handlers, NEW pc \in InTx, Goto(h, pc)
  PROVE  /\ call[h].job \in Nat
         /\ call' = [call EXCEPT ![h] = Moved(call[h], pc, call[h].job)]
<1>1. call[h] \in Call
  BY TypesOfCalls DEF IInv
<1>2. call[h].job \in Nat
  BY <1>1 DEF Call
<1>3. [call[h] EXCEPT !.pc = pc] = Moved(call[h], pc, call[h].job)
  BY <1>1 DEF Call, Moved
<1>4. call' = [call EXCEPT ![h] = [call[h] EXCEPT !.pc = pc]]
  BY DEF Goto
<1> QED
  BY <1>2, <1>3, <1>4

\* The handler inside the transaction holds the connection.
LEMMA InTxHolds ==
  ASSUME IInv, NEW h \in Handlers, call[h].pc \in InTx PROVE conn = h
  BY DEF IInv, TypeOK

\* A transaction begins.
LEMMA BeginKeeps == ASSUME IInv, NEW h \in Handlers, Begin(h) PROVE IInv'
<1> DEFINE c == Moved(call[h], "audit", call[h].job)
<1>1. /\ call[h].pc = "begin" /\ conn = None /\ conn' = h /\ Goto(h, "audit") /\ Untouched
      /\ "audit" \in InTx /\ next' = next
  BY DEF Begin, At, Untouched, InTx
<1>2. call' = [call EXCEPT ![h] = c] /\ call[h].job \in Nat /\ call[h] \in Call
  BY <1>1, GotoMoves, TypesOfCalls DEF IInv
<1>3. c.pc = "audit" /\ c.job = call[h].job /\ c.request = call[h].request
  BY DEF Moved
<1>4. Checked(call[h])
  BY DEF IInv, HandlersChecked
<1>5. Checked(c)
  BY <1>1, <1>3, <1>4 DEF Checked
<1> QED
  BY <1>1, <1>2, <1>5, StepInTx, UntouchedFacts

\* The audit identifier is free, or the transaction is undone.
LEMMA InsertAuditKeeps == ASSUME IInv, NEW h \in Handlers, InsertAudit(h) PROVE IInv'
<1> DEFINE pc == IF call[h].request \in Allowed THEN "job" ELSE "log"
           c == Moved(call[h], pc, call[h].job)
<1>1. /\ call[h].pc = "audit" /\ Untouched /\ next' = next /\ next' \in Nat /\ pc \in InTx
      /\ call[h].pc \in InTx
  BY DEF InsertAudit, At, Untouched, InTx, IInv, TypeOK
<1>2. CASE Taken(audit_events, call[h].audit)
  <2>1. Abort(h, "audit_id")
    BY <1>2 DEF InsertAudit
  <2> QED
    BY <1>1, <2>1, AbortKeeps, UntouchedFacts
<1>3. CASE ~Taken(audit_events, call[h].audit)
  <2>1. Goto(h, pc) /\ conn' = h
    BY <1>1, <1>3, InTxHolds DEF InsertAudit
  <2>2. call' = [call EXCEPT ![h] = c] /\ call[h].job \in Nat /\ call[h] \in Call /\ Checked(call[h])
    BY <1>1, <2>1, GotoMoves, TypesOfCalls DEF IInv, HandlersChecked
  <2>3. c.pc = pc /\ c.job = call[h].job /\ c.request = call[h].request /\ c.audit = call[h].audit
    BY DEF Moved
  <2>4. Checked(c)
    BY <1>1, <1>3, <2>2, <2>3 DEF Checked
  <2> QED
    BY <1>1, <2>1, <2>2, <2>4, StepInTx
<1> QED
  BY <1>2, <1>3

\* The job identifier is free, or the transaction is undone.
LEMMA InsertJobKeeps == ASSUME IInv, NEW h \in Handlers, InsertJob(h) PROVE IInv'
<1> DEFINE c == Moved(call[h], "log", next + 1)
<1>1. /\ call[h].pc = "job" /\ Untouched /\ next' = next + 1 /\ next + 1 \in Nat /\ "log" \in InTx
      /\ call[h].pc \in InTx /\ call[h] \in Call /\ Checked(call[h])
  BY TypesOfCalls DEF InsertJob, At, Untouched, InTx, IInv, TypeOK, HandlersChecked
<1>2. CASE Taken(outbox_jobs, next + 1)
  <2>1. Abort(h, "job_id")
    BY <1>2 DEF InsertJob
  <2> QED
    BY <1>1, <2>1, AbortKeeps, UntouchedFacts
<1>3. CASE ~Taken(outbox_jobs, next + 1)
  <2>1. c = [call[h] EXCEPT !.pc = "log", !.job = next + 1]
    <3> DEFINE d == [call[h] EXCEPT !.pc = "log"]
    <3>1. d = Moved(call[h], "log", call[h].job)
      BY <1>1 DEF Call, Moved
    <3> HIDE DEF d
    <3>2. [d EXCEPT !.job = next + 1] = c
      BY <3>1 DEF Moved
    <3> QED
      BY <3>2 DEF d
  <2>2. call' = [call EXCEPT ![h] = [call[h] EXCEPT !.pc = "log", !.job = next + 1]] /\ conn' = conn
    BY <1>3 DEF InsertJob
  <2>3. c.pc = "log" /\ c.job = next + 1 /\ c.request = call[h].request /\ c.audit = call[h].audit
    BY DEF Moved
  <2>4. Checked(c)
    BY <1>1, <1>3, <2>3 DEF Checked
  <2>5. call' = [call EXCEPT ![h] = c] /\ conn' = h
    BY <1>1, <2>1, <2>2, InTxHolds
  <2> QED
    BY <1>1, <2>4, <2>5, StepInTx
<1> QED
  BY <1>2, <1>3

\* The request id is free, or the transaction is undone.
LEMMA InsertLogKeeps == ASSUME IInv, NEW h \in Handlers, InsertLog(h) PROVE IInv'
<1> DEFINE c == Moved(call[h], "commit", call[h].job)
<1>1. /\ call[h].pc = "log" /\ Untouched /\ next' = next /\ next' \in Nat /\ "commit" \in InTx
      /\ call[h].pc \in InTx
  BY DEF InsertLog, At, Untouched, InTx, IInv, TypeOK
<1>2. CASE Taken(request_log, KeyOf[call[h].request])
  <2>1. Abort(h, "request_id")
    BY <1>2 DEF InsertLog
  <2> QED
    BY <1>1, <2>1, AbortKeeps, UntouchedFacts
<1>3. CASE ~Taken(request_log, KeyOf[call[h].request])
  <2>1. Goto(h, "commit") /\ conn' = h
    BY <1>1, <1>3, InTxHolds DEF InsertLog
  <2>2. call' = [call EXCEPT ![h] = c] /\ call[h].job \in Nat /\ call[h] \in Call /\ Checked(call[h])
    BY <1>1, <2>1, GotoMoves, TypesOfCalls DEF IInv, HandlersChecked
  <2>3. c.pc = "commit" /\ c.job = call[h].job /\ c.request = call[h].request /\ c.audit = call[h].audit
    BY DEF Moved
  <2>4. Checked(c)
    BY <1>1, <1>3, <2>2, <2>3 DEF Checked
  <2> QED
    BY <1>1, <2>1, <2>2, <2>4, StepInTx
<1> QED
  BY <1>2, <1>3

-----------------------------------------------------------------------------
\* A row under a new identifier, of a request that has none, keeps a table unique.
LEMMA InsertKeepsUnique ==
  ASSUME NEW T, NEW id, NEW r, Unique(T), ~Taken(T, id), r \notin RequestsIn(T)
  PROVE  Unique(T \cup {[id |-> id, request |-> r]})
<1> DEFINE new == [id |-> id, request |-> r]
<1>1. new.id = id /\ new.request = r
  OBVIOUS
<1>2. \A row \in T : row.id # id /\ row.request # r
  BY DEF Taken, RequestsIn
<1> HIDE DEF new
<1>3. Unique(T \cup {new})
  BY <1>1, <1>2 DEF Unique
<1> QED
  BY <1>3 DEF new

\* A row adds its request.
LEMMA InsertAddsRequest ==
  ASSUME NEW T, NEW id, NEW r
  PROVE  RequestsIn(T \cup {[id |-> id, request |-> r]}) = RequestsIn(T) \cup {r}
<1> DEFINE new == [id |-> id, request |-> r]
<1>1. new.request = r
  OBVIOUS
<1> HIDE DEF new
<1>2. RequestsIn(T \cup {new}) = RequestsIn(T) \cup {r}
  BY <1>1 DEF RequestsIn
<1> QED
  BY <1>2 DEF new

\* What a handler knows when it commits.
LEMMA CommitFacts ==
  ASSUME IInv, NEW h \in Handlers, call[h].pc = "commit"
  PROVE  /\ call[h] \in Call /\ call[h].request \in Requests /\ call[h].audit \in Nat /\ call[h].job \in Nat
         /\ KeyOf[call[h].request] \in Keys
         /\ ~Taken(audit_events, call[h].audit)
         /\ call[h].request \in Allowed => ~Taken(outbox_jobs, call[h].job)
         /\ call[h].request \notin Allowed => call[h].job = 0
         /\ ~Taken(request_log, KeyOf[call[h].request])
         /\ call[h].request \notin RequestsIn(request_log)
         /\ call[h].request \notin RequestsIn(audit_events)
         /\ call[h].request \notin RequestsIn(outbox_jobs)
         /\ conn = h
<1>1. call[h] \in Call /\ Checked(call[h]) /\ conn = h
  BY TypesOfCalls, InTxHolds DEF IInv, HandlersChecked, InTx
<1>2. call[h].audit \in Nat /\ call[h].job \in Nat
  BY <1>1 DEF Call
<1>3. /\ call[h].request \in Requests
      /\ ~Taken(audit_events, call[h].audit)
      /\ call[h].request \in Allowed => ~Taken(outbox_jobs, call[h].job)
      /\ call[h].request \notin Allowed => call[h].job = 0
      /\ ~Taken(request_log, KeyOf[call[h].request])
  BY <1>1 DEF Checked
<1>4. call[h].request \notin RequestsIn(request_log)
  BY <1>3 DEF IInv, KeysMatch, Taken, RequestsIn
<1>5. call[h].request \notin RequestsIn(audit_events) /\ call[h].request \notin RequestsIn(outbox_jobs)
  BY <1>4 DEF IInv, DecisionsAreWhole
<1> QED
  BY <1>1, <1>2, <1>3, <1>4, <1>5, RequestsAssumption

\* The rows a commit adds.
AuditRow(c) == [id |-> c.audit, request |-> c.request]
JobRow(c)   == [id |-> c.job, request |-> c.request]
LogRow(c)   == [id |-> KeyOf[c.request], request |-> c.request]

\* What a commit does, with its rows by name.
LEMMA CommitAdds ==
  ASSUME NEW h \in Handlers, Commit(h)
  PROVE  /\ call[h].pc = "commit"
         /\ audit_events' = audit_events \cup {AuditRow(call[h])}
         /\ outbox_jobs' = IF call[h].request \in Allowed THEN outbox_jobs \cup {JobRow(call[h])} ELSE outbox_jobs
         /\ request_log' = request_log \cup {LogRow(call[h])}
         /\ conn' = None
         /\ call' = [call EXCEPT ![h].pc = "recorded"]
         /\ UNCHANGED <<up, next, answers, disruptions, replays>>
  BY DEF Commit, At, Goto, AuditRow, JobRow, LogRow, history

\* A commit adds rows under identifiers that are still free, of a request that has none.
LEMMA CommitKeeps == ASSUME IInv, NEW h \in Handlers, Commit(h) PROVE IInv'
<1> DEFINE r == call[h].request
           d == [call[h] EXCEPT !.pc = "recorded"]
<1>1. /\ call[h].pc = "commit" /\ conn' = None /\ call' = [call EXCEPT ![h] = d]
      /\ UNCHANGED <<up, next, answers, disruptions, replays>>
  BY CommitAdds
<1>2. /\ audit_events' = audit_events \cup {AuditRow(call[h])}
      /\ outbox_jobs' = IF r \in Allowed THEN outbox_jobs \cup {JobRow(call[h])} ELSE outbox_jobs
      /\ request_log' = request_log \cup {LogRow(call[h])}
  BY CommitAdds
<1>3. d \in Call /\ d.pc = "recorded" /\ d.request = r /\ d.audit = call[h].audit /\ d.job = call[h].job
  BY <1>1, CommitFacts DEF Call
<1> HIDE DEF d
<1>4. call' \in Calls /\ call'[h] = d /\ \A g \in Handlers : g # h => call'[g] = call[g]
  BY <1>1, <1>3, OneMoves, TypesOfCalls DEF IInv
<1>5. \A g \in Handlers : call'[g].pc \notin InTx
  <2> TAKE g \in Handlers
  <2>1. call[h].pc \in InTx /\ d.pc \notin InTx
    BY <1>1, <1>3 DEF InTx
  <2> QED
    BY <2>1, <1>4, TypesOfCalls DEF IInv
<1>6. TypeOK'
  <2>1. /\ AuditRow(call[h]) \in Row(Nat) /\ JobRow(call[h]) \in Row(Nat) /\ LogRow(call[h]) \in Row(Keys)
    BY <1>1, CommitFacts DEF Row, AuditRow, JobRow, LogRow
  <2>2. audit_events' \subseteq Row(Nat) /\ outbox_jobs' \subseteq Row(Nat) /\ request_log' \subseteq Row(Keys)
    BY <1>2, <2>1 DEF IInv, TypeOK
  <2>3. \A g \in Handlers : conn' = g <=> call'[g].pc \in InTx
    BY <1>1, <1>5, RequestsAssumption
  <2> QED
    BY <1>1, <1>4, <2>2, <2>3 DEF IInv, TypeOK, Calls
<1>7. KeysMatch'
  BY <1>2 DEF IInv, KeysMatch, LogRow
<1>8. DecisionsAreWhole'
  <2>1. /\ RequestsIn(audit_events)' = RequestsIn(audit_events) \cup {r}
        /\ RequestsIn(request_log)' = RequestsIn(request_log) \cup {r}
    BY <1>2, InsertAddsRequest DEF AuditRow, LogRow, RequestsIn
  <2>2. CASE r \in Allowed
    <3>1. RequestsIn(outbox_jobs)' = RequestsIn(outbox_jobs) \cup {r}
      BY <1>2, <2>2, InsertAddsRequest DEF JobRow, RequestsIn
    <3> QED
      BY <2>1, <2>2, <3>1 DEF IInv, DecisionsAreWhole
  <2>3. CASE r \notin Allowed
    <3>1. RequestsIn(outbox_jobs)' = RequestsIn(outbox_jobs)
      BY <1>2, <2>3 DEF RequestsIn
    <3> QED
      BY <2>1, <2>3, <3>1 DEF IInv, DecisionsAreWhole
  <2> QED
    BY <2>2, <2>3
<1>9. RecordedOnce'
  <2>1. Unique(audit_events \cup {AuditRow(call[h])}) /\ Unique(request_log \cup {LogRow(call[h])})
    BY <1>1, CommitFacts, InsertKeepsUnique DEF IInv, RecordedOnce, AuditRow, LogRow
  <2>2. r \in Allowed => Unique(outbox_jobs \cup {JobRow(call[h])})
    BY <1>1, CommitFacts, InsertKeepsUnique DEF IInv, RecordedOnce, JobRow
  <2>3. Unique(outbox_jobs)
    BY DEF IInv, RecordedOnce
  <2> QED
    BY <1>2, <2>1, <2>2, <2>3 DEF RecordedOnce, Unique
<1>10. audit_events \subseteq audit_events' /\ outbox_jobs \subseteq outbox_jobs'
  BY <1>2
<1>11. AnswersHold'
  <2>1. answers' = answers /\ AnswersHold
    BY <1>1 DEF IInv
  <2> SUFFICES ASSUME NEW a \in answers
               PROVE  Stored(a.request, a.audit, a.job)'
    BY <2>1, Zenon DEF AnswersHold, Stored
  <2>2. [id |-> a.audit, request |-> a.request] \in audit_events
    BY <2>1 DEF AnswersHold
  <2>3. IF a.request \in Allowed THEN [id |-> a.job, request |-> a.request] \in outbox_jobs ELSE a.job = 0
    BY <2>1 DEF AnswersHold
  <2> QED
    BY <1>10, <2>2, <2>3 DEF Stored
<1>12. HandlersChecked'
  <2> SUFFICES ASSUME NEW g \in Handlers PROVE Checked(call[g])'
    BY DEF HandlersChecked
  <2>1. CASE g = h
    <3>1. /\ AuditRow(call[h]) \in audit_events'
          /\ IF r \in Allowed THEN JobRow(call[h]) \in outbox_jobs' ELSE call[h].job = 0
      BY <1>1, <1>2, CommitFacts
    <3>2. /\ call'[h].pc = "recorded" /\ call'[h].request = r /\ r \in Requests
          /\ call'[h].audit = call[h].audit /\ call'[h].job = call[h].job
      BY <1>1, <1>3, <1>4, CommitFacts
    <3>3. Stored(call[h].request, call[h].audit, call[h].job)'
      BY <3>1, <3>2 DEF Stored, AuditRow, JobRow
    <3> QED
      BY <2>1, <3>2, <3>3 DEF Checked
  <2>2. CASE g # h
    <3>1. call'[g] = call[g] /\ Checked(call[g]) /\ call[g].pc \notin InTx
      BY <1>4, <1>5, <2>2 DEF IInv, HandlersChecked
    <3>2. Stored(call[g].request, call[g].audit, call[g].job) => Stored(call[g].request, call[g].audit, call[g].job)'
      BY <1>10, <3>1 DEF Stored
    <3> QED
      BY <3>1, <3>2 DEF Checked, InTx
  <2> QED
    BY <2>1, <2>2
<1> QED
  BY <1>6, <1>7, <1>8, <1>9, <1>11, <1>12 DEF IInv

-----------------------------------------------------------------------------
\* Told answers hold as long as the tables stay.
LEMMA AnswersKept ==
  ASSUME AnswersHold, UNCHANGED tables, UNCHANGED answers PROVE AnswersHold'
<1>1. AnswersHold <=> \A a \in answers : Stored(a.request, a.audit, a.job)
  BY Zenon DEF AnswersHold, Stored
<1>2. AnswersHold' <=> \A a \in answers' : Stored(a.request, a.audit, a.job)'
  BY Zenon DEF AnswersHold, Stored
<1>3. \A a \in answers : Stored(a.request, a.audit, a.job)' <=> Stored(a.request, a.audit, a.job)
  BY DEF Stored, tables
<1> QED
  BY <1>1, <1>2, <1>3

\* Fields of an answer.
LEMMA AnswerFields ==
  ASSUME NEW r \in Requests, NEW audit \in Nat, NEW job \in Nat
  PROVE  LET a == [request |-> r, audit |-> audit, job |-> job]
         IN a \in [request : Requests, audit : Nat, job : Nat] /\ a.request = r /\ a.audit = audit /\ a.job = job
  OBVIOUS

\* The handler tells its client only what Checked says is stored.
LEMMA AnswerKeeps == ASSUME IInv, NEW h \in Handlers, Answer(h) PROVE IInv'
<1> DEFINE a == [request |-> call[h].request, audit |-> call[h].audit, job |-> call[h].job]
<1>1. /\ call[h].pc \in {"recorded", "failed"}
      /\ answers' = answers \/ (answers' = answers \cup {a} /\ call[h].pc = "recorded")
      /\ call' = [call EXCEPT ![h] = NoCall]
      /\ UNCHANGED <<audit_events, outbox_jobs, request_log, up, next, conn, disruptions, replays>>
  BY DEF Answer, tables
<1>2. call[h] \in Call /\ Checked(call[h])
  BY TypesOfCalls DEF IInv, HandlersChecked
<1>3. call[h].audit \in Nat /\ call[h].job \in Nat /\ call[h].request \in Requests
  BY <1>1, <1>2 DEF Call, Checked
<1>4. /\ a \in [request : Requests, audit : Nat, job : Nat]
      /\ a.request = call[h].request /\ a.audit = call[h].audit /\ a.job = call[h].job
  BY <1>3, AnswerFields
<1> HIDE DEF a
<1>5. answers' \subseteq [request : Requests, audit : Nat, job : Nat]
  BY <1>1, <1>4 DEF IInv, TypeOK
<1>6. AnswersHold'
  <2> SUFFICES ASSUME NEW b \in answers' PROVE Stored(b.request, b.audit, b.job)'
    BY Zenon DEF AnswersHold, Stored
  <2>1. CASE b \in answers
    <3>1. Stored(b.request, b.audit, b.job)
      BY <2>1, Zenon DEF IInv, AnswersHold, Stored
    <3> QED
      BY <1>1, <3>1 DEF Stored
  <2>2. CASE b \notin answers
    <3>1. b = a /\ call[h].pc = "recorded"
      BY <1>1, <2>2
    <3>2. Stored(b.request, b.audit, b.job)
      BY <1>2, <1>4, <3>1 DEF Checked
    <3> QED
      BY <1>1, <3>2 DEF Stored
  <2> QED
    BY <2>1, <2>2
<1>7. conn # h /\ NoCall.pc \notin InTx
  BY <1>1, NoCallIsCall DEF IInv, TypeOK, InTx
<1>8. UNCHANGED tables /\ conn' = conn
  BY <1>1 DEF tables
<1>9. up' \in BOOLEAN /\ next' \in Nat /\ disruptions' \in 0..MaxDisruptions /\ replays' \in 0..MaxReplays
  BY <1>1 DEF IInv, TypeOK
<1> QED
  BY <1>1, <1>5, <1>6, <1>7, <1>8, <1>9, NoCallIsCall, MoveKeeps

\* Disruptions are counted up to their bound.
LEMMA DisruptCounts == ASSUME IInv, Disrupt PROVE disruptions' \in 0..MaxDisruptions
  BY LimitsAssumption DEF Disrupt, IInv, TypeOK

\* A client goes away.
LEMMA DisconnectKeeps == ASSUME IInv, NEW h \in Handlers, Disconnect(h) PROVE IInv'
<1> DEFINE c == [call[h] EXCEPT !.live = FALSE]
<1>1. /\ call' = [call EXCEPT ![h] = c]
      /\ UNCHANGED tables
      /\ UNCHANGED <<up, next, conn, answers, replays>>
      /\ Disrupt
  BY DEF Disconnect
<1>2. call[h] \in Call /\ Checked(call[h])
  BY TypesOfCalls DEF IInv, HandlersChecked
<1>3. /\ c \in Call /\ c.pc = call[h].pc /\ c.request = call[h].request
      /\ c.audit = call[h].audit /\ c.job = call[h].job
  BY <1>2 DEF Call
<1> HIDE DEF c
<1>4. Checked(c)
  BY <1>2, <1>3 DEF Checked
<1>5. conn = h <=> c.pc \in InTx
  BY <1>3 DEF IInv, TypeOK
<1>6. /\ up' \in BOOLEAN /\ next' \in Nat /\ replays' \in 0..MaxReplays
      /\ answers' \subseteq [request : Requests, audit : Nat, job : Nat]
  BY <1>1 DEF IInv, TypeOK
<1>7. AnswersHold'
  BY <1>1, AnswersKept DEF IInv
<1>8. UNCHANGED tables /\ conn' = IF c.pc \in InTx THEN h ELSE IF conn = h THEN None ELSE conn
  BY <1>1, <1>5
<1> QED
  BY <1>1, <1>3, <1>4, <1>5, <1>6, <1>7, <1>8, DisruptCounts, MoveKeeps

\* A call whose client went away is undone.
LEMMA InterruptedKeeps == ASSUME IInv, NEW h \in Handlers, Interrupted(h) PROVE IInv'
<1>1. call[h].pc # "idle" /\ Untouched /\ Abort(h, "store") /\ Wasted(h)
  BY DEF Interrupted, Untouched, InTx
<1>2. next' \in Nat
  BY <1>1 DEF Wasted, IInv, TypeOK
<1> QED
  BY <1>1, <1>2, UntouchedFacts, AbortKeeps

\* A call the store refuses is undone.
LEMMA StoreFailsKeeps == ASSUME IInv, NEW h \in Handlers, StoreFails(h) PROVE IInv'
<1>1. /\ call[h].pc # "idle" /\ Abort(h, "store") /\ Wasted(h) /\ Disrupt
      /\ UNCHANGED tables
      /\ UNCHANGED <<up, answers, replays>>
  BY DEF StoreFails, InTx
<1>2. next' \in Nat
  BY <1>1 DEF Wasted, IInv, TypeOK
<1>3. UNCHANGED tables /\ UNCHANGED up /\ UNCHANGED answers /\ UNCHANGED replays
  BY <1>1
<1> QED
  BY <1>1, <1>2, <1>3, DisruptCounts, AbortKeeps

\* A crash and a restart leave the tables, and every call is forgotten.
LEMMA CrashKeeps == ASSUME IInv, Crash PROVE IInv'
<1>1. /\ UNCHANGED <<audit_events, outbox_jobs, request_log, answers, replays>>
      /\ up' = FALSE /\ conn' = None /\ next' = 0 /\ call' = [h \in Handlers |-> NoCall]
  BY DEF Crash, tables
<1>2. \A h \in Handlers : call'[h] = NoCall
  BY <1>1
<1>3. TypeOK'
  <2>1. call' \in [Handlers -> Call]
    BY <1>1, NoCallIsCall
  <2>2. \A h \in Handlers : conn' = h <=> call'[h].pc \in InTx
    BY <1>1, <1>2, NoCallIsCall, RequestsAssumption DEF InTx
  <2>3. disruptions' \in 0..MaxDisruptions
    BY DisruptCounts DEF Crash
  <2> QED
    BY <1>1, <2>1, <2>2, <2>3 DEF IInv, TypeOK
<1>4. HandlersChecked'
  BY <1>2, NoCallIsCall DEF HandlersChecked, Checked
<1> QED
  BY <1>1, <1>3, <1>4 DEF IInv, KeysMatch, DecisionsAreWhole, RequestsIn, RecordedOnce, Unique, AnswersHold

\* A restart, or nothing at all.
LEMMA StandsKeeps == ASSUME IInv, Restart \/ UNCHANGED vars PROVE IInv'
<1>1. UNCHANGED <<audit_events, outbox_jobs, request_log, next, conn, call, answers, disruptions, replays>>
      /\ up' \in BOOLEAN
  BY DEF Restart, vars, tables, history, IInv, TypeOK
<1>2. TypeOK'
  BY <1>1 DEF IInv, TypeOK
<1>3. HandlersChecked'
  BY <1>1 DEF IInv, HandlersChecked, Checked, Taken, Stored
<1> QED
  BY <1>1, <1>2, <1>3 DEF IInv, KeysMatch, DecisionsAreWhole, RequestsIn, RecordedOnce, Unique, AnswersHold

\* Every step keeps the invariant.
LEMMA NextIInv == IInv /\ [Next]_vars => IInv'
<1> SUFFICES ASSUME IInv, [Next]_vars PROVE IInv'
  OBVIOUS
<1>1. CASE \E h \in Handlers, r \in Requests : Receive(h, r)
  BY <1>1, ReceiveKeeps
<1>2. CASE \E h \in Handlers : Begin(h) \/ InsertAudit(h) \/ InsertJob(h) \/ InsertLog(h)
  BY <1>2, BeginKeeps, InsertAuditKeeps, InsertJobKeeps, InsertLogKeeps
<1>3. CASE \E h \in Handlers : Commit(h) \/ Answer(h) \/ Interrupted(h)
  BY <1>3, CommitKeeps, AnswerKeeps, InterruptedKeeps
<1>4. CASE \E h \in Handlers : Disconnect(h) \/ StoreFails(h)
  BY <1>4, DisconnectKeeps, StoreFailsKeeps
<1>5. CASE Crash \/ Restart \/ UNCHANGED vars
  BY <1>5, CrashKeeps, StandsKeeps
<1> QED
  BY <1>1, <1>2, <1>3, <1>4, <1>5 DEF Next, Evaluate

\* The inductive invariant holds in every state of every run.
THEOREM Inductive == Spec => []IInv
  BY InitIInv, NextIInv, PTL DEF Spec

\* The connection belongs to the one handler inside a transaction, and everything
\* keeps its type.
THEOREM TypeCorrect == Spec => []TypeOK
<1>1. IInv => TypeOK
  BY DEF IInv
<1> QED
  BY <1>1, Inductive, PTL

\* The rows of a decision are in the tables together or not at all.
THEOREM DecisionsStayWhole == Spec => []DecisionsAreWhole
<1>1. IInv => DecisionsAreWhole
  BY DEF IInv
<1> QED
  BY <1>1, Inductive, PTL

\* No identifier is given to two rows and no request is recorded twice, for any
\* number of crashes and restarts of the sequence.
THEOREM NothingTwice == Spec => []RecordedOnce
<1>1. IInv => RecordedOnce
  BY DEF IInv
<1> QED
  BY <1>1, Inductive, PTL

\* What a client was told is in the tables and stays there.
THEOREM AnswersStayTrue == Spec => []AnswersHold
<1>1. IInv => AnswersHold
  BY DEF IInv
<1> QED
  BY <1>1, Inductive, PTL

-----------------------------------------------------------------------------
\* A commit is a Record of the abstract log.
LEMMA CommitRecords ==
  ASSUME IInv, NEW h \in Handlers, Commit(h), NEW r \in Requests, r = call[h].request
  PROVE  Log!Record(r)
<1>1. call[h].pc = "commit" /\ answers' = answers
  BY CommitAdds
<1>2. RequestsIn(audit_events)' = RequestsIn(audit_events) \cup {r}
  <2>1. audit_events' = audit_events \cup {AuditRow(call[h])}
    BY CommitAdds
  <2> QED
    BY <2>1, InsertAddsRequest DEF AuditRow, RequestsIn
<1>3. RequestsIn(outbox_jobs)' = IF r \in Allowed THEN RequestsIn(outbox_jobs) \cup {r} ELSE RequestsIn(outbox_jobs)
  <2>1. CASE r \in Allowed
    <3>1. outbox_jobs' = outbox_jobs \cup {JobRow(call[h])}
      BY <2>1, CommitAdds
    <3> QED
      BY <2>1, <3>1, InsertAddsRequest DEF JobRow, RequestsIn
  <2>2. CASE r \notin Allowed
    <3>1. outbox_jobs' = outbox_jobs
      BY <2>2, CommitAdds
    <3> QED
      BY <2>2, <3>1 DEF RequestsIn
  <2> QED
    BY <2>1, <2>2
<1>4. \A q \in RequestsIn(audit_events) : KeyOf[q] # KeyOf[r]
  <2>1. RequestsIn(audit_events) = RequestsIn(request_log)
    BY DEF IInv, DecisionsAreWhole
  <2>2. ~Taken(request_log, KeyOf[r])
    BY <1>1, CommitFacts
  <2>3. \A row \in request_log : KeyOf[row.request] # KeyOf[r]
    BY <2>2 DEF IInv, KeysMatch, Taken
  <2> QED
    BY <2>1, <2>3 DEF RequestsIn
<1>5. UNCHANGED {a.request : a \in answers}
  BY <1>1
<1> QED
  BY <1>2, <1>3, <1>4, <1>5 DEF Log!Record

\* An answer is a Tell of the abstract log, or tells nothing.
LEMMA AnswerTells ==
  ASSUME IInv, NEW h \in Handlers, Answer(h)
  PROVE  (\E r \in Requests : Log!Tell(r)) \/ UNCHANGED Log!vars
<1> DEFINE a == [request |-> call[h].request, audit |-> call[h].audit, job |-> call[h].job]
<1>1. UNCHANGED <<audit_events, outbox_jobs>>
  BY DEF Answer, tables
<1>2. UNCHANGED RequestsIn(audit_events) /\ UNCHANGED RequestsIn(outbox_jobs)
  BY <1>1 DEF RequestsIn
<1>3. CASE call[h].live /\ call[h].pc = "recorded"
  <2>1. answers' = answers \cup {a}
    BY <1>3 DEF Answer
  <2>2. a.request = call[h].request
    OBVIOUS
  <2> HIDE DEF a
  <2>3. {b.request : b \in answers'} = {b.request : b \in answers} \cup {call[h].request}
    BY <2>1, <2>2
  <2>4. Checked(call[h])
    BY DEF IInv, HandlersChecked
  <2>5. call[h].request \in Requests /\ AuditRow(call[h]) \in audit_events
    BY <1>3, <2>4 DEF Checked, Stored, AuditRow
  <2>6. AuditRow(call[h]).request = call[h].request
    BY DEF AuditRow
  <2>7. call[h].request \in RequestsIn(audit_events)
    BY <2>5, <2>6 DEF RequestsIn
  <2>8. PICK r \in Requests : r = call[h].request
    BY <2>5
  <2>9. Log!Tell(r)
    BY <1>2, <2>3, <2>7, <2>8 DEF Log!Tell
  <2> QED
    BY <2>9
<1>4. CASE ~(call[h].live /\ call[h].pc = "recorded")
  <2>1. answers' = answers
    BY <1>4 DEF Answer
  <2> QED
    BY <1>2, <2>1 DEF Log!vars
<1> QED
  BY <1>3, <1>4

\* Every step is a Record, a Tell, or leaves the abstract log alone.
LEMMA LogNext == IInv /\ [Next]_vars => [Log!Next]_(Log!vars)
<1> SUFFICES ASSUME IInv, [Next]_vars PROVE [Log!Next]_(Log!vars)
  OBVIOUS
<1>1. CASE \E h \in Handlers : Commit(h)
  <2>1. PICK h \in Handlers : Commit(h)
    BY <1>1
  <2>2. PICK r \in Requests : r = call[h].request
    BY <2>1, CommitFacts, CommitAdds
  <2>3. Log!Record(r)
    BY <2>1, <2>2, CommitRecords
  <2> QED
    BY <2>3 DEF Log!Next
<1>2. CASE \E h \in Handlers : Answer(h)
  BY <1>2, AnswerTells DEF Log!Next
<1>3. CASE UNCHANGED tables /\ UNCHANGED answers
  BY <1>3 DEF Log!vars, RequestsIn, tables
<1>4. \/ \E h \in Handlers : Commit(h)
      \/ \E h \in Handlers : Answer(h)
      \/ UNCHANGED tables /\ UNCHANGED answers
  <2>1. CASE \E h \in Handlers, r \in Requests : Receive(h, r)
    BY <2>1 DEF Receive
  <2>2. CASE \E h \in Handlers : Begin(h) \/ InsertAudit(h) \/ InsertJob(h) \/ InsertLog(h) \/ Interrupted(h)
    BY <2>2 DEF Begin, InsertAudit, InsertJob, InsertLog, Interrupted, history
  <2>3. CASE \E h \in Handlers : Disconnect(h) \/ StoreFails(h)
    BY <2>3 DEF Disconnect, StoreFails
  <2>4. CASE Crash \/ Restart \/ UNCHANGED vars
    BY <2>4 DEF Crash, Restart, history, vars, tables
  <2> QED
    BY <2>1, <2>2, <2>3, <2>4 DEF Next, Evaluate
<1> QED
  BY <1>1, <1>2, <1>3, <1>4

\* Every step of the handlers is a step of the abstract log of decisions or leaves it
\* alone.
THEOREM HandlersImplementLog == Spec => ImplementsDecisionLog
<1>1. Init => Log!Init
  BY DEF Init, Log!Init, RequestsIn
<1>2. IInv /\ [Next]_vars => [Log!Next]_(Log!vars)
  BY LogNext
<1> QED
  BY <1>1, <1>2, Inductive, PTL DEF Spec, ImplementsDecisionLog, Log!Spec
=============================================================================
