----------------------------- MODULE Decisions -----------------------------
(***************************************************************************)
(* Coordinator.Evaluate of internal/application/coordinator.go, as the     *)
(* concurrent handlers of internal/httpapi/server.go call it: a rule is    *)
(* evaluated, and the decision is recorded in one transaction as an audit  *)
(* event, an outbox job when the rule allows, and a request log entry.     *)
(*                                                                         *)
(* The handlers share one database connection (SetMaxOpenConns(1)) and one *)
(* in-memory sequence of identifiers, which starts again from zero with    *)
(* the process while the tables keep the identifiers it gave before.       *)
(*                                                                         *)
(* A rule is a pure function of the request, so whether a request is       *)
(* rejected, allowed or denied is a fact about it.                         *)
(***************************************************************************)
EXTENDS Naturals, FiniteSets

CONSTANTS
  Requests,        \* the requests of the clients
  Rejected,        \* unknown rule, no actor, or an error of the rule
  Allowed,         \* the rule allows them: they get an outbox job
  Keys,            \* request ids
  KeyOf,           \* the request id of each request
  Handlers,        \* HTTP handlers that may run at once
  None,            \* no handler, no request
  SeedIds,         \* identifiers Bootstrap takes on an empty database (7)
  MaxDisruptions,  \* bound on crashes, disconnects and store errors together
  MaxReplays       \* bound on requests sent again after they were recorded

ASSUME RequestsAssumption ==
  /\ Rejected \subseteq Requests
  /\ Allowed \subseteq Requests \ Rejected
  /\ KeyOf \in [Requests -> Keys]
  /\ None \notin Handlers \cup Requests
ASSUME LimitsAssumption ==
  SeedIds \in Nat /\ MaxDisruptions \in Nat /\ MaxReplays \in Nat

VARIABLES
  audit_events,  \* table: records [id, request]
  outbox_jobs,   \* table: records [id, request]
  request_log,   \* table: records [id, request]; the id is the request id
  up,            \* whether the server process runs
  next,          \* identity.Sequence: the last number given
  conn,          \* the handler whose transaction holds the connection, or None
  call,          \* what each handler is doing
  answers,       \* history: the decisions clients were told
  disruptions,   \* history: crashes, disconnects and store errors so far
  replays        \* history: requests sent again after they were recorded

tables  == <<audit_events, outbox_jobs, request_log>>
history == <<answers, disruptions, replays>>
vars    == <<audit_events, outbox_jobs, request_log, up, next, conn, call, answers, disruptions, replays>>

-----------------------------------------------------------------------------
Row(S) == [id : S, request : Requests]

\* pc: "begin" waits for the connection; "audit", "job", "log" and "commit" are
\* inside the transaction; "recorded" and "failed" have the answer in hand.
InTx    == {"audit", "job", "log", "commit"}
Call    == [pc : {"idle", "begin", "recorded", "failed"} \cup InTx,
            request : Requests \cup {None}, audit : Nat, job : Nat,
            live : BOOLEAN,
            cause : {"none", "rejected", "audit_id", "job_id", "request_id", "store"}]

NoCall == [pc |-> "idle", request |-> None, audit |-> 0, job |-> 0, live |-> TRUE, cause |-> "none"]

Taken(table, id) == \E row \in table : row.id = id

Init ==
  /\ audit_events = {} /\ outbox_jobs = {} /\ request_log = {}
  /\ up = TRUE
  /\ next = SeedIds
  /\ conn = None
  /\ call = [h \in Handlers |-> NoCall]
  /\ answers = {}
  /\ disruptions = 0
  /\ replays = 0

Goto(h, pc) == call' = [call EXCEPT ![h].pc = pc]

\* The transaction function returned an error: WithTx rolls back and frees the
\* connection, and Evaluate wraps the error.
AbortKeepsConnection(h, cause) ==
  /\ call' = [call EXCEPT ![h].pc = "failed", ![h].cause = cause]
  /\ UNCHANGED conn
Abort(h, cause) ==
  /\ call' = [call EXCEPT ![h].pc = "failed", ![h].cause = cause]
  /\ conn' = IF conn = h THEN None ELSE conn

-----------------------------------------------------------------------------
Replay(r) == Taken(request_log, KeyOf[r])

\* The checks before the transaction, the rule, and the audit identifier.
ReceiveWithoutAdvance(h, r) ==
  /\ up
  /\ call[h].pc = "idle"
  /\ IF Replay(r) THEN replays < MaxReplays /\ replays' = replays + 1 ELSE UNCHANGED replays
  /\ call' = [call EXCEPT ![h] = [NoCall EXCEPT !.pc = "begin", !.request = r, !.audit = next + 1]]
  /\ UNCHANGED <<tables, up, next, conn, answers, disruptions>>
Receive(h, r) ==
  /\ up
  /\ call[h].pc = "idle"
  /\ IF Replay(r) THEN replays < MaxReplays /\ replays' = replays + 1 ELSE UNCHANGED replays
  /\ IF r \in Rejected
     THEN /\ call' = [call EXCEPT ![h] = [NoCall EXCEPT !.pc = "failed", !.request = r, !.cause = "rejected"]]
          /\ UNCHANGED next
     ELSE /\ call' = [call EXCEPT ![h] = [NoCall EXCEPT !.pc = "begin", !.request = r, !.audit = next + 1]]
          /\ next' = next + 1
  /\ UNCHANGED <<tables, up, conn, answers, disruptions>>

\* A step of a handler whose client is still there.
At(h, pc) == call[h].pc = pc /\ call[h].live

\* BeginTx waits until the connection is free.
Begin(h) ==
  /\ At(h, "begin")
  /\ conn = None
  /\ conn' = h
  /\ Goto(h, "audit")
  /\ UNCHANGED <<tables, up, next, history>>

InsertAudit(h) ==
  /\ At(h, "audit")
  /\ IF Taken(audit_events, call[h].audit)
     THEN Abort(h, "audit_id")
     ELSE Goto(h, IF call[h].request \in Allowed THEN "job" ELSE "log") /\ UNCHANGED conn
  /\ UNCHANGED <<tables, up, next, history>>

\* The identifier of the job is taken inside the transaction; a rollback does
\* not give it back.
InsertJob(h) ==
  /\ At(h, "job")
  /\ next' = next + 1
  /\ IF Taken(outbox_jobs, next + 1)
     THEN Abort(h, "job_id")
     ELSE call' = [call EXCEPT ![h].pc = "log", ![h].job = next + 1] /\ UNCHANGED conn
  /\ UNCHANGED <<tables, up, history>>

InsertLogUnchecked(h) ==
  /\ At(h, "log")
  /\ Goto(h, "commit")
  /\ UNCHANGED <<tables, up, next, conn, history>>
InsertLog(h) ==
  /\ At(h, "log")
  /\ IF Taken(request_log, KeyOf[call[h].request])
     THEN Abort(h, "request_id")
     ELSE Goto(h, "commit") /\ UNCHANGED conn
  /\ UNCHANGED <<tables, up, next, history>>

\* The rows of the transaction reach the tables together.
CommitWithoutJob(h) ==
  LET c == call[h]
  IN /\ At(h, "commit")
     /\ audit_events' = audit_events \cup {[id |-> c.audit, request |-> c.request]}
     /\ request_log' = request_log \cup {[id |-> KeyOf[c.request], request |-> c.request]}
     /\ conn' = None
     /\ Goto(h, "recorded")
     /\ UNCHANGED <<outbox_jobs, up, next, history>>
Commit(h) ==
  LET c == call[h]
  IN /\ At(h, "commit")
     /\ audit_events' = audit_events \cup {[id |-> c.audit, request |-> c.request]}
     /\ outbox_jobs' = IF c.request \in Allowed
                       THEN outbox_jobs \cup {[id |-> c.job, request |-> c.request]}
                       ELSE outbox_jobs
     /\ request_log' = request_log \cup {[id |-> KeyOf[c.request], request |-> c.request]}
     /\ conn' = None
     /\ Goto(h, "recorded")
     /\ UNCHANGED <<up, next, history>>

\* The handler writes its response; a client that went away does not read it.
AnswerAlways(h) ==
  /\ call[h].pc \in {"recorded", "failed"}
  /\ answers' = IF call[h].live /\ call[h].audit # 0
                THEN answers \cup {[request |-> call[h].request, audit |-> call[h].audit, job |-> call[h].job]}
                ELSE answers
  /\ call' = [call EXCEPT ![h] = NoCall]
  /\ UNCHANGED <<tables, up, next, conn, disruptions, replays>>
Answer(h) ==
  /\ call[h].pc \in {"recorded", "failed"}
  /\ answers' = IF call[h].live /\ call[h].pc = "recorded"
                THEN answers \cup {[request |-> call[h].request, audit |-> call[h].audit, job |-> call[h].job]}
                ELSE answers
  /\ call' = [call EXCEPT ![h] = NoCall]
  /\ UNCHANGED <<tables, up, next, conn, disruptions, replays>>

-----------------------------------------------------------------------------
Disrupt == disruptions < MaxDisruptions /\ disruptions' = disruptions + 1

\* Evaluate takes the job identifier before the insert that then fails.
Wasted(h) == next' = IF call[h].pc = "job" THEN next + 1 ELSE next

\* The request context is done: the client went away.
Disconnect(h) ==
  /\ call[h].pc # "idle"
  /\ call[h].live
  /\ Disrupt
  /\ call' = [call EXCEPT ![h].live = FALSE]
  /\ UNCHANGED <<tables, up, next, conn, answers, replays>>

\* The next database call under a context that is done fails.
Interrupted(h) ==
  /\ call[h].pc \in InTx \cup {"begin"}
  /\ ~call[h].live
  /\ Wasted(h)
  /\ Abort(h, "store")
  /\ UNCHANGED <<tables, up, history>>

\* The store refuses a statement or the commit.
StoreFails(h) ==
  /\ call[h].pc \in InTx
  /\ Disrupt
  /\ Wasted(h)
  /\ Abort(h, "store")
  /\ UNCHANGED <<tables, up, answers, replays>>

\* The process dies: the open transaction is undone, everything in memory lost.
Crash ==
  /\ up
  /\ Disrupt
  /\ up' = FALSE
  /\ conn' = None
  /\ call' = [h \in Handlers |-> NoCall]
  /\ next' = 0
  /\ UNCHANGED <<tables, answers, replays>>

\* Bootstrap finds its farm and takes no identifier: the sequence starts at zero.
Restart ==
  /\ ~up
  /\ up' = TRUE
  /\ UNCHANGED <<tables, next, conn, call, history>>

Evaluate(h) ==
  Begin(h) \/ InsertAudit(h) \/ InsertJob(h) \/ InsertLog(h) \/ Commit(h) \/ Answer(h) \/ Interrupted(h)

Next ==
  \/ \E h \in Handlers :
       \/ \E r \in Requests : Receive(h, r)
       \/ Evaluate(h) \/ Disconnect(h) \/ StoreFails(h)
  \/ Crash \/ Restart

Spec == Init /\ [][Next]_vars

\* Handlers are scheduled, the process is started again, and (for the properties
\* about retries) a client sends its request again until it is recorded.
HandlersRun  == WF_vars(Restart) /\ \A h \in Handlers : WF_vars(Evaluate(h))
ClientsRetry == \A r \in Requests \ Rejected : SF_vars(\E h \in Handlers : ~Replay(r) /\ Receive(h, r))

FairSpec  == Spec /\ HandlersRun
RetrySpec == FairSpec /\ ClientsRetry

-----------------------------------------------------------------------------
\* The types of the state; the connection is held by the handler inside a
\* transaction and by nobody else.
TypeOK ==
  /\ audit_events \subseteq Row(Nat)
  /\ outbox_jobs \subseteq Row(Nat)
  /\ request_log \subseteq Row(Keys)
  /\ up \in BOOLEAN
  /\ next \in Nat
  /\ conn \in Handlers \cup {None}
  /\ call \in [Handlers -> Call]
  /\ \A h \in Handlers : conn = h <=> call[h].pc \in InTx
  /\ answers \subseteq [request : Requests, audit : Nat, job : Nat]
  /\ disruptions \in 0..MaxDisruptions
  /\ replays \in 0..MaxReplays

RequestsIn(table) == {row.request : row \in table}

\* No row is there without the others of its decision: a request has an audit
\* event exactly when it is logged, and a job exactly when it is also allowed,
\* whatever failed, crashed or was cancelled in between.
DecisionsAreWhole ==
  /\ RequestsIn(audit_events) = RequestsIn(request_log)
  /\ RequestsIn(outbox_jobs) = RequestsIn(request_log) \cap Allowed

\* Identifiers are never shared and requests never recorded twice, although the
\* sequence restarts below identifiers that are stored.
Unique(table) ==
  \A x, y \in table : x.id = y.id \/ x.request = y.request => x = y
RecordedOnce == Unique(audit_events) /\ Unique(outbox_jobs) /\ Unique(request_log)

\* What a client was told holds: the identifiers in a response are those of the
\* rows of its own request, and stay so across failures and restarts.
AnswersHold ==
  \A a \in answers :
    /\ [id |-> a.audit, request |-> a.request] \in audit_events
    /\ IF a.request \in Allowed
       THEN [id |-> a.job, request |-> a.request] \in outbox_jobs
       ELSE a.job = 0

\* The handlers implement the abstract log of decisions.
Log == INSTANCE DecisionLog WITH
  recorded <- RequestsIn(audit_events),
  notified <- RequestsIn(outbox_jobs),
  told     <- {a.request : a \in answers}

\* Each step on the tables is one step of the abstract log, or none.
ImplementsDecisionLog == Log!Spec

\* Every call is answered or dies with the process: no path of Evaluate keeps the
\* only connection and leaves the others waiting for it.
EveryCallEnds == \A h \in Handlers : call[h].pc # "idle" ~> call[h].pc = "idle"

\* A request whose client keeps sending it is recorded in the end: after a
\* restart the stored identifiers get in the way only a bounded number of times.
RetriesSucceed == \A r \in Requests \ Rejected : <>Replay(r)

\* The records that survived a restart do not make a new decision fail.
SurvivorsDoNotBlock == \A h \in Handlers : call[h].cause \notin {"audit_id", "job_id"}
=============================================================================
