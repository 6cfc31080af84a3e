------------------------------ MODULE Startup ------------------------------
(***************************************************************************)
(* How a server process comes up: store.Open and Database.Migrate of       *)
(* internal/store, then Bootstrap of internal/application, then serving    *)
(* (cmd/server/main.go).  Several processes may start on one database.     *)
(*                                                                         *)
(* The migrations run in one transaction, the seeding row by row without   *)
(* one; what a crash or a second process leaves behind in between is what  *)
(* this module is about.  A process numbers its rows from one: the farm is *)
(* number 1, then the turbines, then the vessels.                          *)
(***************************************************************************)
EXTENDS Naturals, FiniteSets

CONSTANTS
  Processes,       \* server processes that may run at once
  Tenants,         \* values of WINDOPS_TENANT
  Turbines,        \* turbines seeded (4)
  Vessels,         \* vessels seeded (2)
  None,            \* no process
  MaxDisruptions   \* bound on crashes and lock timeouts together

ASSUME StartupAssumption ==
  /\ Turbines \in Nat /\ Vessels \in Nat /\ MaxDisruptions \in Nat
  /\ None \notin Processes

VARIABLES
  versions,     \* schema_migrations: the versions recorded
  schema,       \* the versions whose tables exist
  writer,       \* the process whose transaction holds the write lock, or None
  farms,        \* table: records [id, tenant]
  fleet,        \* tables turbines and vessels: records [kind, id, tenant]
  proc,         \* what each process is doing
  disruptions   \* history: crashes and lock timeouts so far

vars == <<versions, schema, writer, farms, fleet, proc, disruptions>>
data == <<farms, fleet>>

-----------------------------------------------------------------------------
Migrations == {1, 2}

\* pc: "read" the recorded versions, "lock" for the first statement, "tables" and
\* "mark" per migration, "commit"; then "list" farms, "farm", "fleet", "serving".
Starting == {"read", "lock", "tables", "mark", "commit", "list", "farm", "fleet"}

\* made and marked are what the open transaction has done so far.
Proc == [pc : {"down", "serving"} \cup Starting, tenant : Tenants \cup {None},
         seen : SUBSET Migrations, made : SUBSET Migrations, marked : SUBSET Migrations,
         last : Nat]

Down == [pc |-> "down", tenant |-> None, seen |-> {}, made |-> {}, marked |-> {}, last |-> 0]

Init ==
  /\ versions = {} /\ schema = {}
  /\ writer = None
  /\ farms = {} /\ fleet = {}
  /\ proc = [p \in Processes |-> Down]
  /\ disruptions = 0

Goto(p, pc) == proc' = [proc EXCEPT ![p].pc = pc]

\* run returns the error and the process ends; an open transaction is undone.
Exit(p) ==
  /\ proc' = [proc EXCEPT ![p] = Down]
  /\ writer' = IF writer = p THEN None ELSE writer

-----------------------------------------------------------------------------
Start(p, t) ==
  /\ proc[p].pc = "down"
  /\ proc' = [proc EXCEPT ![p] = [Down EXCEPT !.pc = "read", !.tenant = t]]
  /\ UNCHANGED <<versions, schema, writer, data, disruptions>>

\* The first SELECT of Migrate fixes what the transaction sees.
ReadVersions(p) ==
  /\ proc[p].pc = "read"
  /\ proc' = [proc EXCEPT ![p].seen = versions,
                          ![p].pc = IF versions = Migrations THEN "list" ELSE "lock"]
  /\ UNCHANGED <<versions, schema, writer, data, disruptions>>

\* The first statement takes the write lock; if another process migrated since
\* the SELECT, SQLite refuses it and the start fails.
Lock(p) ==
  /\ proc[p].pc = "lock"
  /\ writer = None
  /\ IF proc[p].seen = versions
     THEN writer' = p /\ Goto(p, "tables")
     ELSE Exit(p)
  /\ UNCHANGED <<versions, schema, data, disruptions>>

\* The migration a transaction works on: the first neither recorded nor marked.
Pending(p) == Migrations \ (proc[p].seen \cup proc[p].marked)
First(S)   == CHOOSE v \in S : \A u \in S : v <= u

CreateTables(p) ==
  /\ proc[p].pc = "tables"
  /\ proc' = [proc EXCEPT ![p].made = @ \cup {First(Pending(p))}, ![p].pc = "mark"]
  /\ UNCHANGED <<versions, schema, writer, data, disruptions>>

MarkVersionAtOnce(p) ==
  /\ proc[p].pc = "mark"
  /\ versions' = versions \cup {First(Pending(p))}
  /\ proc' = [proc EXCEPT ![p].marked = @ \cup {First(Pending(p))},
                          ![p].pc = IF Cardinality(Pending(p)) = 1 THEN "commit" ELSE "tables"]
  /\ UNCHANGED <<schema, writer, data, disruptions>>
MarkVersion(p) ==
  /\ proc[p].pc = "mark"
  /\ proc' = [proc EXCEPT ![p].marked = @ \cup {First(Pending(p))},
                          ![p].pc = IF Cardinality(Pending(p)) = 1 THEN "commit" ELSE "tables"]
  /\ UNCHANGED <<versions, schema, writer, data, disruptions>>

CommitKeepsLock(p) ==
  /\ proc[p].pc = "commit"
  /\ versions' = versions \cup proc[p].marked
  /\ schema' = schema \cup proc[p].made
  /\ Goto(p, "list")
  /\ UNCHANGED <<writer, data, disruptions>>
CommitMigrations(p) ==
  /\ proc[p].pc = "commit"
  /\ versions' = versions \cup proc[p].marked
  /\ schema' = schema \cup proc[p].made
  /\ writer' = None
  /\ Goto(p, "list")
  /\ UNCHANGED <<data, disruptions>>

-----------------------------------------------------------------------------
ListAndSeed(p) ==
  /\ proc[p].pc = "list"
  /\ Goto(p, "farm")
  /\ UNCHANGED <<versions, schema, writer, data, disruptions>>
\* Bootstrap lists the farms of the tenant, and seeds only when there is none.
ListFarms(p) ==
  /\ proc[p].pc = "list"
  /\ Goto(p, IF \E f \in farms : f.tenant = proc[p].tenant THEN "serving" ELSE "farm")
  /\ UNCHANGED <<versions, schema, writer, data, disruptions>>

Number(p) == proc[p].last + 1

\* Each insert commits on its own; an identifier that is stored ends the start.
CreateFarmUnkeyed(p) ==
  /\ proc[p].pc = "farm"
  /\ farms' = farms \cup {[id |-> Cardinality(farms) + 1, tenant |-> proc[p].tenant]}
  /\ proc' = [proc EXCEPT ![p].pc = "fleet", ![p].last = Number(p)]
  /\ UNCHANGED <<versions, schema, writer, fleet, disruptions>>
CreateFarm(p) ==
  /\ proc[p].pc = "farm"
  /\ IF \E f \in farms : f.id = Number(p)
     THEN Exit(p) /\ UNCHANGED farms
     ELSE /\ farms' = farms \cup {[id |-> Number(p), tenant |-> proc[p].tenant]}
          /\ proc' = [proc EXCEPT ![p].pc = "fleet", ![p].last = Number(p)]
          /\ UNCHANGED writer
  /\ UNCHANGED <<versions, schema, fleet, disruptions>>

Kind(n) == IF n <= 1 + Turbines THEN "turbine" ELSE "vessel"
Seeded(t) == Cardinality({v \in fleet : v.tenant = t})

CreateFleet(p) ==
  LET n == Number(p)
  IN /\ proc[p].pc = "fleet"
     /\ n <= 1 + Turbines + Vessels
     /\ IF \E v \in fleet : v.kind = Kind(n) /\ v.id = n
        THEN Exit(p) /\ UNCHANGED fleet
        ELSE /\ fleet' = fleet \cup {[kind |-> Kind(n), id |-> n, tenant |-> proc[p].tenant]}
             /\ proc' = [proc EXCEPT ![p].last = n]
             /\ UNCHANGED writer
     /\ UNCHANGED <<versions, schema, farms, disruptions>>

Serve(p) ==
  /\ proc[p].pc = "fleet"
  /\ proc[p].last = 1 + Turbines + Vessels
  /\ Goto(p, "serving")
  /\ UNCHANGED <<versions, schema, writer, data, disruptions>>

-----------------------------------------------------------------------------
Disrupt == disruptions < MaxDisruptions /\ disruptions' = disruptions + 1

\* The process dies or is signalled: at any point its start or its service ends.
Crash(p) ==
  /\ proc[p].pc # "down"
  /\ Disrupt
  /\ Exit(p)
  /\ UNCHANGED <<versions, schema, data>>

\* SQLite answers that the database is busy while another process holds the write lock:
\* after busy_timeout, or at once to a transaction that has read and would have to wait.
LockTimeout(p) ==
  /\ proc[p].pc = "lock"
  /\ writer # None
  /\ Disrupt
  /\ Exit(p)
  /\ UNCHANGED <<versions, schema, data>>

Run(p) ==
  \/ \E t \in Tenants : Start(p, t)
  \/ ReadVersions(p) \/ Lock(p) \/ CreateTables(p) \/ MarkVersion(p) \/ CommitMigrations(p)
  \/ ListFarms(p) \/ CreateFarm(p) \/ CreateFleet(p) \/ Serve(p)

Next == \E p \in Processes : Run(p) \/ Crash(p) \/ LockTimeout(p)

Spec == Init /\ [][Next]_vars

\* A process that runs makes progress, and one that ended is started again.
FairSpec == Spec /\ \A p \in Processes : WF_vars(Run(p))

-----------------------------------------------------------------------------
TypeOK ==
  /\ versions \subseteq Migrations /\ schema \subseteq Migrations
  /\ writer \in Processes \cup {None}
  /\ farms \subseteq [id : Nat, tenant : Tenants]
  /\ fleet \subseteq [kind : {"turbine", "vessel"}, id : Nat, tenant : Tenants]
  /\ proc \in [Processes -> Proc]
  /\ \A p \in Processes : writer = p <=> proc[p].pc \in {"tables", "mark", "commit"}
  /\ disruptions \in 0..MaxDisruptions

\* A version is recorded exactly when its tables exist, and in order, and a process
\* serves only when all do: a crash in the middle of Migrate, or two processes
\* migrating, leave no half of it.
MigratedWhole ==
  /\ versions = schema /\ (2 \in versions => 1 \in versions)
  /\ \A p \in Processes : proc[p].pc = "serving" => schema = Migrations

\* However many processes seed at once, a tenant gets one farm before it is served, and
\* its fleet is complete, unless its seeding still runs or was once interrupted:
\* Bootstrap never resumes what it began.
SeededOnce ==
  /\ \A f, g \in farms : f.tenant = g.tenant => f = g
  /\ \A v \in fleet : \E f \in farms : f.tenant = v.tenant
  /\ \A p \in Processes : proc[p].pc = "serving" => \E f \in farms : f.tenant = proc[p].tenant
  /\ \A f \in farms :
       \/ Seeded(f.tenant) = Turbines + Vessels
       \/ \E p \in Processes : proc[p].pc = "fleet" /\ proc[p].tenant = f.tenant
       \/ disruptions > 0

\* A start that must fail: another tenant's farm took the first identifier.
SeededForOthers(p) ==
  /\ proc[p].pc = "farm"
  /\ farms # {} /\ \A f \in farms : f.tenant # proc[p].tenant

\* Whatever ends a start, every process serves in the end, unless it is started
\* again and again for a tenant the database was not seeded for.
ServesItsTenant ==
  \A p \in Processes : <>[](proc[p].pc = "serving") \/ []<>SeededForOthers(p)

\* Whatever ends a start, every process serves in the end, for any tenant.
EveryProcessServes == \A p \in Processes : <>[](proc[p].pc = "serving")
=============================================================================
