--------------------------- MODULE StartupProofs ---------------------------
(***************************************************************************)
(* Proofs about Startup, for any number of processes, tenants, turbines,   *)
(* vessels and disruptions: types, migrations that are whole, and a        *)
(* database that is seeded once.                                           *)
(***************************************************************************)
EXTENDS Startup, FiniteSetTheorems, TLAPS

\* Before a process has migrated its transaction has done nothing and no identifier
\* is given out; before it seeds, none either.
Fresh(p) ==
  /\ proc[p].pc # "down" => proc[p].tenant \in Tenants
  /\ proc[p].pc \in {"read", "lock"} => proc[p].made = {} /\ proc[p].marked = {}
  /\ proc[p].pc \in Starting \ {"fleet"} => proc[p].last = 0

\* What the holder of the write lock saw is still what is recorded, and its own work
\* is one migration after the other; who is past Migrate found or left all of them.
Migrating(p) ==
  /\ proc[p].pc = "lock" => proc[p].seen # Migrations
  /\ writer = p => proc[p].seen = versions /\ (2 \in proc[p].marked => 1 \in proc[p].seen \cup proc[p].marked)
  /\ proc[p].pc = "tables" => proc[p].made = proc[p].marked /\ Pending(p) # {}
  /\ proc[p].pc = "mark" => proc[p].made = proc[p].marked \cup {First(Pending(p))} /\ Pending(p) # {}
  /\ proc[p].pc = "commit" => proc[p].made = proc[p].marked /\ Pending(p) = {}
  /\ proc[p].pc \in {"list", "farm", "fleet", "serving"} => versions = Migrations

MigrateInv ==
  /\ versions = schema /\ (2 \in versions => 1 \in versions)
  /\ \A p \in Processes : Fresh(p) /\ Migrating(p)

\* Every process numbers its farm 1, so the database has one farm at most, and one
\* process that seeds its fleet.
OneFarm   == \A f, g \in farms : f.id = 1 /\ f = g
OneSeeder == \A p, q \in Processes : proc[p].pc = "fleet" /\ proc[q].pc = "fleet" => p = q

\* The seeder's farm is stored, and its fleet up to the last number it gave out.
Seeding(p) ==
  /\ [id |-> 1, tenant |-> proc[p].tenant] \in farms
  /\ proc[p].last \in 1..(1 + Turbines + Vessels)
  /\ \A v \in fleet : v.id <= proc[p].last
  /\ Cardinality(fleet) = proc[p].last - 1

SeedInv ==
  /\ OneFarm /\ OneSeeder
  /\ IsFiniteSet(fleet)
  /\ \A v \in fleet : \E f \in farms : f.tenant = v.tenant
  /\ \A p \in Processes : proc[p].pc = "fleet" => Seeding(p)
  /\ \A p \in Processes : proc[p].pc = "serving" => \E f \in farms : f.tenant = proc[p].tenant
  /\ farms # {} /\ disruptions = 0 /\ (\A p \in Processes : proc[p].pc # "fleet") =>
       Cardinality(fleet) = Turbines + Vessels

\* The inductive invariant.
IInv == TypeOK /\ MigrateInv /\ SeedInv

-----------------------------------------------------------------------------
\* The first migration of a set is in it and none is before it; a set of one migration
\* is done with it.
LEMMA FirstMigration ==
  ASSUME NEW S \in SUBSET Migrations, S # {}
  PROVE  /\ First(S) \in S
         /\ First(S) = 2 => 1 \notin S
         /\ Cardinality(S) = 1 <=> S = {First(S)}
<1>1. S \in {{1}, {2}, {1, 2}}
  BY DEF Migrations
<1>2. \E v \in S : \A u \in S : v <= u
  <2>1. CASE 1 \in S
    BY <1>1, <2>1
  <2>2. CASE S = {2}
    BY <2>2
  <2>. QED
    BY <1>1, <2>1, <2>2
<1>3. First(S) \in S /\ \A u \in S : First(S) <= u
  BY <1>2 DEF First
<1>4. Cardinality({1}) = 1 /\ Cardinality({2}) = 1 /\ IsFiniteSet({2})
  BY FS_Singleton
<1>5. Cardinality({1, 2}) = 2
  <2>1. Cardinality({2} \cup {1}) = Cardinality({2}) + 1
    BY <1>4, FS_AddElement
  <2>2. {2} \cup {1} = {1, 2}
    OBVIOUS
  <2>. QED
    BY <2>1, <2>2, <1>4
<1>6. CASE S = {1}
  BY <1>3, <1>4, <1>6
<1>7. CASE S = {2}
  BY <1>3, <1>4, <1>7
<1>8. CASE S = {1, 2}
  BY <1>3, <1>5, <1>8
<1>. QED
  BY <1>1, <1>6, <1>7, <1>8

\* A step is one action of one process, or changes nothing.
LEMMA StepCases ==
  ASSUME [Next]_vars
  PROVE  \/ \E p \in Processes :
              \/ \E t \in Tenants : Start(p, t)
              \/ ReadVersions(p) \/ Lock(p) \/ CreateTables(p) \/ MarkVersion(p)
              \/ CommitMigrations(p) \/ ListFarms(p) \/ CreateFarm(p) \/ CreateFleet(p)
              \/ Serve(p) \/ Crash(p) \/ LockTimeout(p)
         \/ UNCHANGED vars
  BY DEF Next, Run

LEMMA DownIsProc == Down \in Proc
  BY DEF Down, Proc, Starting

-----------------------------------------------------------------------------
\* Ending a process keeps the types and gives its lock back.
LEMMA ExitTypes ==
  ASSUME TypeOK, NEW p \in Processes, Exit(p)
  PROVE  /\ proc' \in [Processes -> Proc]
         /\ writer' \in Processes \cup {None}
         /\ \A q \in Processes : writer' = q <=> proc'[q].pc \in {"tables", "mark", "commit"}
<1>1. proc' = [proc EXCEPT ![p] = Down]
  BY DEF Exit
<1>2. \A q \in Processes : proc'[q] = IF q = p THEN Down ELSE proc[q]
  BY <1>1 DEF TypeOK
<1>3. Down.pc = "down"
  BY DEF Down
<1>. QED
  BY <1>1, <1>2, <1>3, DownIsProc, StartupAssumption DEF TypeOK, Exit

LEMMA TypeNext ==
  ASSUME TypeOK, MigrateInv, [Next]_vars
  PROVE  TypeOK'
<1>. USE DEF TypeOK, data
<1>1. ASSUME NEW p \in Processes, NEW t \in Tenants, Start(p, t)
      PROVE  TypeOK'
  <2>1. [Down EXCEPT !.pc = "read", !.tenant = t] \in Proc
    BY DEF Down, Proc, Starting
  <2>2. \A q \in Processes : proc'[q].pc = IF q = p THEN "read" ELSE proc[q].pc
    BY <1>1 DEF Start, Down
  <2>. QED
    BY <1>1, <2>1, <2>2 DEF Start
<1>2. ASSUME NEW p \in Processes, ReadVersions(p)
      PROVE  TypeOK'
  BY <1>2 DEF ReadVersions, Proc, Starting
<1>3. ASSUME NEW p \in Processes, Lock(p)
      PROVE  TypeOK'
  <2>1. CASE proc[p].seen = versions
    BY <1>3, <2>1, StartupAssumption DEF Lock, Goto, Proc, Starting
  <2>2. CASE proc[p].seen # versions
    BY <1>3, <2>2, ExitTypes DEF Lock
  <2>. QED
    BY <2>1, <2>2
<1>4. ASSUME NEW p \in Processes, CreateTables(p) \/ MarkVersion(p)
      PROVE  TypeOK'
  <2>1. First(Pending(p)) \in Migrations
    <3>1. Pending(p) # {} /\ Pending(p) \in SUBSET Migrations
      BY <1>4 DEF CreateTables, MarkVersion, MigrateInv, Migrating, Pending
    <3>. QED
      BY <3>1, FirstMigration
  <2>2. CASE CreateTables(p)
    BY <2>1, <2>2 DEF CreateTables, Proc, Starting
  <2>3. CASE MarkVersion(p)
    BY <2>1, <2>3 DEF MarkVersion, Proc, Starting
  <2>. QED
    BY <1>4, <2>2, <2>3
<1>5. ASSUME NEW p \in Processes, CommitMigrations(p)
      PROVE  TypeOK'
  BY <1>5, StartupAssumption DEF CommitMigrations, Goto, Proc, Starting
<1>6. ASSUME NEW p \in Processes, ListFarms(p) \/ Serve(p)
      PROVE  TypeOK'
  BY <1>6 DEF ListFarms, Serve, Goto, Proc, Starting
<1>7. ASSUME NEW p \in Processes, CreateFarm(p)
      PROVE  TypeOK'
  <2>1. CASE \E f \in farms : f.id = Number(p)
    BY <1>7, <2>1, ExitTypes DEF CreateFarm
  <2>2. CASE ~\E f \in farms : f.id = Number(p)
    <3>1. proc[p].tenant \in Tenants /\ Number(p) \in Nat
      BY <1>7 DEF CreateFarm, MigrateInv, Fresh, Starting, Proc, Number
    <3>. QED
      BY <1>7, <2>2, <3>1 DEF CreateFarm, Proc, Starting
  <2>. QED
    BY <2>1, <2>2
<1>8. ASSUME NEW p \in Processes, CreateFleet(p)
      PROVE  TypeOK'
  <2>1. CASE \E v \in fleet : v.kind = Kind(Number(p)) /\ v.id = Number(p)
    BY <1>8, <2>1, ExitTypes DEF CreateFleet
  <2>2. CASE ~\E v \in fleet : v.kind = Kind(Number(p)) /\ v.id = Number(p)
    <3>1. proc[p].tenant \in Tenants /\ Number(p) \in Nat
      BY <1>8 DEF CreateFleet, MigrateInv, Fresh, Starting, Proc, Number
    <3>. QED
      BY <1>8, <2>2, <3>1 DEF CreateFleet, Proc, Starting, Kind
  <2>. QED
    BY <2>1, <2>2
<1>9. ASSUME NEW p \in Processes, Crash(p) \/ LockTimeout(p)
      PROVE  TypeOK'
  BY <1>9, ExitTypes, StartupAssumption DEF Crash, LockTimeout, Disrupt
<1>10. CASE UNCHANGED vars
  BY <1>10 DEF vars
<1>. HIDE DEF TypeOK
<1>. QED
  BY <1>1, <1>2, <1>3, <1>4, <1>5, <1>6, <1>7, <1>8, <1>9, <1>10, StepCases

-----------------------------------------------------------------------------
\* What a process knows is not spoilt by a step of another one.
LEMMA OthersMigrate ==
  ASSUME TypeOK, MigrateInv, NEW p \in Processes, NEW q \in Processes, proc'[q] = proc[q],
         writer' = q => writer = q,
         versions' = versions \/ (writer = p /\ p # q /\ versions' = Migrations)
  PROVE  Fresh(q)' /\ Migrating(q)'
  BY DEF MigrateInv, Fresh, Migrating, TypeOK, Pending

\* A process that is down knows nothing.
LEMMA DownMigrates ==
  ASSUME NEW p \in Processes, proc'[p] = Down, writer' # p
  PROVE  Fresh(p)' /\ Migrating(p)'
  BY DEF Down, Fresh, Migrating, Starting

LEMMA ExitMigrates ==
  ASSUME TypeOK, MigrateInv, NEW p \in Processes, Exit(p), UNCHANGED <<versions, schema>>
  PROVE  MigrateInv'
<1>1. \A q \in Processes : proc'[q] = IF q = p THEN Down ELSE proc[q]
  BY DEF TypeOK, Exit
<1>2. writer' # p /\ \A q \in Processes : writer' = q => writer = q
  BY StartupAssumption DEF Exit
<1>3. Fresh(p)' /\ Migrating(p)'
  BY <1>1, <1>2, DownMigrates
<1>4. \A q \in Processes \ {p} : Fresh(q)' /\ Migrating(q)'
  BY <1>1, <1>2, OthersMigrate
<1>. QED
  BY <1>3, <1>4 DEF MigrateInv

\* The invariant of Migrate is kept once the process that took the step is seen to.
LEMMA OneMigrates ==
  ASSUME TypeOK, MigrateInv, NEW p \in Processes, NEW new,
         proc' = [proc EXCEPT ![p] = new],
         writer' \in {writer, p, None}, versions' = versions \/ (writer = p /\ versions' = Migrations),
         versions' = schema', 2 \in versions' => 1 \in versions',
         Fresh(p)' /\ Migrating(p)'
  PROVE  MigrateInv'
<1>1. \A q \in Processes \ {p} : proc'[q] = proc[q] /\ (writer' = q => writer = q)
  BY StartupAssumption DEF TypeOK
<1>2. \A q \in Processes \ {p} : Fresh(q)' /\ Migrating(q)'
  BY <1>1, OthersMigrate
<1>. QED
  BY <1>2 DEF MigrateInv

LEMMA MigrateNext ==
  ASSUME TypeOK, MigrateInv, [Next]_vars
  PROVE  MigrateInv'
<1>1. ASSUME NEW p \in Processes, NEW t \in Tenants, Start(p, t)
      PROVE  MigrateInv'
  <2>. DEFINE new == [Down EXCEPT !.pc = "read", !.tenant = t]
  <2>1. proc' = [proc EXCEPT ![p] = new] /\ proc'[p] = new /\ writer # p
    BY <1>1 DEF Start, TypeOK
  <2>2. Fresh(p)' /\ Migrating(p)'
    BY <1>1, <2>1 DEF Start, Down, Fresh, Migrating, Starting
  <2>. HIDE DEF new
  <2>. QED
    BY <1>1, <2>1, <2>2, OneMigrates DEF Start, MigrateInv
<1>2. ASSUME NEW p \in Processes, ReadVersions(p)
      PROVE  MigrateInv'
  <2>. DEFINE new == [proc[p] EXCEPT !.seen = versions,
                                     !.pc = IF versions = Migrations THEN "list" ELSE "lock"]
  <2>1. proc' = [proc EXCEPT ![p] = new] /\ proc'[p] = new /\ writer # p
    BY <1>2 DEF ReadVersions, TypeOK
  <2>2. Fresh(p)' /\ Migrating(p)'
    BY <1>2, <2>1 DEF ReadVersions, TypeOK, Proc, MigrateInv, Fresh, Migrating, Starting
  <2>. HIDE DEF new
  <2>. QED
    BY <1>2, <2>1, <2>2, OneMigrates DEF ReadVersions, MigrateInv
<1>3. ASSUME NEW p \in Processes, Lock(p)
      PROVE  MigrateInv'
  <2>1. CASE proc[p].seen = versions
    <3>. DEFINE new == [proc[p] EXCEPT !.pc = "tables"]
    <3>1. proc' = [proc EXCEPT ![p] = new] /\ proc'[p] = new /\ writer' = p
      BY <1>3, <2>1 DEF Lock, Goto, TypeOK
    <3>2. proc[p].made = {} /\ proc[p].marked = {} /\ versions # Migrations /\ proc[p].last = 0
          /\ proc[p].tenant \in Tenants
      BY <1>3, <2>1 DEF Lock, MigrateInv, Fresh, Migrating, Starting
    <3>3. /\ proc'[p].pc = "tables" /\ proc'[p].seen = versions
          /\ proc'[p].made = {} /\ proc'[p].marked = {}
      BY <2>1, <3>1, <3>2 DEF TypeOK, Proc
    <3>4. Pending(p)' # {} /\ versions' = versions
      BY <1>3, <3>2, <3>3 DEF Pending, Lock, TypeOK
    <3>5. Migrating(p)'
      BY <3>3, <3>4 DEF Migrating
    <3>6. Fresh(p)'
      BY <1>3, <3>1, <3>2 DEF Lock, TypeOK, Proc, Fresh, Starting
    <3>. HIDE DEF new
    <3>. QED
      BY <1>3, <3>1, <3>5, <3>6, OneMigrates DEF Lock, MigrateInv
  <2>2. CASE proc[p].seen # versions
    BY <1>3, <2>2, ExitMigrates DEF Lock
  <2>. QED
    BY <2>1, <2>2
<1>4. ASSUME NEW p \in Processes, CreateTables(p)
      PROVE  MigrateInv'
  <2>. DEFINE new == [proc[p] EXCEPT !.made = @ \cup {First(Pending(p))}, !.pc = "mark"]
  <2>1. proc' = [proc EXCEPT ![p] = new] /\ proc'[p] = new /\ writer = p
    BY <1>4 DEF CreateTables, TypeOK
  <2>2. Pending(p)' = Pending(p) /\ First(Pending(p))' = First(Pending(p))
    BY <2>1 DEF Pending, First, TypeOK, Proc
  <2>3. Fresh(p)' /\ Migrating(p)'
    BY <1>4, <2>1, <2>2 DEF CreateTables, TypeOK, Proc, MigrateInv, Fresh, Migrating, Starting
  <2>. HIDE DEF new
  <2>. QED
    BY <1>4, <2>1, <2>3, OneMigrates DEF CreateTables, MigrateInv
<1>5. ASSUME NEW p \in Processes, MarkVersion(p)
      PROVE  MigrateInv'
  <2>. DEFINE done == First(Pending(p))
              new  == [proc[p] EXCEPT !.marked = @ \cup {done},
                                      !.pc = IF Cardinality(Pending(p)) = 1 THEN "commit" ELSE "tables"]
  <2>1. proc' = [proc EXCEPT ![p] = new] /\ proc'[p] = new /\ writer = p
    BY <1>5 DEF MarkVersion, TypeOK
  <2>2. Pending(p) # {} /\ Pending(p) \in SUBSET Migrations
    BY <1>5 DEF MarkVersion, MigrateInv, Migrating, Pending
  <2>3. /\ done \in Pending(p) /\ (done = 2 => 1 \notin Pending(p))
        /\ Cardinality(Pending(p)) = 1 <=> Pending(p) = {done}
    BY <2>2, FirstMigration
  <2>. HIDE DEF done
  <2>4. Pending(p)' = Pending(p) \ {done}
    BY <2>1 DEF Pending, TypeOK, Proc
  <2>5. 2 \in proc[p].marked \cup {done} => 1 \in proc[p].seen \cup (proc[p].marked \cup {done})
    BY <1>5, <2>1, <2>3 DEF MarkVersion, MigrateInv, Migrating, Pending, Migrations
  <2>6. proc[p].made = proc[p].marked \cup {done} /\ proc[p].seen = versions
    BY <1>5, <2>1 DEF MarkVersion, MigrateInv, Migrating, done
  <2>7. /\ proc'[p].pc = IF Pending(p) = {done} THEN "commit" ELSE "tables"
        /\ proc'[p].seen = proc[p].seen /\ proc'[p].made = proc[p].made
        /\ proc'[p].marked = proc[p].marked \cup {done}
    BY <2>1, <2>3 DEF TypeOK, Proc
  <2>8. versions' = versions /\ (Pending(p)' = {} <=> Pending(p) = {done})
    BY <1>5, <2>3, <2>4 DEF MarkVersion
  <2>9. Migrating(p)'
    BY <2>5, <2>6, <2>7, <2>8 DEF Migrating
  <2>10. Fresh(p)'
    BY <1>5, <2>1 DEF MarkVersion, TypeOK, Proc, MigrateInv, Fresh, Starting
  <2>. HIDE DEF new
  <2>. QED
    BY <1>5, <2>1, <2>9, <2>10, OneMigrates DEF MarkVersion, MigrateInv
<1>6. ASSUME NEW p \in Processes, CommitMigrations(p)
      PROVE  MigrateInv'
  <2>. DEFINE new == [proc[p] EXCEPT !.pc = "list"]
  <2>1. proc' = [proc EXCEPT ![p] = new] /\ proc'[p] = new /\ writer = p /\ writer' = None
    BY <1>6 DEF CommitMigrations, Goto, TypeOK
  <2>2. versions \cup proc[p].marked = Migrations /\ proc[p].made = proc[p].marked
    BY <1>6, <2>1 DEF CommitMigrations, TypeOK, Proc, MigrateInv, Migrating, Pending
  <2>3. versions' = Migrations /\ schema' = Migrations /\ None # p
    BY <1>6, <2>2, StartupAssumption DEF CommitMigrations, MigrateInv
  <2>4. Fresh(p)' /\ Migrating(p)'
    BY <1>6, <2>1, <2>3 DEF CommitMigrations, TypeOK, Proc, MigrateInv, Fresh, Migrating, Starting
  <2>. HIDE DEF new
  <2>. QED
    BY <2>1, <2>3, <2>4, OneMigrates DEF Migrations
<1>7. ASSUME NEW p \in Processes, ListFarms(p) \/ Serve(p)
      PROVE  MigrateInv'
  <2>1. PICK c \in {"farm", "serving"} : proc' = [proc EXCEPT ![p].pc = c]
    BY <1>7 DEF ListFarms, Serve, Goto
  <2>. DEFINE new == [proc[p] EXCEPT !.pc = c]
  <2>2. proc' = [proc EXCEPT ![p] = new] /\ proc'[p] = new /\ writer # p
    BY <1>7, <2>1 DEF ListFarms, Serve, TypeOK
  <2>3. c = "farm" => proc[p].pc = "list"
    BY <1>7, <2>2 DEF ListFarms, Serve, Goto, TypeOK, Proc
  <2>4. Fresh(p)' /\ Migrating(p)'
    BY <1>7, <2>2, <2>3 DEF ListFarms, Serve, TypeOK, Proc, MigrateInv, Fresh, Migrating, Starting
  <2>. HIDE DEF new
  <2>. QED
    BY <1>7, <2>2, <2>4, OneMigrates DEF ListFarms, Serve, MigrateInv
<1>8. ASSUME NEW p \in Processes, CreateFarm(p)
      PROVE  MigrateInv'
  <2>1. CASE Exit(p)
    BY <1>8, <2>1, ExitMigrates DEF CreateFarm
  <2>2. CASE ~Exit(p)
    <3>. DEFINE new == [proc[p] EXCEPT !.pc = "fleet", !.last = Number(p)]
    <3>1. proc' = [proc EXCEPT ![p] = new] /\ proc'[p] = new /\ writer # p /\ UNCHANGED writer
      BY <1>8, <2>2 DEF CreateFarm, TypeOK
    <3>2. Fresh(p)' /\ Migrating(p)'
      BY <1>8, <3>1 DEF CreateFarm, TypeOK, Proc, MigrateInv, Fresh, Migrating, Starting
    <3>. HIDE DEF new
    <3>. QED
      BY <1>8, <3>1, <3>2, OneMigrates DEF CreateFarm, MigrateInv
  <2>. QED
    BY <2>1, <2>2
<1>9. ASSUME NEW p \in Processes, CreateFleet(p)
      PROVE  MigrateInv'
  <2>1. CASE Exit(p)
    BY <1>9, <2>1, ExitMigrates DEF CreateFleet
  <2>2. CASE ~Exit(p)
    <3>. DEFINE new == [proc[p] EXCEPT !.last = Number(p)]
    <3>1. proc' = [proc EXCEPT ![p] = new] /\ proc'[p] = new /\ writer # p /\ UNCHANGED writer
      BY <1>9, <2>2 DEF CreateFleet, TypeOK
    <3>2. Fresh(p)' /\ Migrating(p)'
      BY <1>9, <3>1 DEF CreateFleet, TypeOK, Proc, MigrateInv, Fresh, Migrating, Starting
    <3>. HIDE DEF new
    <3>. QED
      BY <1>9, <3>1, <3>2, OneMigrates DEF CreateFleet, MigrateInv
  <2>. QED
    BY <2>1, <2>2
<1>10. ASSUME NEW p \in Processes, Crash(p) \/ LockTimeout(p)
      PROVE  MigrateInv'
  BY <1>10, ExitMigrates DEF Crash, LockTimeout
<1>11. CASE UNCHANGED vars
  BY <1>11 DEF vars, MigrateInv, Fresh, Migrating, Pending
<1>. QED
  BY <1>1, <1>2, <1>3, <1>4, <1>5, <1>6, <1>7, <1>8, <1>9, <1>10, <1>11, StepCases

-----------------------------------------------------------------------------
\* A step of a process that leaves the tables alone and does not seed.
LEMMA OneSeeds ==
  ASSUME TypeOK, SeedInv, NEW p \in Processes, NEW new,
         proc' = [proc EXCEPT ![p] = new], UNCHANGED data,
         new.pc # "fleet",
         new.pc = "serving" => \E f \in farms : f.tenant = new.tenant,
         disruptions' # 0 \/ (proc[p].pc # "fleet" /\ UNCHANGED disruptions)
  PROVE  SeedInv'
<1>1. \A q \in Processes : proc'[q] = IF q = p THEN new ELSE proc[q]
  BY DEF TypeOK
<1>2. (OneFarm /\ OneSeeder)' /\ IsFiniteSet(fleet')
  BY <1>1 DEF SeedInv, OneFarm, OneSeeder, data
<1>3. \A v \in fleet' : \E f \in farms' : f.tenant = v.tenant
  BY DEF SeedInv, data
<1>4. \A q \in Processes : proc'[q].pc = "fleet" => Seeding(q)'
  BY <1>1 DEF SeedInv, Seeding, data
<1>5. \A q \in Processes : proc'[q].pc = "serving" => \E f \in farms' : f.tenant = proc'[q].tenant
  BY <1>1 DEF SeedInv, data
<1>6. farms' # {} /\ disruptions' = 0 /\ (\A q \in Processes : proc'[q].pc # "fleet") =>
        Cardinality(fleet') = Turbines + Vessels
  BY <1>1 DEF SeedInv, data
<1>. QED
  BY <1>2, <1>3, <1>4, <1>5, <1>6 DEF SeedInv

\* Bootstrap's first insert: it is refused unless there is no farm, and so no fleet.
LEMMA FarmSeeds ==
  ASSUME IInv, NEW p \in Processes, CreateFarm(p)
  PROVE  SeedInv'
<1>. USE DEF IInv
<1>1. proc[p].last = 0 /\ Number(p) = 1
  BY DEF CreateFarm, MigrateInv, Fresh, Starting, Number
<1>2. CASE \E f \in farms : f.id = 1
  <2>1. proc' = [proc EXCEPT ![p] = Down] /\ UNCHANGED data
    BY <1>1, <1>2 DEF CreateFarm, Exit, data
  <2>2. Down.pc = "down" /\ proc[p].pc # "fleet" /\ UNCHANGED disruptions
    BY DEF CreateFarm, Down
  <2>. QED
    BY <2>1, <2>2, OneSeeds
<1>3. CASE ~\E f \in farms : f.id = 1
  <2>. DEFINE farm == [id |-> 1, tenant |-> proc[p].tenant]
              new  == [proc[p] EXCEPT !.pc = "fleet", !.last = 1]
  <2>1. farms = {} /\ fleet = {}
    BY <1>3 DEF SeedInv, OneFarm
  <2>2. farms' = {farm} /\ fleet' = {}
    BY <1>1, <1>3, <2>1 DEF CreateFarm
  <2>3. \A q \in Processes : proc'[q] = IF q = p THEN new ELSE proc[q]
    BY <1>1, <1>3 DEF CreateFarm, TypeOK
  <2>4. new.pc = "fleet" /\ new.last = 1 /\ new.tenant = proc[p].tenant
    BY DEF TypeOK, Proc
  <2>. HIDE DEF new
  <2>5. \A q \in Processes \ {p} : proc'[q].pc \notin {"fleet", "serving"}
    BY <2>1, <2>3 DEF SeedInv, Seeding
  <2>6. Seeding(p)'
    <3>1. Cardinality(fleet') = 0
      BY <2>2, FS_EmptySet
    <3>. QED
      BY <2>2, <2>3, <2>4, <3>1, StartupAssumption DEF Seeding
  <2>. QED
    BY <2>2, <2>3, <2>4, <2>5, <2>6, FS_EmptySet DEF SeedInv, OneFarm, OneSeeder
<1>. QED
  BY <1>2, <1>3

\* Bootstrap's later inserts: the seeder is alone and its numbers are new.
LEMMA FleetSeeds ==
  ASSUME IInv, NEW p \in Processes, CreateFleet(p)
  PROVE  SeedInv'
<1>. USE DEF IInv
<1>. DEFINE n   == Number(p)
            v   == [kind |-> Kind(n), id |-> n, tenant |-> proc[p].tenant]
            new == [proc[p] EXCEPT !.last = n]
<1>1. proc[p].pc = "fleet" /\ Seeding(p) /\ proc[p].last \in Nat /\ n = proc[p].last + 1
  BY DEF CreateFleet, SeedInv, TypeOK, Proc, Number
<1>2. \A u \in fleet : u.id \in Nat /\ u.id < n
  BY <1>1 DEF Seeding, TypeOK
<1>3. fleet' = fleet \cup {v} /\ proc' = [proc EXCEPT ![p] = new] /\ v \notin fleet
  BY <1>1, <1>2 DEF CreateFleet
<1>4. Cardinality(fleet') = n - 1 /\ IsFiniteSet(fleet')
  <2>1. IsFiniteSet(fleet) /\ Cardinality(fleet) = n - 2
    BY <1>1 DEF SeedInv, Seeding
  <2>. HIDE DEF n, v
  <2>2. Cardinality(fleet') = Cardinality(fleet) + 1 /\ IsFiniteSet(fleet')
    BY <1>3, <2>1, FS_AddElement
  <2>. QED
    BY <1>1, <2>1, <2>2
<1>5. \A q \in Processes : proc'[q] = IF q = p THEN new ELSE proc[q]
  BY <1>3 DEF TypeOK
<1>6. new.pc = "fleet" /\ new.last = n /\ new.tenant = proc[p].tenant
  BY <1>1 DEF TypeOK, Proc
<1>. HIDE DEF new
<1>7. n <= 1 + Turbines + Vessels /\ UNCHANGED farms
  BY DEF CreateFleet
<1>8. Seeding(p)'
  BY <1>1, <1>2, <1>3, <1>4, <1>5, <1>6, <1>7, StartupAssumption DEF Seeding
<1>9. \A q \in Processes \ {p} : proc'[q].pc # "fleet"
  BY <1>1, <1>5 DEF SeedInv, OneSeeder
<1>10. \A u \in fleet' : \E f \in farms' : f.tenant = u.tenant
  BY <1>1, <1>3, <1>7 DEF SeedInv, Seeding
<1>. QED
  BY <1>4, <1>5, <1>6, <1>7, <1>8, <1>9, <1>10 DEF SeedInv, OneFarm, OneSeeder

\* Serving follows the last insert.
LEMMA ServeSeeds ==
  ASSUME IInv, NEW p \in Processes, Serve(p)
  PROVE  SeedInv'
<1>. USE DEF IInv
<1>. DEFINE new == [proc[p] EXCEPT !.pc = "serving"]
<1>1. proc[p].pc = "fleet" /\ Seeding(p) /\ proc[p].last = 1 + Turbines + Vessels
  BY DEF Serve, SeedInv
<1>2. \A q \in Processes : proc'[q] = IF q = p THEN new ELSE proc[q]
  BY DEF Serve, Goto, TypeOK
<1>3. new.pc = "serving" /\ new.tenant = proc[p].tenant
  BY DEF TypeOK, Proc
<1>. HIDE DEF new
<1>4. Cardinality(fleet) = Turbines + Vessels
  BY <1>1, StartupAssumption DEF Seeding
<1>5. \A q \in Processes : proc'[q].pc # "fleet"
  BY <1>1, <1>2, <1>3 DEF SeedInv, OneSeeder
<1>6. \A q \in Processes : proc'[q].pc = "serving" => \E f \in farms : f.tenant = proc'[q].tenant
  BY <1>1, <1>2, <1>3 DEF SeedInv, Seeding
<1>. QED
  BY <1>4, <1>5, <1>6 DEF SeedInv, OneFarm, OneSeeder, Serve, data

LEMMA SeedNext ==
  ASSUME IInv, [Next]_vars
  PROVE  SeedInv'
<1>. USE DEF IInv
<1>1. ASSUME NEW p \in Processes, NEW t \in Tenants, Start(p, t)
      PROVE  SeedInv'
  <2>1. [Down EXCEPT !.pc = "read", !.tenant = t].pc = "read"
    BY DEF Down
  <2>. QED
    BY <1>1, <2>1, OneSeeds DEF Start
<1>2. ASSUME NEW p \in Processes, Lock(p)
      PROVE  SeedInv'
  <2>1. PICK new \in {[proc[p] EXCEPT !.pc = "tables"], Down} : proc' = [proc EXCEPT ![p] = new]
    BY <1>2 DEF Lock, Goto, Exit
  <2>2. new.pc \in {"tables", "down"}
    BY DEF TypeOK, Proc, Down
  <2>. QED
    BY <1>2, <2>1, <2>2, OneSeeds DEF Lock
<1>3. ASSUME NEW p \in Processes,
             ReadVersions(p) \/ CreateTables(p) \/ MarkVersion(p) \/ CommitMigrations(p)
      PROVE  SeedInv'
  <2>1. proc' = [proc EXCEPT ![p] = proc'[p]] /\ proc'[p].pc \in {"list", "lock", "mark", "commit", "tables"}
    BY <1>3 DEF ReadVersions, CreateTables, MarkVersion, CommitMigrations, Goto, TypeOK, Proc
  <2>. QED
    BY <1>3, <2>1, OneSeeds DEF ReadVersions, CreateTables, MarkVersion, CommitMigrations
<1>4. ASSUME NEW p \in Processes, ListFarms(p)
      PROVE  SeedInv'
  <2>. DEFINE found == \E f \in farms : f.tenant = proc[p].tenant
              new   == [proc[p] EXCEPT !.pc = IF found THEN "serving" ELSE "farm"]
  <2>1. proc' = [proc EXCEPT ![p] = new]
    BY <1>4 DEF ListFarms, Goto
  <2>2. new.pc \in {"serving", "farm"} /\ new.tenant = proc[p].tenant /\ (new.pc = "serving" => found)
    BY DEF TypeOK, Proc
  <2>. HIDE DEF new
  <2>. QED
    BY <1>4, <2>1, <2>2, OneSeeds DEF ListFarms
<1>5. ASSUME NEW p \in Processes, Crash(p) \/ LockTimeout(p)
      PROVE  SeedInv'
  <2>1. proc' = [proc EXCEPT ![p] = Down] /\ UNCHANGED data /\ disruptions' # 0
    BY <1>5 DEF Crash, LockTimeout, Exit, Disrupt, TypeOK
  <2>2. Down.pc = "down"
    BY DEF Down
  <2>. QED
    BY <2>1, <2>2, OneSeeds
<1>6. CASE UNCHANGED vars
  BY <1>6 DEF vars, data, SeedInv, OneFarm, OneSeeder, Seeding
<1>. QED
  BY <1>1, <1>2, <1>3, <1>4, <1>5, <1>6, FarmSeeds, FleetSeeds, ServeSeeds, StepCases

-----------------------------------------------------------------------------
LEMMA InitIInv == Init => IInv
<1>1. ASSUME Init
      PROVE  TypeOK
  <2>1. Down.pc = "down"
    BY DEF Down
  <2>. QED
    BY <1>1, <2>1, DownIsProc, StartupAssumption DEF Init, TypeOK
<1>2. ASSUME Init
      PROVE  MigrateInv
  BY <1>2, StartupAssumption DEF Init, MigrateInv, Fresh, Migrating, Down, Starting
<1>3. ASSUME Init
      PROVE  SeedInv
  BY <1>3, FS_EmptySet DEF Init, SeedInv, OneFarm, OneSeeder, Seeding, Down
<1>. QED
  BY <1>1, <1>2, <1>3 DEF IInv

\* The inductive invariant holds of every reachable state.
THEOREM Invariance == Spec => []IInv
<1>1. IInv /\ [Next]_vars => IInv'
  BY TypeNext, MigrateNext, SeedNext DEF IInv
<1>. QED
  BY InitIInv, <1>1, PTL DEF Spec

\* Tables, the write lock and what every process holds have their types, and the lock
\* is held by exactly the process that is between its first statement and its commit.
THEOREM TypeCorrect == Spec => []TypeOK
<1>1. IInv => TypeOK
  BY DEF IInv
<1>. QED
  BY Invariance, <1>1, PTL

\* Database.Migrate records a version exactly when its tables exist, and in order, and
\* no process serves before all do, whatever crashes and whoever migrates beside it.
THEOREM MigrationsAreWhole == Spec => []MigratedWhole
<1>1. IInv => MigratedWhole
  BY DEF IInv, MigrateInv, Migrating, MigratedWhole
<1>. QED
  BY Invariance, <1>1, PTL

\* Bootstrap gives a tenant one farm before it is served, with a complete fleet unless
\* its seeding still runs or was interrupted, however many processes start at once.
THEOREM TenantsAreSeededOnce == Spec => []SeededOnce
<1>1. ASSUME IInv
      PROVE  SeededOnce
  <2>. USE <1>1 DEF IInv
  <2>1. \A f, g \in farms : f = g
    BY DEF SeedInv, OneFarm
  <2>2. ASSUME NEW f \in farms, disruptions = 0,
               \A p \in Processes : ~(proc[p].pc = "fleet" /\ proc[p].tenant = f.tenant)
        PROVE  Seeded(f.tenant) = Turbines + Vessels
    <3>1. ASSUME NEW p \in Processes, proc[p].pc = "fleet"
          PROVE  FALSE
      <4>. DEFINE farm == [id |-> 1, tenant |-> proc[p].tenant]
      <4>1. farm \in farms
        BY <3>1 DEF SeedInv, Seeding
      <4>2. farm = f
        BY <2>1, <4>1
      <4>3. f.tenant = proc[p].tenant
        BY <4>2
      <4>. QED
        BY <2>2, <3>1, <4>3
    <3>2. {v \in fleet : v.tenant = f.tenant} = fleet
      BY <2>1, <2>2 DEF SeedInv
    <3>. QED
      BY <2>2, <3>1, <3>2 DEF SeedInv, Seeded
  <2>3. disruptions > 0 <=> disruptions # 0
    BY StartupAssumption DEF TypeOK
  <2>. QED
    BY <2>1, <2>2, <2>3 DEF SeedInv, SeededOnce
<1>. QED
  BY Invariance, <1>1, PTL

\* Every process numbers its rows from one, so the first farm is the only one the
\* database is ever seeded with: a tenant that starts later is refused.
THEOREM OneFarmEver == Spec => [](\A f, g \in farms : f = g)
<1>1. IInv => \A f, g \in farms : f = g
  BY DEF IInv, SeedInv, OneFarm
<1>. QED
  BY Invariance, <1>1, PTL
=============================================================================
