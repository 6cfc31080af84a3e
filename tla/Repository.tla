----------------------------- MODULE Repository -----------------------------
(***************************************************************************)
(* The repositories of internal/store: one table of one entity, written    *)
(* with optimistic versions.  The fifteen repositories differ in names     *)
(* only; this module follows permit_repository.go.                         *)
(*                                                                         *)
(* A caller creates values, or gets one, changes its status with           *)
(* WithStatus and writes it back under the version it read.  Callers run   *)
(* concurrently, in one process or in several; every SQL statement is one  *)
(* step.  Lists are in module Listing.                                     *)
(***************************************************************************)
EXTENDS Entities

CONSTANTS
  Entity,          \* the entity of the table
  Ids,             \* identifiers
  Tenants,         \* tenants
  Callers,         \* concurrent users of the repository
  None,            \* no value
  MaxVersion,      \* bound on versions callers make
  MaxDisruptions   \* bound on answers that are lost

ASSUME RepositoryAssumption ==
  /\ Entity.statuses # {}
  /\ None \notin [id : Ids, tenant : Tenants, status : Entity.statuses, version : Nat,
                  filled : SUBSET (Entity.required \cup Stamps)]
  /\ MaxVersion \in Nat \ {0} /\ MaxDisruptions \in Nat

VARIABLES
  table,        \* the row of each identifier, or None
  copy,         \* the value each caller holds, or None
  read,         \* the row that value was read from: its version is expectedVersion
  disruptions   \* history: answers lost so far

callers == <<copy, read>>
vars    == <<table, copy, read, disruptions>>

-----------------------------------------------------------------------------
Fields == Entity.required \cup Stamps

Value == [id : Ids, tenant : Tenants, status : Entity.statuses, version : Nat,
          filled : SUBSET Fields]

Row == {v \in Value : Validate(Entity, v)}

\* What callers create: version 1, everything filled in or one field left blank.
Drafts == {[id |-> i, tenant |-> t, status |-> s, version |-> 1, filled |-> Fields \ blank] :
             i \in Ids, t \in Tenants, s \in Entity.statuses,
             blank \in {{}, {CHOOSE f \in Fields : f \notin Identity}}}

Init ==
  /\ table = [i \in Ids |-> None]
  /\ copy = [c \in Callers |-> None]
  /\ read = [c \in Callers |-> None]
  /\ disruptions = 0

-----------------------------------------------------------------------------
\* Create refuses an invalid value, and an identifier that any tenant uses.
CreateUnvalidated(v) ==
  /\ table[v.id] = None
  /\ table' = [table EXCEPT ![v.id] = v]
  /\ UNCHANGED <<callers, disruptions>>
Create(v) ==
  /\ Validate(Entity, v)
  /\ table[v.id] = None
  /\ table' = [table EXCEPT ![v.id] = v]
  /\ UNCHANGED <<callers, disruptions>>

\* Get finds nothing under another tenant.
Get(c, t, i) ==
  /\ copy[c] = None
  /\ table[i] # None
  /\ table[i].tenant = t
  /\ copy' = [copy EXCEPT ![c] = table[i]]
  /\ read' = [read EXCEPT ![c] = table[i]]
  /\ UNCHANGED <<table, disruptions>>

Transition(c, s) ==
  /\ copy[c] # None
  /\ copy[c].version < MaxVersion
  /\ TransitionAllowed(Entity, copy[c], s)
  /\ copy' = [copy EXCEPT ![c] = WithStatus(@, s)]
  /\ UNCHANGED <<table, read, disruptions>>

\* The row the WHERE clause of Update selects is there.
SelectsAny(c) == table[copy[c].id] # None
Selects(c) ==
  LET row == table[copy[c].id]
  IN row # None /\ row.tenant = copy[c].tenant /\ row.version = read[c].version

Written(c) == IF Selects(c) THEN [table EXCEPT ![copy[c].id] = copy[c]] ELSE table

\* Update writes or reports a conflict; either way the caller is done.
Update(c) ==
  /\ copy[c] # None
  /\ Validate(Entity, copy[c])
  /\ table' = Written(c)
  /\ copy' = [copy EXCEPT ![c] = None]
  /\ read' = [read EXCEPT ![c] = None]
  /\ UNCHANGED disruptions

\* The statement was executed but the caller sees an error, and may try again.
AnswerLost(c) ==
  /\ copy[c] # None
  /\ Validate(Entity, copy[c])
  /\ disruptions < MaxDisruptions
  /\ disruptions' = disruptions + 1
  /\ table' = Written(c)
  /\ UNCHANGED callers

\* A caller gives up, or dies with its process.
Abandon(c) ==
  /\ copy[c] # None
  /\ copy' = [copy EXCEPT ![c] = None]
  /\ read' = [read EXCEPT ![c] = None]
  /\ UNCHANGED <<table, disruptions>>

Next ==
  \/ \E v \in Drafts : Create(v)
  \/ \E c \in Callers :
       \/ \E t \in Tenants, i \in Ids : Get(c, t, i)
       \/ \E s \in Entity.statuses : Transition(c, s)
       \/ Update(c) \/ AnswerLost(c) \/ Abandon(c)

Spec == Init /\ [][Next]_vars

-----------------------------------------------------------------------------
\* The types of the state; every stored row has its key and is one its entity's
\* Validate accepts.
TypeOK ==
  /\ table \in [Ids -> Row \cup {None}]
  /\ \A i \in Ids : table[i] # None => table[i].id = i
  /\ copy \in [Callers -> Row \cup {None}]
  /\ read \in [Callers -> Row \cup {None}]
  /\ disruptions \in 0..MaxDisruptions

\* A version names one content: a caller that holds the version a row has now
\* holds that very row, whatever other callers wrote and whichever of them retried.
VersionNamesContent ==
  \A c \in Callers :
    read[c] # None =>
      LET row == table[read[c].id]
      IN /\ row # None
         /\ read[c].version <= row.version
         /\ read[c].version = row.version => read[c] = row

\* No update is lost: a row is only ever replaced by a value a caller made out of
\* that same row, never by one made out of an earlier state of it; so it is not
\* removed, stays with its tenant, and its version rises whenever it changes.
NoLostUpdate ==
  [][\A i \in Ids :
       table[i] # None /\ table'[i] # table[i] =>
         /\ \E c \in Callers : read[c] = table[i] /\ copy[c] = table'[i]
         /\ table'[i] # None
         /\ table'[i].tenant = table[i].tenant
         /\ table'[i].version > table[i].version]_vars
=============================================================================
