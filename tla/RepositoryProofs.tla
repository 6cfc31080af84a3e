-------------------------- MODULE RepositoryProofs --------------------------
(***************************************************************************)
(* Theorems about Repository, for any entity, identifiers, tenants and     *)
(* callers.                                                                *)
(*                                                                         *)
(* That no update is lost rests on one fact about versions: a caller that  *)
(* holds the current version of a row holds the row.  It is kept because a *)
(* row is only replaced under that version, by a copy whose version has    *)
(* not fallen and which is unchanged if its version has not risen.         *)
(***************************************************************************)
EXTENDS Repository, TLAPS

\* What a caller holds comes from the row it read: WithStatus never lowers the
\* version, and leaves a value of the same version as it was.
CopyFollowsRead ==
  \A c \in Callers :
    /\ copy[c] # None <=> read[c] # None
    /\ copy[c] # None =>
         /\ copy[c].id = read[c].id
         /\ copy[c].tenant = read[c].tenant
         /\ copy[c].version >= read[c].version
         /\ copy[c].version = read[c].version => copy[c] = read[c]

\* The inductive invariant.
IInv == TypeOK /\ CopyFollowsRead /\ VersionNamesContent

-----------------------------------------------------------------------------
\* No row is the absent value.
LEMMA NoneIsNoRow == None \notin Row
  BY RepositoryAssumption DEF Row, Value, Fields

\* What Validate accepts of a draft is a row.
LEMMA DraftsAreRows == ASSUME NEW v \in Drafts, Validate(Entity, v) PROVE v \in Row
<1>1. v \in Value
  BY DEF Drafts, Value, Fields
<1> QED
  BY <1>1 DEF Row

\* WithStatus makes rows out of rows, of the same identifier and tenant; its
\* version rises by one unless the value stays as it is.
LEMMA WithStatusKeeps ==
  ASSUME NEW v \in Row, NEW s \in Entity.statuses, TransitionAllowed(Entity, v, s)
  PROVE  LET w == WithStatus(v, s)
         IN /\ w \in Row
            /\ w.id = v.id /\ w.tenant = v.tenant
            /\ w = v \/ w.version = v.version + 1
<1>1. CASE v.status = s
  BY <1>1 DEF WithStatus
<1>2. CASE v.status # s
  <2> DEFINE w == [v EXCEPT !.status = s, !.version = @ + 1, !.filled = @ \cup {"UpdatedAt"}]
  <2>1. WithStatus(v, s) = w
    BY <1>2 DEF WithStatus
  <2>2. v \in [id : Ids, tenant : Tenants, status : Entity.statuses, version : Nat,
               filled : SUBSET Fields]
    BY DEF Row, Value
  <2>3. v.filled \cup {"UpdatedAt"} \in SUBSET Fields
    BY <2>2 DEF Fields, Stamps
  <2>4. w \in [id : Ids, tenant : Tenants, status : Entity.statuses, version : Nat,
               filled : SUBSET Fields]
    <3> DEFINE moved == [v EXCEPT !.status = s]
               raised == [moved EXCEPT !.version = v.version + 1]
    <3>1. moved \in [id : Ids, tenant : Tenants, status : Entity.statuses, version : Nat,
                    filled : SUBSET Fields]
      BY <2>2
    <3>2. w = [raised EXCEPT !.filled = v.filled \cup {"UpdatedAt"}]
      BY <2>2
    <3> HIDE DEF moved, w
    <3>3. v.version + 1 \in Nat
      BY <2>2
    <3>4. raised \in [id : Ids, tenant : Tenants, status : Entity.statuses, version : Nat,
                     filled : SUBSET Fields]
      BY <3>1, <3>3
    <3> HIDE DEF raised
    <3> QED
      BY <2>3, <3>2, <3>4
  <2>5. w.id = v.id /\ w.tenant = v.tenant /\ w.version = v.version + 1
    BY <2>2
  <2>6. Validate(Entity, w)
    BY <1>2, <2>1 DEF TransitionAllowed
  <2> QED
    BY <2>1, <2>4, <2>5, <2>6 DEF Row, Value
<1> QED
  BY <1>1, <1>2

-----------------------------------------------------------------------------
\* The statement of Update either leaves the table alone or replaces the row the
\* caller read by the copy it made of it.
LEMMA WriteReplacesWhatWasRead ==
  ASSUME IInv, NEW c \in Callers, copy[c] # None, table' = Written(c)
  PROVE  \/ table' = table
         \/ LET i == read[c].id
            IN /\ i \in Ids
               /\ table[i] = read[c]
               /\ table' = [table EXCEPT ![i] = copy[c]]
               /\ copy[c] \in Row
               /\ read[c] \in Row
<1>1. CASE ~Selects(c)
  BY <1>1 DEF Written
<1>2. CASE Selects(c)
  <2>1. copy[c] \in Row /\ read[c] \in Row
    BY DEF IInv, TypeOK, CopyFollowsRead
  <2>2. copy[c].id = read[c].id /\ read[c].id \in Ids
    BY <2>1 DEF IInv, CopyFollowsRead, Row, Value
  <2>3. table[read[c].id] = read[c]
    BY <1>2, <2>2, NoneIsNoRow, <2>1 DEF IInv, VersionNamesContent, Selects
  <2> QED
    BY <1>2, <2>1, <2>2, <2>3 DEF Written
<1> QED
  BY <1>1, <1>2

\* It leaves every row under its own identifier.
LEMMA WriteKeepsKeys ==
  ASSUME IInv, NEW c \in Callers, copy[c] # None, table' = Written(c), NEW i \in Ids,
         table'[i] # None
  PROVE  table'[i].id = i
<1>1. CASE table' = table
  BY <1>1 DEF IInv, TypeOK
<1>2. CASE table' # table
  <2>1. /\ read[c].id \in Ids
        /\ table' = [table EXCEPT ![read[c].id] = copy[c]]
        /\ copy[c].id = read[c].id
    BY <1>2, WriteReplacesWhatWasRead DEF IInv, CopyFollowsRead
  <2> QED
    BY <2>1 DEF IInv, TypeOK
<1> QED
  BY <1>1, <1>2

\* Such a statement keeps the rows typed and keeps versions naming contents, for
\* every caller that goes on holding what it read.
LEMMA WriteKeeps ==
  ASSUME IInv, NEW c \in Callers, copy[c] # None, table' = Written(c)
  PROVE  /\ table' \in [Ids -> Row \cup {None}]
         /\ \A d \in Callers :
              read[d] # None =>
                LET row == table'[read[d].id]
                IN /\ row # None
                   /\ read[d].version <= row.version
                   /\ read[d].version = row.version => read[d] = row
<1>1. CASE table' = table
  BY <1>1 DEF IInv, TypeOK, VersionNamesContent
<1>2. CASE table' # table
  <2> DEFINE i == read[c].id
  <2>1. /\ i \in Ids /\ table[i] = read[c]
        /\ table' = [table EXCEPT ![i] = copy[c]]
        /\ copy[c] \in Row /\ read[c] \in Row
    BY <1>2, WriteReplacesWhatWasRead
  <2>2. table' \in [Ids -> Row \cup {None}]
    BY <2>1 DEF IInv, TypeOK
  <2>3. ASSUME NEW d \in Callers, read[d] # None
        PROVE  LET row == table'[read[d].id]
               IN /\ row # None
                  /\ read[d].version <= row.version
                  /\ read[d].version = row.version => read[d] = row
    <3>1. read[d] \in Row /\ read[d].id \in Ids /\ read[d].version \in Nat
      BY <2>3 DEF IInv, TypeOK, Row, Value
    <3>2. CASE read[d].id # i
      BY <3>1, <3>2, <2>1, <2>3 DEF IInv, TypeOK, VersionNamesContent
    <3>3. CASE read[d].id = i
      <4>1. table'[i] = copy[c]
        BY <2>1 DEF IInv, TypeOK
      <4>2. read[d].version <= read[c].version
        BY <3>3, <2>1, <2>3 DEF IInv, VersionNamesContent
      <4>3. /\ copy[c].version \in Nat /\ read[c].version \in Nat
            /\ copy[c].version >= read[c].version
            /\ copy[c].version = read[c].version => copy[c] = read[c]
        BY <2>1 DEF IInv, CopyFollowsRead, Row, Value
      <4>4. read[d].version = read[c].version => read[d] = read[c]
        BY <3>3, <2>1, <2>3 DEF IInv, VersionNamesContent
      <4>5. copy[c] # None
        BY <2>1, NoneIsNoRow
      <4> QED
        BY <3>1, <3>3, <4>1, <4>2, <4>3, <4>4, <4>5
    <3> QED
      BY <3>2, <3>3
  <2> QED
    BY <2>2, <2>3
<1> QED
  BY <1>1, <1>2

-----------------------------------------------------------------------------
\* The invariant holds of an empty table.
LEMMA InitIInv == Init => IInv
  BY RepositoryAssumption DEF Init, IInv, TypeOK, CopyFollowsRead, VersionNamesContent

\* Every step keeps the invariant.
LEMMA NextIInv == IInv /\ [Next]_vars => IInv'
<1> SUFFICES ASSUME IInv, [Next]_vars PROVE IInv'
  OBVIOUS
<1> USE NoneIsNoRow
<1>1. ASSUME NEW v \in Drafts, Create(v) PROVE IInv'
  <2>1. v \in Row /\ v.id \in Ids
    BY <1>1, DraftsAreRows DEF Create, Row, Value
  <2>2. TypeOK'
    BY <1>1, <2>1 DEF Create, callers, IInv, TypeOK
  <2>3. CopyFollowsRead'
    BY <1>1 DEF Create, callers, IInv, CopyFollowsRead
  <2>4. VersionNamesContent'
    <3> SUFFICES ASSUME NEW d \in Callers, read[d] # None
                 PROVE  read[d].id \in Ids /\ table'[read[d].id] = table[read[d].id]
      BY <1>1 DEF Create, callers, IInv, VersionNamesContent
    <3>1. read[d].id \in Ids
      BY DEF IInv, TypeOK, Row, Value
    <3>2. read[d].id # v.id
      BY <1>1, <2>1 DEF Create, IInv, VersionNamesContent
    <3> QED
      BY <1>1, <2>1, <3>1, <3>2 DEF Create, IInv, TypeOK
  <2> QED
    BY <2>2, <2>3, <2>4 DEF IInv
<1>2. ASSUME NEW c \in Callers, NEW t \in Tenants, NEW i \in Ids, Get(c, t, i) PROVE IInv'
  <2>1. table[i] \in Row /\ table[i] # None /\ table[i].id = i
    BY <1>2 DEF Get, IInv, TypeOK
  <2>2. table[i].version \in Nat
    BY <2>1 DEF Row, Value
  <2>3. TypeOK'
    BY <1>2, <2>1 DEF Get, IInv, TypeOK
  <2>4. CopyFollowsRead'
    BY <1>2, <2>1, <2>2 DEF Get, IInv, TypeOK, CopyFollowsRead
  <2>5. VersionNamesContent'
    BY <1>2, <2>1, <2>2 DEF Get, IInv, TypeOK, VersionNamesContent
  <2> QED
    BY <2>3, <2>4, <2>5 DEF IInv
<1>3. ASSUME NEW c \in Callers, NEW s \in Entity.statuses, Transition(c, s) PROVE IInv'
  <2> DEFINE w == WithStatus(copy[c], s)
  <2>1. copy[c] \in Row /\ read[c] \in Row /\ read[c] # None
    BY <1>3 DEF Transition, IInv, TypeOK, CopyFollowsRead
  <2>2. /\ w \in Row
        /\ w.id = copy[c].id /\ w.tenant = copy[c].tenant
        /\ w = copy[c] \/ w.version = copy[c].version + 1
    BY <1>3, <2>1, WithStatusKeeps DEF Transition
  <2>3. copy[c].version \in Nat /\ read[c].version \in Nat
    BY <2>1 DEF Row, Value
  <2>4. copy' = [copy EXCEPT ![c] = w] /\ UNCHANGED <<table, read, disruptions>>
    BY <1>3 DEF Transition
  <2> HIDE DEF w
  <2>5. TypeOK'
    BY <2>2, <2>4 DEF IInv, TypeOK
  <2>6. CopyFollowsRead'
    BY <2>1, <2>2, <2>3, <2>4 DEF IInv, TypeOK, CopyFollowsRead
  <2>7. VersionNamesContent'
    BY <2>4 DEF IInv, VersionNamesContent
  <2> QED
    BY <2>5, <2>6, <2>7 DEF IInv
<1>4. ASSUME NEW c \in Callers, Update(c) PROVE IInv'
  <2>1. TypeOK'
    BY <1>4, WriteKeeps, WriteKeepsKeys DEF Update, IInv, TypeOK
  <2>2. CopyFollowsRead'
    BY <1>4 DEF Update, IInv, TypeOK, CopyFollowsRead
  <2>3. VersionNamesContent'
    BY <1>4, WriteKeeps DEF Update, IInv, TypeOK, VersionNamesContent
  <2> QED
    BY <2>1, <2>2, <2>3 DEF IInv
<1>5. ASSUME NEW c \in Callers, AnswerLost(c) PROVE IInv'
  <2>1. TypeOK'
    BY <1>5, WriteKeeps, WriteKeepsKeys, RepositoryAssumption DEF AnswerLost, callers, IInv, TypeOK
  <2>2. CopyFollowsRead'
    BY <1>5 DEF AnswerLost, callers, IInv, CopyFollowsRead
  <2>3. VersionNamesContent'
    BY <1>5, WriteKeeps DEF AnswerLost, callers, VersionNamesContent
  <2> QED
    BY <2>1, <2>2, <2>3 DEF IInv
<1>6. ASSUME NEW c \in Callers, Abandon(c) PROVE IInv'
  BY <1>6 DEF Abandon, IInv, TypeOK, CopyFollowsRead, VersionNamesContent
<1>7. CASE UNCHANGED vars
  BY <1>7 DEF vars, IInv, TypeOK, CopyFollowsRead, VersionNamesContent
<1> QED
  BY <1>1, <1>2, <1>3, <1>4, <1>5, <1>6, <1>7 DEF Next

-----------------------------------------------------------------------------
\* Every behaviour satisfies the inductive invariant.
THEOREM Inductive == Spec => []IInv
  BY InitIInv, NextIInv, PTL DEF Spec

\* The state stays typed and every stored row is one Validate accepts, whatever
\* callers create and however they race.
THEOREM TypeCorrect == Spec => []TypeOK
<1>1. IInv => TypeOK
  BY DEF IInv
<1> QED
  BY <1>1, Inductive, PTL

\* The optimistic version is enough to know a row by: a caller that holds the
\* current version of a row holds the row.
THEOREM VersionsNameContents == Spec => []VersionNamesContent
<1>1. IInv => VersionNamesContent
  BY DEF IInv
<1> QED
  BY <1>1, Inductive, PTL

\* A step that changes a stored row is the write-back of a caller that read that
\* very row; it leaves the tenant alone and raises the version.
LEMMA ChangesAreWriteBacks ==
  ASSUME IInv, [Next]_vars, NEW i \in Ids, table[i] # None, table'[i] # table[i]
  PROVE  \E c \in Callers :
           /\ read[c] = table[i] /\ copy[c] = table'[i]
           /\ copy[c] # None
           /\ copy[c].tenant = read[c].tenant
           /\ copy[c].version > read[c].version
<1>1. ASSUME NEW v \in Drafts, Create(v) PROVE FALSE
  <2>1. v.id \in Ids
    BY <1>1, DraftsAreRows DEF Create, Row, Value
  <2> QED
    BY <1>1, <2>1 DEF Create, IInv, TypeOK
<1>2. ASSUME NEW c \in Callers, Update(c) \/ AnswerLost(c)
      PROVE  /\ read[c] = table[i] /\ copy[c] = table'[i]
             /\ copy[c] # None
             /\ copy[c].tenant = read[c].tenant
             /\ copy[c].version > read[c].version
  <2>1. copy[c] # None /\ table' = Written(c)
    BY <1>2 DEF Update, AnswerLost
  <2>2. /\ read[c].id \in Ids
        /\ table[read[c].id] = read[c]
        /\ table' = [table EXCEPT ![read[c].id] = copy[c]]
        /\ copy[c] \in Row /\ read[c] \in Row
    BY <2>1, WriteReplacesWhatWasRead
  <2>3. i = read[c].id /\ table'[i] = copy[c] /\ copy[c] # read[c]
    BY <2>2 DEF IInv, TypeOK
  <2>4. /\ copy[c].version \in Nat /\ read[c].version \in Nat
        /\ copy[c].tenant = read[c].tenant
        /\ copy[c].version >= read[c].version
        /\ copy[c].version # read[c].version
    BY <2>1, <2>2, <2>3 DEF IInv, CopyFollowsRead, Row, Value
  <2> QED
    BY <2>1, <2>2, <2>3, <2>4
<1>3. ASSUME UNCHANGED table PROVE FALSE
  BY <1>3
<1> QED
  BY <1>1, <1>2, <1>3 DEF Next, vars, Get, Transition, Abandon

\* No update of a row is lost, for any number of callers: what replaces a row was
\* made out of that row, has its tenant and a higher version.
THEOREM NothingLost == Spec => NoLostUpdate
<1>1. IInv /\ [Next]_vars =>
        [\A i \in Ids :
           table[i] # None /\ table'[i] # table[i] =>
             /\ \E c \in Callers : read[c] = table[i] /\ copy[c] = table'[i]
             /\ table'[i] # None
             /\ table'[i].tenant = table[i].tenant
             /\ table'[i].version > table[i].version]_vars
  BY ChangesAreWriteBacks
<1> QED
  BY <1>1, Inductive, PTL DEF Spec, NoLostUpdate
=============================================================================
