------------------------------ MODULE Listing ------------------------------
(***************************************************************************)
(* List of the repositories of internal/store, after                       *)
(* dispatch_repository.go: one page of the rows of a tenant, with the      *)
(* number of rows there are.  Count and page are read by two statements    *)
(* outside a transaction, and pages by separate calls, so other callers    *)
(* insert and update rows in between.                                      *)
(*                                                                         *)
(* A reader walks the pages of one request by their offsets and stops at   *)
(* a page that is not full.  The reader is not part of the code: it is     *)
(* what Limit, Offset and Sort are for.                                    *)
(***************************************************************************)
EXTENDS Integers, FiniteSets, Sequences, SequencesExt

CONSTANTS
  Ids,           \* identifiers: numbers, in the order of the identifiers
  Tenants,
  Statuses,
  Times,         \* time stamps: numbers, in the order of their stored text
  AnyStatus,           \* no status filter
  None,          \* no row
  Requests,      \* what the reader asks for
  DefaultLimit,  \* 50
  MaxLimit,      \* 200
  MaxChanges     \* bound on updates

Row == [tenant : Tenants, status : Statuses, created : Times, updated : Times]

ASSUME ListingAssumption ==
  /\ Ids \subseteq Nat /\ IsFiniteSet(Ids) /\ Times \subseteq Nat
  /\ AnyStatus \notin Statuses /\ None \notin Row
  /\ MaxLimit \in Nat /\ DefaultLimit \in 1..MaxLimit /\ MaxChanges \in Nat
  /\ Requests \subseteq [tenant : Tenants, status : Statuses \cup {AnyStatus}, limit : Int,
                         offset : Int, sort : STRING, desc : BOOLEAN]

VARIABLES
  table,    \* the row of each identifier, or None
  request,  \* the request of the walk, at the offset of the current page
  stage,    \* where the walk is
  total,    \* the count of the current page
  items,    \* the identifiers on the current page
  writes,   \* history: rows written between that count and its page
  start,    \* history: the rows that matched the request when the walk began
  seen,     \* history: the rows on the pages so far
  changes   \* history: updates so far

reader == <<request, stage, total, items, start, seen>>
vars   == <<table, writes, changes, reader>>

-----------------------------------------------------------------------------
\* Normalize fills in the defaults; what it refuses is no request.
Accepted(r) ==
  /\ r.limit \in 0..MaxLimit
  /\ r.offset \in Nat
  /\ r.sort \in {"", "updated_at", "created_at", "id"}
NormalizeSort(r) ==
  [r EXCEPT !.sort  = IF @ = "" THEN "updated_at" ELSE @]
Normalize(r) ==
  [r EXCEPT !.limit = IF @ = 0 THEN DefaultLimit ELSE @,
            !.sort  = IF @ = "" THEN "updated_at" ELSE @]

\* The WHERE clause of both statements.
MatchesIgnoringStatus(r, i) ==
  table[i] # None /\ table[i].tenant = r.tenant
Matches(r, i) ==
  /\ table[i] # None
  /\ table[i].tenant = r.tenant
  /\ r.status \in {AnyStatus, table[i].status}
Matching(r) == {i \in Ids : Matches(r, i)}

CountOfTenant(r) == Cardinality({i \in Ids : MatchesIgnoringStatus(r, i)})
CountRows(r) == Cardinality(Matching(r))

\* ORDER BY the sort field in the direction asked for, then by identifier.
KeyByDefault(r, i) == table[i].updated
Key(r, i) ==
  CASE r.sort = "id"         -> i
    [] r.sort = "created_at" -> table[i].created
    [] r.sort = "updated_at" -> table[i].updated
Before(r, i, j) ==
  LET a == Key(r, i)  b == Key(r, j)
  IN IF a = b THEN i < j ELSE (a > b) = r.desc

\* The rows in that order: a row stands behind those that come before it.
Position(r, i) == Cardinality({j \in Matching(r) : Before(r, j, i)}) + 1
Ordered(r) ==
  [k \in 1..Cardinality(Matching(r)) |-> CHOOSE i \in Matching(r) : Position(r, i) = k]

\* LIMIT and OFFSET.
Smaller(a, b) == IF a < b THEN a ELSE b
Page(r) == SubSeq(Ordered(r), r.offset + 1, Smaller(r.offset + r.limit, Cardinality(Matching(r))))

-----------------------------------------------------------------------------
Init ==
  /\ table = [i \in Ids |-> None]
  /\ request \in {Normalize([r EXCEPT !.offset = 0]) : r \in {q \in Requests : Accepted(q)}}
  /\ stage = "idle" /\ total = 0 /\ items = <<>>
  /\ writes = 0 /\ start = {} /\ seen = {} /\ changes = 0

\* A row is written, by another caller.
Written == writes' = IF stage = "counted" THEN writes + 1 ELSE writes

Create(i, t, s, now) ==
  /\ table[i] = None
  /\ table' = [table EXCEPT ![i] = [tenant |-> t, status |-> s, created |-> now, updated |-> now]]
  /\ Written
  /\ UNCHANGED <<changes, reader>>

Update(i, s, now) ==
  /\ table[i] # None
  /\ table[i].status # s
  /\ changes < MaxChanges
  /\ changes' = changes + 1
  /\ table' = [table EXCEPT ![i].status = s, ![i].updated = now]
  /\ Written
  /\ UNCHANGED reader

\* The reader asks for the first page.
Begin ==
  /\ stage = "idle"
  /\ stage' = "asked"
  /\ start' = Matching(request)
  /\ UNCHANGED <<table, writes, changes, request, total, items, seen>>

\* List counts, then selects.
Count ==
  /\ stage = "asked"
  /\ stage' = "counted"
  /\ total' = CountRows(request)
  /\ writes' = 0
  /\ UNCHANGED <<table, changes, request, items, start, seen>>

Select ==
  /\ stage = "counted"
  /\ stage' = "answered"
  /\ items' = Page(request)
  /\ seen' = seen \cup ToSet(items')
  /\ UNCHANGED <<table, writes, changes, request, total, start>>

\* The reader asks for the next page while pages are full.
Continue ==
  /\ stage = "answered"
  /\ IF Len(items) = request.limit
       THEN /\ request' = [request EXCEPT !.offset = @ + request.limit]
            /\ stage' = "asked"
       ELSE UNCHANGED request /\ stage' = "done"
  /\ items' = <<>> /\ total' = 0 /\ writes' = 0
  /\ UNCHANGED <<table, changes, start, seen>>

Next ==
  \/ \E i \in Ids, s \in Statuses, now \in Times :
       Update(i, s, now) \/ \E t \in Tenants : Create(i, t, s, now)
  \/ Begin \/ Count \/ Select \/ Continue

Spec == Init /\ [][Next]_vars

-----------------------------------------------------------------------------
\* The types of the state; a page never exceeds the limit of its request.
TypeOK ==
  /\ table \in [Ids -> Row \cup {None}]
  /\ request \in [tenant : Tenants, status : Statuses \cup {AnyStatus}, limit : 1..MaxLimit,
                  offset : 0..Cardinality(Ids), sort : {"updated_at", "created_at", "id"},
                  desc : BOOLEAN]
  /\ stage \in {"idle", "asked", "counted", "answered", "done"}
  /\ total \in 0..Cardinality(Ids)
  /\ items \in SeqOf(Ids, request.limit)
  /\ writes \in Nat /\ changes \in 0..MaxChanges
  /\ start \subseteq Ids /\ seen \subseteq Ids

\* Count and page of an answer come from two statements, and rows are written in
\* between.  The page is as long as some number of rows says that differs from the
\* count by no more than the rows written: exactly the count when nobody wrote.
LeftOf(n) == Smaller(request.limit, IF n > request.offset THEN n - request.offset ELSE 0)
PageMatchesTotal ==
  stage = "answered" => \E n \in (total - writes)..(total + writes) : Len(items) = LeftOf(n)

\* A walk over all statuses, in the order of a field no update changes, shows every
\* row that was there when it began, whatever is created and updated meanwhile.
WalkMissesNothing ==
  stage = "done" /\ request.status = AnyStatus /\ request.sort # "updated_at" => start \subseteq seen
=============================================================================
