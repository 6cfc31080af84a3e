--------------------------- MODULE ListingProofs ---------------------------
(***************************************************************************)
(* Proofs about Listing, for any table, requests, limits and number of     *)
(* updates: types, a page that fits its count, and a walk over the pages   *)
(* that misses no row.                                                     *)
(*                                                                         *)
(* The argument goes over the position of a row in the order of the query: *)
(* in the order of a field no update changes, other callers can only move  *)
(* a row back, so one that was not shown yet is still behind the offset.   *)
(***************************************************************************)
EXTENDS Listing, FiniteSetTheorems, SequenceTheorems, TLAPS

Listed == Cardinality(Matching(request))

\* The count is no further from what the page will find than rows were written, and a
\* full page ends inside the table.
PageInv ==
  /\ stage = "counted" => total <= Listed + writes /\ Listed <= total + writes
  /\ PageMatchesTotal
  /\ stage = "answered" /\ Len(items) = request.limit =>
       request.offset + request.limit <= Cardinality(Ids)

\* How far a walk over all statuses in a fixed order has come: what it has not shown
\* of the rows it started with is behind the offset, or behind the page just shown.
InFixedOrder == request.status = AnyStatus /\ request.sort # "updated_at"
Behind(n) == \A i \in start \ seen : Position(request, i) > n
WalkInv ==
  /\ stage = "idle" => request.offset = 0
  /\ InFixedOrder =>
       /\ \A i \in start : Matches(request, i)
       /\ stage \in {"asked", "counted"} => Behind(request.offset)
       /\ stage = "answered" =>
            IF Len(items) = request.limit THEN Behind(request.offset + request.limit)
                                          ELSE start \subseteq seen
       /\ stage = "done" => start \subseteq seen

\* The inductive invariant.
IInv == TypeOK /\ PageInv /\ WalkInv

-----------------------------------------------------------------------------
\* The requests the reader can hold.
Asked ==
  [tenant : Tenants, status : Statuses \cup {AnyStatus}, limit : 1..MaxLimit,
   offset : 0..Cardinality(Ids), sort : {"updated_at", "created_at", "id"}, desc : BOOLEAN]

\* A row that is there has the fields of a row.
LEMMA RowFields ==
  ASSUME TypeOK, NEW i \in Ids, table[i] # None
  PROVE  /\ table[i] \in Row
         /\ table[i].tenant \in Tenants /\ table[i].status \in Statuses
         /\ table[i].created \in Nat /\ table[i].updated \in Nat
<1>1. table[i] \in Row
  BY DEF TypeOK
<1>. QED
  BY <1>1, ListingAssumption DEF Row

\* The rows of a page and of a count are a finite part of the table.
LEMMA MatchingFinite ==
  ASSUME NEW r
  PROVE  /\ Matching(r) \subseteq Ids /\ IsFiniteSet(Matching(r))
         /\ Cardinality(Matching(r)) \in Nat /\ Cardinality(Ids) \in Nat
         /\ Cardinality(Matching(r)) <= Cardinality(Ids)
<1>1. Matching(r) \subseteq Ids
  BY DEF Matching
<1>. QED
  BY <1>1, ListingAssumption, FS_Subset, FS_CardinalityType

\* The rows are sorted by numbers.
LEMMA KeyIsNat ==
  ASSUME TypeOK, NEW r \in Asked, NEW i \in Matching(r)
  PROVE  Key(r, i) \in Nat
<1>1. i \in Ids /\ table[i] # None
  BY DEF Matching, Matches
<1>2. r.sort \in {"updated_at", "created_at", "id"}
  BY DEF Asked
<1>3. i \in Nat
  BY <1>1, ListingAssumption
<1>. QED
  BY <1>1, <1>2, <1>3, RowFields DEF Key

\* Pairs of a number and an identifier in lexicographic order, rising or falling.
LEMMA Lexicographic ==
  ASSUME NEW a \in Nat, NEW b \in Nat, NEW c \in Nat, NEW i \in Nat, NEW j \in Nat, NEW k \in Nat
  PROVE  /\ (IF a = b THEN i < j ELSE a > b) /\ (IF b = c THEN j < k ELSE b > c)
              => IF a = c THEN i < k ELSE a > c
         /\ (IF a = b THEN i < j ELSE a < b) /\ (IF b = c THEN j < k ELSE b < c)
              => IF a = c THEN i < k ELSE a < c
  OBVIOUS

\* ORDER BY puts the rows in a strict total order: no row comes before itself, and
\* two rows with the same key stand in the order of their identifiers.
LEMMA StrictOrder ==
  ASSUME TypeOK, NEW r \in Asked
  PROVE  /\ \A i \in Matching(r) : ~ Before(r, i, i)
         /\ \A i, j \in Matching(r) : i # j => Before(r, i, j) \/ Before(r, j, i)
         /\ \A i, j, k \in Matching(r) :
              Before(r, i, j) /\ Before(r, j, k) => Before(r, i, k)
<1>. DEFINE M == Matching(r)
            K(i) == Key(r, i)
<1>1. \A i \in M : i \in Nat /\ K(i) \in Nat
  BY KeyIsNat, ListingAssumption DEF Matching
<1>2. r.desc \in BOOLEAN
  BY DEF Asked
<1>3. \A i, j : Before(r, i, j) <=> IF K(i) = K(j) THEN i < j ELSE (K(i) > K(j)) = r.desc
  BY DEF Before
<1>. HIDE DEF M, K
<1>4. CASE r.desc = TRUE
  <2>1. \A i, j \in M : Before(r, i, j) <=> IF K(i) = K(j) THEN i < j ELSE K(i) > K(j)
    BY <1>1, <1>3, <1>4
  <2>2. \A i, j, k \in M : Before(r, i, j) /\ Before(r, j, k) => Before(r, i, k)
    BY <1>1, <2>1, Lexicographic
  <2>3. \A i \in M : ~ Before(r, i, i)
    BY <1>1, <2>1
  <2>4. \A i, j \in M : i # j => Before(r, i, j) \/ Before(r, j, i)
    BY <1>1, <2>1
  <2>. QED
    BY <2>2, <2>3, <2>4 DEF M
<1>5. CASE r.desc = FALSE
  <2>1. \A i, j \in M : Before(r, i, j) <=> IF K(i) = K(j) THEN i < j ELSE K(i) < K(j)
    <3>. SUFFICES ASSUME NEW i \in M, NEW j \in M
                  PROVE  Before(r, i, j) <=> IF K(i) = K(j) THEN i < j ELSE K(i) < K(j)
      OBVIOUS
    <3>1. ((K(i) > K(j)) = FALSE) <=> ~ (K(i) > K(j))
      OBVIOUS
    <3>2. Before(r, i, j) <=> IF K(i) = K(j) THEN i < j ELSE ~ (K(i) > K(j))
      BY <1>3, <1>5, <3>1, Zenon
    <3>. QED
      BY <1>1, <3>2
  <2>2. \A i, j, k \in M : Before(r, i, j) /\ Before(r, j, k) => Before(r, i, k)
    BY <1>1, <2>1, Lexicographic
  <2>3. \A i \in M : ~ Before(r, i, i)
    BY <1>1, <2>1
  <2>4. \A i, j \in M : i # j => Before(r, i, j) \/ Before(r, j, i)
    BY <1>1, <2>1
  <2>. QED
    BY <2>2, <2>3, <2>4 DEF M
<1>. QED
  BY <1>2, <1>4, <1>5

\* A row that comes later has the higher position, and every position from the first
\* to the last is the one of a row.
LEMMA Positions ==
  ASSUME TypeOK, NEW r \in Asked
  PROVE  /\ \A i \in Matching(r) : Position(r, i) \in 1..Cardinality(Matching(r))
         /\ \A i, j \in Matching(r) : Position(r, i) = Position(r, j) => i = j
         /\ \A k \in 1..Cardinality(Matching(r)) : \E i \in Matching(r) : Position(r, i) = k
<1>. DEFINE M == Matching(r)
            n == Cardinality(M)
            A(i) == {j \in M : Before(r, j, i)}
            pos == [i \in M |-> Cardinality(A(i)) + 1]
<1>1. IsFiniteSet(M) /\ n \in Nat
  BY MatchingFinite
<1>2. /\ \A i \in M : ~ Before(r, i, i)
      /\ \A i, j \in M : i # j => Before(r, i, j) \/ Before(r, j, i)
      /\ \A i, j, k \in M : Before(r, i, j) /\ Before(r, j, k) => Before(r, i, k)
  BY StrictOrder
<1>3. \A i : Position(r, i) = Cardinality(A(i)) + 1
  BY DEF Position
<1>4. \A i : A(i) \subseteq M
  OBVIOUS
<1>5. \A i, j \in M : Before(r, i, j) => A(i) \cup {i} \subseteq A(j)
  BY <1>2
<1>6. \A i \in M : i \notin A(i)
  BY <1>2
<1>. HIDE DEF M, A
<1>7. \A i : IsFiniteSet(A(i)) /\ Cardinality(A(i)) \in Nat
  BY <1>1, <1>4, FS_Subset, FS_CardinalityType
<1>8. \A i \in M : /\ IsFiniteSet(A(i) \cup {i})
                   /\ Cardinality(A(i) \cup {i}) = Cardinality(A(i)) + 1
  BY <1>6, <1>7, FS_AddElement
<1>9. \A i \in M : A(i) \cup {i} \subseteq M
  BY <1>4
<1>10. \A i \in M : Cardinality(A(i)) + 1 <= n
  <2>. SUFFICES ASSUME NEW i \in M
                PROVE  Cardinality(A(i)) + 1 <= n
    OBVIOUS
  <2>1. Cardinality(A(i) \cup {i}) <= Cardinality(M)
    BY <1>1, <1>9, FS_Subset
  <2>. QED
    BY <1>8, <2>1
<1>11. \A i, j \in M : Before(r, i, j) => Cardinality(A(i)) + 1 <= Cardinality(A(j))
  BY <1>5, <1>7, <1>8, FS_Subset
<1>12. \A i \in M : pos[i] \in 1..n
  BY <1>1, <1>7, <1>10
<1>13. \A i, j \in M : pos[i] = pos[j] => i = j
  <2>. SUFFICES ASSUME NEW i \in M, NEW j \in M, i # j
                PROVE  pos[i] # pos[j]
    OBVIOUS
  <2>1. Cardinality(A(i)) # Cardinality(A(j))
    BY <1>2, <1>7, <1>11
  <2>. QED
    BY <2>1, <1>7
<1>. HIDE DEF n, pos
<1>14. pos \in Injection(M, 1..n)
  <2>1. pos \in [M -> 1..n]
    BY <1>12 DEF pos
  <2>. QED
    BY <2>1, <1>13 DEF Injection, IsInjective
<1>15. IsFiniteSet(1..n) /\ Cardinality(1..n) = n
  BY <1>1, FS_Interval
<1>16. pos \in Surjection(M, 1..n)
  BY <1>14, <1>15, FS_Injection DEF n
<1>17. \A k \in 1..n : \E i \in M : pos[i] = k
  BY <1>16 DEF Surjection
<1>18. \A i \in M : Position(r, i) = pos[i]
  BY <1>3 DEF pos
<1>. QED
  BY <1>12, <1>13, <1>17, <1>18 DEF M, n

\* The rows in order: each once, and each at its position.
LEMMA OrderedRows ==
  ASSUME TypeOK, NEW r \in Asked
  PROVE  /\ Ordered(r) \in Seq(Ids) /\ Len(Ordered(r)) = Cardinality(Matching(r))
         /\ \A i \in Matching(r) : /\ Position(r, i) \in 1..Len(Ordered(r))
                                   /\ Ordered(r)[Position(r, i)] = i
<1>. DEFINE M == Matching(r)
            n == Cardinality(M)
<1>1. n \in Nat /\ M \subseteq Ids
  BY MatchingFinite
<1>2. /\ \A i \in M : Position(r, i) \in 1..n
      /\ \A i, j \in M : Position(r, i) = Position(r, j) => i = j
      /\ \A k \in 1..n : \E i \in M : Position(r, i) = k
  BY Positions
<1>3. Ordered(r) = [k \in 1..n |-> CHOOSE i \in M : Position(r, i) = k]
  BY DEF Ordered
<1>. HIDE DEF M, n
<1>4. \A k \in 1..n : Ordered(r)[k] \in M /\ Position(r, Ordered(r)[k]) = k
  BY <1>2, <1>3
<1>5. \A i \in M : Ordered(r)[Position(r, i)] = i
  BY <1>2, <1>4
<1>6. Ordered(r) \in [1..n -> Ids]
  BY <1>1, <1>3, <1>4
<1>7. Ordered(r) \in Seq(Ids)
  BY <1>1, <1>6, SeqDef
<1>8. Len(Ordered(r)) = n
  BY <1>1, <1>6, <1>7, LenProperties
<1>. QED
  BY <1>2, <1>5, <1>7, <1>8 DEF M, n

\* A page holds the rows at the positions behind the offset, up to the limit.
LEMMA PageFacts ==
  ASSUME TypeOK, NEW r \in Asked
  PROVE  /\ Page(r) \in SeqOf(Ids, r.limit)
         /\ Len(Page(r)) = Smaller(r.limit, IF Cardinality(Matching(r)) > r.offset
                                              THEN Cardinality(Matching(r)) - r.offset ELSE 0)
         /\ \A i \in Matching(r) :
              r.offset < Position(r, i) /\ Position(r, i) <= r.offset + r.limit
                => i \in ToSet(Page(r))
<1>. DEFINE n == Cardinality(Matching(r))
            o == r.offset
            l == r.limit
            m == Smaller(o + l, n)
            q == Ordered(r)
            p == SubSeq(q, o + 1, m)
<1>1. n \in Nat
  BY MatchingFinite
<1>2. o \in Nat /\ l \in Nat /\ l > 0
  <2>1. o \in 0..Cardinality(Ids) /\ l \in 1..MaxLimit
    BY DEF Asked
  <2>. QED
    BY <2>1, MatchingFinite, ListingAssumption
<1>3. /\ q \in Seq(Ids) /\ Len(q) = n
      /\ \A i \in Matching(r) : Position(r, i) \in 1..Len(q) /\ q[Position(r, i)] = i
  BY OrderedRows
<1>4. Page(r) = p
  BY DEF Page
<1>. HIDE DEF q, n, o, l
<1>5. m = IF o + l < n THEN o + l ELSE n
  BY DEF Smaller
<1>6. m \in Nat /\ m <= n /\ m <= o + l
  BY <1>1, <1>2, <1>5
<1>7. \A k \in o + 1 .. m : q[k] \in Ids
  BY <1>1, <1>2, <1>3, <1>6, ElementOfSeq
<1>. HIDE DEF m
<1>8. /\ SubSeq(q, o + 1, m) \in Seq(Ids)
      /\ Len(SubSeq(q, o + 1, m)) = IF o + 1 <= m THEN m - (o + 1) + 1 ELSE 0
      /\ \A k \in 1 .. m - (o + 1) + 1 : SubSeq(q, o + 1, m)[k] = q[o + 1 + k - 1]
  <2>1. o + 1 \in Int /\ m \in Int
    BY <1>2, <1>6
  <2>. QED
    BY <1>7, <2>1, SubSeqProperties
<1>9. p \in Seq(Ids) /\ Len(p) = IF m > o THEN m - o ELSE 0
  BY <1>2, <1>6, <1>8
<1>10. \A k \in 1 .. m - o : p[k] = q[o + k]
  BY <1>2, <1>6, <1>8
<1>. HIDE DEF p
<1>11. Len(p) = Smaller(l, IF n > o THEN n - o ELSE 0)
  BY <1>1, <1>2, <1>5, <1>9 DEF Smaller
<1>12. p \in SeqOf(Ids, l)
  <2>1. Len(p) \in 0..l
    BY <1>2, <1>6, <1>9
  <2>2. p \in [1..Len(p) -> Ids]
    BY <1>9, LenProperties
  <2>. QED
    BY <2>1, <2>2 DEF SeqOf
<1>13. ASSUME NEW i \in Matching(r), o < Position(r, i), Position(r, i) <= o + l
       PROVE  i \in ToSet(p)
  <2>. DEFINE k == Position(r, i) - o
  <2>1. Position(r, i) \in 1..n /\ q[Position(r, i)] = i
    BY <1>3
  <2>2. k \in 1..m - o
    BY <1>1, <1>2, <1>5, <1>13, <2>1
  <2>3. p[k] = i
    BY <1>2, <1>10, <2>1, <2>2
  <2>4. k \in 1..Len(p)
    BY <1>2, <1>6, <1>9, <2>2
  <2>. QED
    BY <1>9, <2>3, <2>4, LenProperties DEF ToSet
<1>. QED
  BY <1>4, <1>11, <1>12, <1>13 DEF n, o, l

-----------------------------------------------------------------------------
\* The parts of the type invariant the proofs use.
LEMMA TypeFacts ==
  ASSUME TypeOK
  PROVE  /\ request \in Asked /\ request.limit \in 1..MaxLimit
         /\ request.offset \in Nat /\ request.limit \in Nat /\ request.limit > 0
         /\ Len(items) \in Nat /\ Len(items) <= request.limit
<1>1. /\ request \in Asked
      /\ items \in SeqOf(Ids, request.limit)
  BY DEF TypeOK, Asked
<1>2. request.limit \in 1..MaxLimit /\ request.offset \in 0..Cardinality(Ids)
  BY <1>1 DEF Asked
<1>3. /\ request.offset \in Nat /\ request.limit \in Nat /\ request.limit > 0
  BY <1>2, MatchingFinite, ListingAssumption
<1>4. PICK m \in 0..request.limit : items \in [1..m -> Ids]
  BY <1>1 DEF SeqOf
<1>5. m \in Nat /\ items \in Seq(Ids)
  BY <1>3, <1>4, SeqDef
<1>6. Len(items) = m
  BY <1>4, <1>5, LenProperties
<1>. QED
  BY <1>1, <1>2, <1>3, <1>4, <1>6

\* A number one further away is within one more write.
LEMMA OneFurther ==
  ASSUME NEW a \in Nat, NEW b \in Nat, NEW c \in Nat, NEW w \in Nat,
         a <= b + w, b <= a + w, c <= b + 1, b <= c + 1
  PROVE  a <= c + (w + 1) /\ c <= a + (w + 1)
  OBVIOUS

\* Writing one row changes the number of rows that match by one at most.
LEMMA OneRowCounts ==
  ASSUME NEW i \in Ids, \A j \in Ids : j # i => table'[j] = table[j], request' = request
  PROVE  Listed' <= Listed + 1 /\ Listed <= Listed' + 1
<1>. DEFINE A == Matching(request)
            B == Matching(request)'
<1>1. /\ A = {j \in Ids : table[j] # None /\ table[j].tenant = request.tenant
                            /\ request.status \in {AnyStatus, table[j].status}}
      /\ B = {j \in Ids : table'[j] # None /\ table'[j].tenant = request.tenant
                            /\ request.status \in {AnyStatus, table'[j].status}}
  BY DEF Matching, Matches
<1>2. A \subseteq B \cup {i} /\ B \subseteq A \cup {i}
  BY <1>1
<1>3. IsFiniteSet(A) /\ IsFiniteSet(B)
  BY <1>1, ListingAssumption, FS_Subset
<1>4. Listed = Cardinality(A) /\ Listed' = Cardinality(B)
  BY <1>1 DEF Listed
<1>. HIDE DEF A, B
<1>5. ASSUME NEW S, NEW R, IsFiniteSet(S), IsFiniteSet(R), S \subseteq R \cup {i}
      PROVE  Cardinality(S) \in Nat /\ Cardinality(R) \in Nat /\ Cardinality(S) <= Cardinality(R) + 1
  <2>1. /\ IsFiniteSet(R \cup {i})
        /\ Cardinality(R \cup {i}) = Cardinality(R) \/ Cardinality(R \cup {i}) = Cardinality(R) + 1
    BY <1>5, FS_AddElement
  <2>2. Cardinality(S) <= Cardinality(R \cup {i})
    BY <1>5, <2>1, FS_Subset
  <2>3. Cardinality(S) \in Nat /\ Cardinality(R) \in Nat
    BY <1>5, FS_CardinalityType
  <2>. QED
    BY <2>1, <2>2, <2>3
<1>6. Cardinality(A) <= Cardinality(B) + 1 /\ Cardinality(B) <= Cardinality(A) + 1
  BY <1>2, <1>3, <1>5
<1>. QED
  BY <1>4, <1>6

\* What another caller writes keeps the tenant and the creation time of every row and
\* takes no row away; it adds at most one row to those the reader asks for, or takes one
\* from them; the reader is not affected.
Kept ==
  /\ \A i \in Ids : table[i] # None =>
       /\ table'[i] # None
       /\ table'[i].tenant = table[i].tenant
       /\ table'[i].created = table[i].created
  /\ Listed' <= Listed + 1 /\ Listed <= Listed' + 1
  /\ UNCHANGED reader

LEMMA CreateKeeps ==
  ASSUME TypeOK, NEW i \in Ids, NEW t \in Tenants, NEW s \in Statuses, NEW now \in Times,
         Create(i, t, s, now)
  PROVE  Kept /\ table' \in [Ids -> Row \cup {None}] /\ changes' \in 0..MaxChanges /\ Written
<1>. DEFINE row == [tenant |-> t, status |-> s, created |-> now, updated |-> now]
<1>1. row \in Row
  BY DEF Row
<1>2. /\ table[i] = None /\ table' = [table EXCEPT ![i] = row]
      /\ Written /\ UNCHANGED <<changes, reader>>
  BY DEF Create
<1>3. table \in [Ids -> Row \cup {None}] /\ changes \in 0..MaxChanges
  BY DEF TypeOK
<1>. HIDE DEF row
<1>4. \A j \in Ids : table'[j] = IF j = i THEN row ELSE table[j]
  BY <1>2, <1>3
<1>5. \A j \in Ids : table[j] # None => table'[j] = table[j]
  BY <1>2, <1>4
<1>6. request' = request
  BY <1>2 DEF reader
<1>7. Listed' <= Listed + 1 /\ Listed <= Listed' + 1
  BY <1>4, <1>6, OneRowCounts
<1>. QED
  BY <1>1, <1>2, <1>3, <1>5, <1>7 DEF Kept

LEMMA UpdateKeeps ==
  ASSUME TypeOK, NEW i \in Ids, NEW s \in Statuses, NEW now \in Times, Update(i, s, now)
  PROVE  Kept /\ table' \in [Ids -> Row \cup {None}] /\ changes' \in 0..MaxChanges /\ Written
<1>. DEFINE row == [table[i] EXCEPT !.status = s, !.updated = now]
<1>1. /\ table[i] # None /\ changes < MaxChanges /\ changes' = changes + 1
      /\ table' = [table EXCEPT ![i] = row]
      /\ Written /\ UNCHANGED reader
  BY DEF Update
<1>2. table \in [Ids -> Row \cup {None}] /\ changes \in 0..MaxChanges
  BY DEF TypeOK
<1>3. table[i] \in Row
  BY <1>1, RowFields
<1>4. row \in Row /\ row.tenant = table[i].tenant /\ row.created = table[i].created
  BY <1>3 DEF Row
<1>. HIDE DEF row
<1>5. \A j \in Ids : table'[j] = IF j = i THEN row ELSE table[j]
  BY <1>1, <1>2
<1>6. row # None
  BY <1>4, ListingAssumption
<1>7. table' \in [Ids -> Row \cup {None}]
  BY <1>1, <1>2, <1>4
<1>8. changes' \in 0..MaxChanges
  BY <1>1, <1>2, ListingAssumption
<1>9. ASSUME NEW j \in Ids, table[j] # None
      PROVE  table'[j] # None /\ table'[j].tenant = table[j].tenant
               /\ table'[j].created = table[j].created
  <2>1. CASE j = i
    BY <1>4, <1>5, <1>6, <2>1
  <2>2. CASE j # i
    BY <1>5, <1>9, <2>2
  <2>. QED
    BY <2>1, <2>2
<1>10. request' = request
  BY <1>1 DEF reader
<1>11. Listed' <= Listed + 1 /\ Listed <= Listed' + 1
  BY <1>5, <1>10, OneRowCounts
<1>. QED
  BY <1>1, <1>7, <1>8, <1>9, <1>11 DEF Kept

\* In the order of the identifiers or of the creation times, and over all statuses, a
\* row that matched still does, and stands no nearer to the front.
LEMMA RowsStay ==
  ASSUME TypeOK, Kept, InFixedOrder, NEW i \in Ids, Matches(request, i)
  PROVE  /\ Matches(request, i)'
         /\ Position(request, i)' \in Nat /\ Position(request, i) \in Nat
         /\ Position(request, i)' >= Position(request, i)
<1>. DEFINE A == {j \in Matching(request) : Before(request, j, i)}
            B == {j \in Matching(request)' : Before(request, j, i)'}
<1>1. request' = request
  BY DEF Kept, reader
<1>2. request \in Asked /\ request.status = AnyStatus /\ request.sort \in {"id", "created_at"}
  <2>1. request \in Asked /\ request.status = AnyStatus /\ request.sort # "updated_at"
    BY TypeFacts DEF InFixedOrder
  <2>. QED
    BY <2>1 DEF Asked
<1>3. \A j \in Ids : Matches(request, j) => Matches(request, j)'
  BY <1>1, <1>2 DEF Kept, Matches
<1>4. \A j \in Ids : Matches(request, j) => Key(request, j)' = Key(request, j)
  <2>. SUFFICES ASSUME NEW j \in Ids, Matches(request, j)
                PROVE  Key(request, j)' = Key(request, j)
    OBVIOUS
  <2>1. table'[j].created = table[j].created
    BY DEF Kept, Matches
  <2>2. CASE request.sort = "id"
    BY <1>1, <2>2 DEF Key
  <2>3. CASE request.sort = "created_at"
    BY <1>1, <2>1, <2>3 DEF Key
  <2>. QED
    BY <1>2, <2>2, <2>3
<1>5. \A j \in Ids : Matches(request, j) /\ Before(request, j, i) => Before(request, j, i)'
  BY <1>1, <1>4 DEF Before
<1>6. A \subseteq B
  BY <1>3, <1>5 DEF Matching
<1>7. A \subseteq Ids /\ B \subseteq Ids
  BY DEF Matching
<1>8. /\ Position(request, i) = Cardinality(A) + 1
      /\ Position(request, i)' = Cardinality(B) + 1
  BY DEF Position
<1>. HIDE DEF A, B
<1>9. IsFiniteSet(A) /\ IsFiniteSet(B)
  BY <1>7, ListingAssumption, FS_Subset
<1>10. Cardinality(A) \in Nat /\ Cardinality(B) \in Nat /\ Cardinality(A) <= Cardinality(B)
  BY <1>6, <1>9, FS_Subset, FS_CardinalityType
<1>. QED
  BY <1>3, <1>8, <1>10

-----------------------------------------------------------------------------
\* The empty page.
LEMMA NoItems ==
  ASSUME NEW n \in Nat
  PROVE  <<>> \in SeqOf(Ids, n) /\ Len(<<>>) = 0
<1>1. <<>> \in [1..0 -> Ids] /\ 0 \in 0..n
  OBVIOUS
<1>. QED
  BY <1>1 DEF SeqOf

\* The order of a request over the same table does not depend on its limit and offset.
LEMMA SameOrder ==
  ASSUME UNCHANGED table, request' = request \/ \E o : request' = [request EXCEPT !.offset = o],
         request \in Asked
  PROVE  /\ request'.limit = request.limit
         /\ InFixedOrder' = InFixedOrder
         /\ Matching(request)' = Matching(request)
         /\ \A i : Matches(request, i)' = Matches(request, i)
         /\ \A i : Position(request, i)' = Position(request, i)
<1>1. /\ request'.tenant = request.tenant /\ request'.status = request.status
      /\ request'.sort = request.sort /\ request'.desc = request.desc
      /\ request'.limit = request.limit
  BY DEF Asked
<1>2. \A i : Matches(request, i)' = Matches(request, i)
  BY <1>1 DEF Matches
<1>3. \A i : Key(request, i)' = Key(request, i)
  BY <1>1 DEF Key
<1>4. \A i, j : Before(request, i, j)' = Before(request, i, j)
  BY <1>1, <1>3 DEF Before
<1>5. Matching(request)' = Matching(request)
  BY <1>2 DEF Matching
<1>6. \A i : Position(request, i)' = Position(request, i)
  BY <1>4, <1>5 DEF Position
<1>. QED
  BY <1>1, <1>2, <1>5, <1>6 DEF InFixedOrder

LEMMA InitHolds == Init => IInv
<1>. SUFFICES ASSUME Init PROVE IInv
  OBVIOUS
<1>1. PICK r \in Requests : Accepted(r) /\ request = Normalize([r EXCEPT !.offset = 0])
  BY DEF Init
<1>2. r \in [tenant : Tenants, status : Statuses \cup {AnyStatus}, limit : Int,
             offset : Int, sort : STRING, desc : BOOLEAN]
  BY ListingAssumption
<1>. DEFINE q == [r EXCEPT !.offset = 0]
            limit == IF q.limit = 0 THEN DefaultLimit ELSE q.limit
            sort == IF q.sort = "" THEN "updated_at" ELSE q.sort
<1>3. /\ q.limit = r.limit /\ q.sort = r.sort /\ q.offset = 0 /\ q.limit \in Int
      /\ q \in [tenant : Tenants, status : Statuses \cup {AnyStatus}, limit : Int,
                offset : Int, sort : STRING, desc : BOOLEAN]
  BY <1>2
<1>. HIDE DEF q
<1>4. r.limit \in 0..MaxLimit
  BY <1>1, Zenon DEF Accepted
<1>5. sort \in {"updated_at", "created_at", "id"}
  <2>1. r.sort \in {"", "updated_at", "created_at", "id"}
    BY <1>1, Zenon DEF Accepted
  <2>. QED
    BY <1>3, <2>1, Zenon
<1>6. request = [q EXCEPT !.limit = limit, !.sort = sort]
  BY <1>1, Zenon DEF Normalize, q
<1>. HIDE DEF sort
<1>7. limit \in 1..MaxLimit /\ limit \in Nat /\ 0 \in 0..Cardinality(Ids)
  BY <1>3, <1>4, ListingAssumption, MatchingFinite
<1>. HIDE DEF limit
<1>8. request \in Asked /\ request.limit = limit /\ request.offset = 0
  BY <1>3, <1>5, <1>6, <1>7 DEF Asked
<1>9. items \in SeqOf(Ids, request.limit)
  BY <1>7, <1>8, NoItems DEF Init
<1>10. table \in [Ids -> Row \cup {None}]
  BY DEF Init
<1>11. TypeOK
  <2>1. /\ stage \in {"idle", "asked", "counted", "answered", "done"}
        /\ total \in 0..Cardinality(Ids) /\ writes \in Nat /\ changes \in 0..MaxChanges
        /\ start \subseteq Ids /\ seen \subseteq Ids
    <3>1. /\ stage = "idle" /\ total = 0 /\ writes = 0 /\ changes = 0
          /\ start = {} /\ seen = {}
      BY DEF Init
    <3>2. changes \in 0..MaxChanges
      BY <3>1, ListingAssumption
    <3>. QED
      BY <1>7, <3>1, <3>2
  <2>. QED
    BY <1>8, <1>9, <1>10, <2>1 DEF TypeOK, Asked
<1>12. PageInv
  BY DEF PageInv, PageMatchesTotal, Init
<1>13. WalkInv
  BY <1>8 DEF WalkInv, Init
<1>. QED
  BY <1>11, <1>12, <1>13 DEF IInv

\* Another caller's write: the count is out of date by one more row at most, and the
\* walk loses no row.
LEMMA WriteHolds ==
  ASSUME IInv, Kept, table' \in [Ids -> Row \cup {None}], changes' \in 0..MaxChanges,
         Written
  PROVE  IInv'
<1>. USE DEF IInv
<1>1. /\ request' = request /\ stage' = stage /\ total' = total /\ items' = items
      /\ start' = start /\ seen' = seen
  BY DEF Kept, reader
<1>2. TypeOK'
  BY <1>1 DEF TypeOK, Written
<1>3. PageInv'
  <2>1. ASSUME stage = "counted"
        PROVE  total <= Listed' + writes' /\ Listed' <= total + writes'
    <3>1. writes' = writes + 1 /\ total <= Listed + writes /\ Listed <= total + writes
      BY <2>1 DEF Written, PageInv
    <3>2. Listed' <= Listed + 1 /\ Listed <= Listed' + 1
      BY DEF Kept
    <3>3. Listed \in Nat /\ Listed' \in Nat /\ writes \in Nat /\ total \in Nat
      BY <1>1, MatchingFinite, FS_Subset, FS_CardinalityType, ListingAssumption DEF TypeOK, Listed, Matching
    <3>4. /\ total <= Listed' + (writes + 1)
          /\ Listed' <= total + (writes + 1)
      BY <3>1, <3>2, <3>3, OneFurther, Zenon
    <3>. QED
      BY <3>1, <3>4, Zenon
  <2>2. ASSUME stage # "counted"
        PROVE  writes' = writes
    BY <2>2 DEF Written
  <2>3. PageMatchesTotal'
    BY <1>1, <2>2 DEF PageInv, PageMatchesTotal, LeftOf
  <2>. QED
    BY <1>1, <2>1, <2>3 DEF PageInv
<1>4. WalkInv'
  <2>1. SUFFICES ASSUME InFixedOrder'
                 PROVE  /\ \A i \in start : Matches(request, i)'
                        /\ stage \in {"asked", "counted"} => Behind(request.offset)'
                        /\ stage = "answered" =>
                             IF Len(items) = request.limit THEN Behind(request.offset + request.limit)'
                                                           ELSE start \subseteq seen
                        /\ stage = "done" => start \subseteq seen
    BY <1>1 DEF WalkInv
  <2>2. InFixedOrder
    BY <1>1, <2>1 DEF InFixedOrder
  <2>3. \A i \in start : i \in Ids /\ Matches(request, i)
    BY <2>2 DEF WalkInv, TypeOK
  <2>4. \A i \in start : /\ Matches(request, i)'
                         /\ Position(request, i)' \in Nat /\ Position(request, i) \in Nat
                         /\ Position(request, i)' >= Position(request, i)
    BY <2>2, <2>3, RowsStay
  <2>5. ASSUME NEW n \in Nat, Behind(n)
        PROVE  \A i \in start' \ seen' : Position(request, i)' > n
    BY <1>1, <2>4, <2>5 DEF Behind
  <2>6. request.offset \in Nat /\ request.limit \in Nat
    BY TypeFacts
  <2>7. /\ Behind(request.offset) => Behind(request.offset)'
        /\ Behind(request.offset + request.limit) => Behind(request.offset + request.limit)'
    BY <1>1, <2>5, <2>6 DEF Behind
  <2>. QED
    BY <2>2, <2>4, <2>7 DEF WalkInv
<1>. QED
  BY <1>2, <1>3, <1>4

LEMMA BeginHolds ==
  ASSUME IInv, Begin
  PROVE  IInv'
<1>. USE DEF IInv
<1>1. /\ stage = "idle" /\ stage' = "asked" /\ start' = Matching(request)
      /\ UNCHANGED <<table, writes, changes, request, total, items, seen>>
  BY DEF Begin
<1>2. request \in Asked /\ Matching(request) \subseteq Ids
  BY TypeFacts, MatchingFinite
<1>3. TypeOK'
  BY <1>1, <1>2 DEF TypeOK
<1>4. PageInv'
  BY <1>1 DEF PageInv, PageMatchesTotal
<1>5. /\ \A i : Matches(request, i)' = Matches(request, i)
      /\ \A i : Position(request, i)' = Position(request, i)
  BY <1>1, <1>2, SameOrder
<1>6. request.offset = 0
  BY <1>1 DEF WalkInv
<1>7. \A i \in Matching(request) : Matches(request, i) /\ Position(request, i) > 0
  <2>1. \A i \in Matching(request) : Position(request, i) \in 1..Cardinality(Matching(request))
    BY <1>2, Positions
  <2>2. \A i \in Matching(request) : Matches(request, i)
    BY DEF Matching
  <2>. QED
    BY <2>1, <2>2, MatchingFinite
<1>8. WalkInv'
  BY <1>1, <1>5, <1>6, <1>7 DEF WalkInv, Behind
<1>. QED
  BY <1>3, <1>4, <1>8

LEMMA CountHolds ==
  ASSUME IInv, Count
  PROVE  IInv'
<1>. USE DEF IInv
<1>1. /\ stage = "asked" /\ stage' = "counted" /\ total' = CountRows(request) /\ writes' = 0
      /\ UNCHANGED <<table, changes, request, items, start, seen>>
  BY DEF Count
<1>2. request \in Asked
  BY TypeFacts
<1>3. /\ InFixedOrder' = InFixedOrder
      /\ Matching(request)' = Matching(request)
      /\ \A i : Matches(request, i)' = Matches(request, i)
      /\ \A i : Position(request, i)' = Position(request, i)
  BY <1>1, <1>2, SameOrder
<1>4. CountRows(request) \in 0..Cardinality(Ids)
  BY MatchingFinite DEF CountRows
<1>5. TypeOK'
  BY <1>1, <1>4 DEF TypeOK
<1>6. PageInv'
  <2>1. PICK c \in Nat : c = CountRows(request)
    BY <1>4
  <2>2. total' = c /\ Listed' = c /\ writes' = 0
    BY <1>1, <1>3, <2>1 DEF Listed, CountRows
  <2>3. c <= c + 0
    BY <2>1
  <2>4. total' <= Listed' + writes' /\ Listed' <= total' + writes'
    BY <2>2, <2>3, Zenon
  <2>. QED
    BY <1>1, <2>4 DEF PageInv, PageMatchesTotal
<1>7. WalkInv'
  BY <1>1, <1>3 DEF WalkInv, Behind
<1>. QED
  BY <1>5, <1>6, <1>7

LEMMA SelectHolds ==
  ASSUME IInv, Select
  PROVE  IInv'
<1>. USE DEF IInv
<1>. DEFINE o == request.offset
            l == request.limit
            n == Cardinality(Matching(request))
            p == Page(request)
<1>1. /\ stage = "counted" /\ stage' = "answered" /\ items' = p /\ seen' = seen \cup ToSet(p)
      /\ UNCHANGED <<table, writes, changes, request, total, start>>
  BY DEF Select
<1>2. request \in Asked /\ o \in Nat /\ l \in Nat /\ l > 0
  BY TypeFacts
<1>3. /\ InFixedOrder' = InFixedOrder
      /\ \A i : Matches(request, i)' = Matches(request, i)
      /\ \A i : Position(request, i)' = Position(request, i)
  BY <1>1, <1>2, SameOrder
<1>4. n \in Nat /\ n <= Cardinality(Ids) /\ Cardinality(Ids) \in Nat
  BY MatchingFinite
<1>5. /\ p \in SeqOf(Ids, l)
      /\ Len(p) = Smaller(l, IF n > o THEN n - o ELSE 0)
      /\ \A i \in Matching(request) :
           o < Position(request, i) /\ Position(request, i) <= o + l => i \in ToSet(p)
  BY <1>2, PageFacts
<1>. HIDE DEF o, l, n, p
<1>6. Len(p) = l => o + l <= n
  BY <1>2, <1>4, <1>5 DEF Smaller
<1>7. Len(p) # l => n < o + l
  BY <1>2, <1>4, <1>5 DEF Smaller
<1>8. ToSet(p) \subseteq Ids
  <2>1. PICK m \in 0..l : p \in [1..m -> Ids]
    BY <1>5 DEF SeqOf
  <2>. QED
    BY <2>1 DEF ToSet
<1>9. TypeOK'
  BY <1>1, <1>5, <1>8 DEF TypeOK, l
<1>10. PageInv'
  <2>1. stage' # "counted"
    BY <1>1
  <2>2. PICK k \in (total - writes)..(total + writes) : k = n
    <3>1. total <= n + writes /\ n <= total + writes
      BY <1>1 DEF PageInv, Listed, n
    <3>2. total \in Nat /\ writes \in Nat
      BY DEF TypeOK
    <3>. QED
      BY <1>4, <3>1, <3>2
  <2>3. PageMatchesTotal'
    <3>1. Len(items') = Smaller(request.limit, IF k > request.offset THEN k - request.offset ELSE 0)
      BY <1>1, <1>5, <2>2 DEF o, l
    <3>2. Len(items') = LeftOf(k)' /\ total' = total /\ writes' = writes
      BY <1>1, <3>1 DEF LeftOf
    <3>. QED
      BY <2>2, <3>2 DEF PageMatchesTotal
  <2>4. Len(items') = request'.limit => request'.offset + request'.limit <= Cardinality(Ids)
    <3>1. items' = p /\ request'.limit = l /\ request'.offset = o
      BY <1>1 DEF o, l
    <3>. QED
      BY <1>2, <1>4, <1>6, <3>1
  <2>. QED
    BY <2>1, <2>3, <2>4 DEF PageInv
<1>11. WalkInv'
  <2>1. SUFFICES ASSUME InFixedOrder
                 PROVE  /\ \A i \in start : Matches(request, i)
                        /\ Len(p) = l => \A i \in start \ seen' : Position(request, i) > o + l
                        /\ Len(p) # l => start \subseteq seen'
    BY <1>1, <1>3 DEF WalkInv, Behind, o, l
  <2>2. /\ \A i \in start : Matches(request, i)
        /\ \A i \in start \ seen : Position(request, i) > o
    BY <1>1, <2>1 DEF WalkInv, Behind, o
  <2>3. \A i \in start : i \in Matching(request)
    BY <2>2 DEF TypeOK, Matching
  <2>4. \A i \in start : Position(request, i) \in 1..n
    BY <1>2, <2>3, Positions DEF n
  <2>5. \A i \in start \ seen' : i \in start \ seen /\ i \notin ToSet(p)
    BY <1>1
  <2>6. \A i \in start \ seen' : Position(request, i) > o + l
    BY <1>2, <1>4, <1>5, <2>2, <2>3, <2>4, <2>5
  <2>7. ASSUME Len(p) # l
        PROVE  start \subseteq seen'
    <3>1. ASSUME NEW i \in start \ seen'
          PROVE  FALSE
      <4>1. Position(request, i) > o + l /\ Position(request, i) \in 1..n
        BY <2>4, <2>6
      <4>. QED
        BY <1>2, <1>4, <1>7, <2>7, <4>1
    <3>. QED
      BY <3>1
  <2>. QED
    BY <2>2, <2>6, <2>7
<1>. QED
  BY <1>9, <1>10, <1>11

LEMMA ContinueHolds ==
  ASSUME IInv, Continue
  PROVE  IInv'
<1>. USE DEF IInv
<1>1. /\ stage = "answered" /\ items' = <<>> /\ total' = 0 /\ writes' = 0
      /\ UNCHANGED <<table, changes, start, seen>>
  BY DEF Continue
<1>2. /\ request \in Asked /\ request.offset \in Nat /\ request.limit \in Nat /\ request.limit > 0
  BY TypeFacts
<1>3. <<>> \in SeqOf(Ids, request.limit) /\ 0 \in 0..Cardinality(Ids)
  BY <1>2, NoItems, MatchingFinite
<1>4. CASE Len(items) = request.limit
  <2>1. stage' = "asked" /\ request' = [request EXCEPT !.offset = request.offset + request.limit]
    BY <1>4 DEF Continue
  <2>2. /\ request'.limit = request.limit /\ InFixedOrder' = InFixedOrder
        /\ \A i : Matches(request, i)' = Matches(request, i)
        /\ \A i : Position(request, i)' = Position(request, i)
    BY <1>1, <1>2, <2>1, SameOrder
  <2>3. request'.offset = request.offset + request.limit
    BY <1>2, <2>1 DEF Asked
  <2>4. request.offset + request.limit \in 0..Cardinality(Ids)
    BY <1>1, <1>2, <1>4, MatchingFinite DEF PageInv
  <2>5. request' \in Asked
    BY <1>2, <2>1, <2>4 DEF Asked
  <2>7. TypeOK'
    BY <1>1, <1>3, <2>1, <2>2, <2>5 DEF TypeOK, Asked
  <2>8. PageInv'
    BY <1>1, <2>1 DEF PageInv, PageMatchesTotal
  <2>9. WalkInv'
    BY <1>1, <1>4, <2>1, <2>2, <2>3 DEF WalkInv, Behind
  <2>. QED
    BY <2>7, <2>8, <2>9
<1>5. CASE Len(items) # request.limit
  <2>1. stage' = "done" /\ request' = request
    BY <1>5 DEF Continue
  <2>2. /\ InFixedOrder' = InFixedOrder
        /\ \A i : Matches(request, i)' = Matches(request, i)
    BY <1>1, <1>2, <2>1, SameOrder
  <2>3. TypeOK'
    BY <1>1, <1>3, <2>1 DEF TypeOK
  <2>4. PageInv'
    BY <1>1, <2>1 DEF PageInv, PageMatchesTotal
  <2>5. WalkInv'
    BY <1>1, <1>5, <2>1, <2>2 DEF WalkInv
  <2>. QED
    BY <2>3, <2>4, <2>5
<1>. QED
  BY <1>4, <1>5

LEMMA StutterHolds ==
  ASSUME IInv, UNCHANGED vars
  PROVE  IInv'
<1>. USE DEF IInv
<1>1. /\ request' = request /\ stage' = stage /\ total' = total /\ items' = items
      /\ start' = start /\ seen' = seen /\ table' = table /\ writes' = writes
      /\ changes' = changes
  BY DEF vars, reader
<1>2. /\ InFixedOrder' = InFixedOrder
      /\ Matching(request)' = Matching(request)
      /\ \A i : Matches(request, i)' = Matches(request, i)
      /\ \A i : Position(request, i)' = Position(request, i)
  BY <1>1, TypeFacts, SameOrder
<1>3. TypeOK'
  BY <1>1 DEF TypeOK
<1>4. PageInv'
  BY <1>1, <1>2 DEF PageInv, PageMatchesTotal, LeftOf, Listed
<1>5. WalkInv'
  BY <1>1, <1>2 DEF WalkInv, Behind
<1>. QED
  BY <1>3, <1>4, <1>5

\* The invariant is inductive.
THEOREM Invariance == Spec => []IInv
<1>1. IInv /\ [Next]_vars => IInv'
  <2>. SUFFICES ASSUME IInv, [Next]_vars PROVE IInv'
    OBVIOUS
  <2>1. TypeOK
    BY DEF IInv
  <2>2. ASSUME NEW i \in Ids, NEW s \in Statuses, NEW now \in Times, Update(i, s, now)
        PROVE  IInv'
    BY <2>1, <2>2, UpdateKeeps, WriteHolds
  <2>3. ASSUME NEW i \in Ids, NEW t \in Tenants, NEW s \in Statuses, NEW now \in Times,
               Create(i, t, s, now)
        PROVE  IInv'
    BY <2>1, <2>3, CreateKeeps, WriteHolds
  <2>. QED
    BY <2>2, <2>3, BeginHolds, CountHolds, SelectHolds, ContinueHolds, StutterHolds DEF Next
<1>. QED
  BY <1>1, InitHolds, PTL DEF Spec

\* The state has its types; in particular no page is longer than the limit of its
\* request, which Normalize keeps between one row and the largest page, and a walk asks
\* for no offset beyond the table.
THEOREM TypeCorrect == Spec => []TypeOK
<1>1. IInv => TypeOK
  BY DEF IInv
<1>. QED
  BY <1>1, Invariance, PTL

\* The two statements of List tell of different states: the page holds what a number of
\* rows leaves behind the offset, up to the limit, that differs from the count by no more
\* than the rows written between them, and not at all when nobody wrote.
THEOREM PagesMatchTotals == Spec => []PageMatchesTotal
<1>1. IInv => PageMatchesTotal
  BY DEF IInv, PageInv
<1>. QED
  BY <1>1, Invariance, PTL

\* A walk over the pages of List, over all statuses and sorted by creation time or
\* identifier, in either direction, shows every row that matched when it began, however
\* many rows other callers insert and update between the pages.
THEOREM WalksMissNothing == Spec => []WalkMissesNothing
<1>1. IInv => WalkMissesNothing
  BY DEF IInv, WalkInv, InFixedOrder, WalkMissesNothing
<1>. QED
  BY <1>1, Invariance, PTL
=============================================================================
