---------------------------- MODULE ListingProofs ----------------------------
(***************************************************************************)
(* The pages of a listing, for any rows, columns, queries, limits and      *)
(* number of changes.  The argument counts, for a row, the listed rows     *)
(* that come before it: its rank.                                          *)
(***************************************************************************)
EXTENDS Listing, FiniteSetTheorems, TLAPS

(***************************************************************************)
(* The WHERE clauses.                                                      *)
(***************************************************************************)
\* A clause begins with an atom, and so does each of its alternatives.
LEMMA ClauseBegins ==
    ASSUME NEW q
    PROVE  LET c == Where(q) IN
           /\ Len(c) \in Nat /\ c[1] \notin {"AND", "OR"}
           /\ \A i \in 1 .. Len(c) :
                 c[i] = "OR" /\ i < Len(c) => c[i + 1] \notin {"AND", "OR"}
<1> DEFINE c == Where(q)
<1>1. CASE q.endpoint = "wallets" /\ q.filter
  <2>1. /\ Len(c) = 7 /\ c[1] = "undeleted" /\ c[2] = "AND" /\ c[3] = "active"
        /\ c[4] = "AND" /\ c[5] = "own" /\ c[6] = "AND" /\ c[7] = "filter"
    BY <1>1 DEF Where
  <2> HIDE DEF c
  <2>2. \A i \in 1 .. 7 : c[i] # "OR"
    <3>1. \A i \in 1 .. 7 : i \in {1, 2, 3, 4, 5, 6, 7}
      OBVIOUS
    <3> QED
      BY <2>1, <3>1
  <2> QED
    BY <2>1, <2>2 DEF c
<1>2. CASE q.endpoint = "wallets" /\ ~q.filter
  <2>1. /\ Len(c) = 5 /\ c[1] = "undeleted" /\ c[2] = "AND" /\ c[3] = "active"
        /\ c[4] = "AND" /\ c[5] = "own"
    BY <1>2 DEF Where
  <2> HIDE DEF c
  <2>2. \A i \in 1 .. 5 : c[i] # "OR"
    <3>1. \A i \in 1 .. 5 : i \in {1, 2, 3, 4, 5}
      OBVIOUS
    <3> QED
      BY <2>1, <3>1
  <2> QED
    BY <2>1, <2>2 DEF c
<1>3. CASE q.endpoint # "wallets"
  <2>1. /\ Len(c) \in {3, 5} /\ c[1] = "to" /\ c[2] = "OR" /\ c[3] = "from"
        /\ Len(c) = 5 => c[4] = "AND" /\ c[5] = "filter"
    BY <1>3 DEF Where
  <2> HIDE DEF c
  <2>2. \A i \in 1 .. Len(c) : c[i] = "OR" => i = 2
    <3>1. \A i \in 1 .. 5 : i \in {1, 2, 3, 4, 5}
      OBVIOUS
    <3> QED
      BY <2>1, <3>1
  <2> QED
    BY <2>1, <2>2 DEF c
<1> QED
  BY <1>1, <1>2, <1>3

\* A row that is not there yet is not listed.
LEMMA AbsentIsUnlisted ==
    ASSUME NEW q
    PROVE  ~ Holds(Where(q), {})
<1> DEFINE c == Where(q)
<1>1. /\ Len(c) \in Nat /\ c[1] \notin {"AND", "OR"}
      /\ \A i \in 1 .. Len(c) : c[i] = "OR" /\ i < Len(c) => c[i + 1] \notin {"AND", "OR"}
  BY ClauseBegins
<1> HIDE DEF c
<1>2. SUFFICES ASSUME NEW i \in 1 .. Len(c), NEW j \in i .. Len(c),
                      i = 1 \/ c[i - 1] = "OR",
                      \A k \in i .. j : c[k] # "OR" /\ (c[k] = "AND" \/ c[k] \in {})
               PROVE  FALSE
  BY DEF Holds, c
<1>3. c[i] = "AND" /\ i \in Int
  BY <1>1, <1>2
<1>4. CASE i = 1
  BY <1>1, <1>3, <1>4
<1>5. CASE i # 1
  <2>1. i - 1 \in 1 .. Len(c) /\ i - 1 < Len(c) /\ (i - 1) + 1 = i /\ c[i - 1] = "OR"
    BY <1>1, <1>2, <1>5
  <2> QED
    BY <1>1, <1>3, <2>1
<1> QED
  BY <1>4, <1>5

(***************************************************************************)
(* Ranks.                                                                  *)
(***************************************************************************)
\* the key of r in the column of the query
Key(r) == keys[r][SortColumn(query)]

\* s comes before r, whatever order ties are given
Before(s, r) == IF query.descending THEN Key(s) > Key(r) ELSE Key(s) < Key(r)

\* the rows of L that come before r, and how many
Preceding(L, r) == {s \in L : Before(s, r)}
Rank(L, r) == Cardinality(Preceding(L, r))

LEMMA KeyType ==
    ASSUME ListingTypeOK, NEW r \in Rows
    PROVE  Key(r) \in Int
<1>1. SortColumn(query) \in Columns
  BY ListingAssumption DEF ListingTypeOK, SortColumn, Columns, Endpoints
<1> QED
  BY <1>1 DEF ListingTypeOK, Key

LEMMA RowsAreFinite ==
    ASSUME NEW L \in SUBSET Rows
    PROVE  IsFiniteSet(L) /\ Cardinality(L) \in Nat
<1>1. IsFiniteSet(L)
  BY ListingAssumption, FS_Subset
<1> QED
  BY <1>1, FS_CardinalityType

\* A row that comes before another has a smaller rank,
LEMMA RankFollowsOrder ==
    ASSUME ListingTypeOK, NEW L \in SUBSET Rows, NEW r \in L, NEW s \in L,
           Before(s, r)
    PROVE  Rank(L, s) < Rank(L, r)
<1>1. \A t \in Rows : Key(t) \in Int
  BY KeyType
<1>2. Preceding(L, s) \subseteq Preceding(L, r) \ {s} /\ s \in Preceding(L, r)
  BY <1>1 DEF Preceding, Before
<1>3. Preceding(L, r) \in SUBSET Rows
  BY DEF Preceding
<1>4. IsFiniteSet(Preceding(L, r)) /\ Rank(L, r) \in Nat
  BY <1>3, RowsAreFinite DEF Rank
<1>5. /\ IsFiniteSet(Preceding(L, r) \ {s})
      /\ Cardinality(Preceding(L, r) \ {s}) = Rank(L, r) - 1
  BY <1>2, <1>4, FS_RemoveElement DEF Rank
<1>6. Rank(L, s) <= Rank(L, r) - 1 /\ Rank(L, s) \in Nat
  <2>1. Preceding(L, s) \in SUBSET Rows
    BY DEF Preceding
  <2> QED
    BY <1>2, <1>5, <2>1, RowsAreFinite, FS_Subset DEF Rank
<1> QED
  BY <1>4, <1>6

\* every row has less than there are rows,
LEMMA RankBound ==
    ASSUME ListingTypeOK, NEW L \in SUBSET Rows, NEW r \in L
    PROVE  Rank(L, r) \in Nat /\ Rank(L, r) < Cardinality(L)
<1>1. Preceding(L, r) \subseteq L \ {r}
  BY KeyType DEF Preceding, Before
<1>2. /\ IsFiniteSet(L \ {r})
      /\ Cardinality(L \ {r}) = Cardinality(L) - 1
  BY RowsAreFinite, FS_RemoveElement
<1>3. Rank(L, r) <= Cardinality(L) - 1
  BY <1>1, <1>2, FS_Subset DEF Rank
<1>4. Rank(L, r) \in Nat
  BY RowsAreFinite DEF Rank, Preceding
<1> QED
  BY <1>3, <1>4, RowsAreFinite

\* and more rows never lower it.
LEMMA RankGrows ==
    ASSUME NEW L \in SUBSET Rows, NEW M \in SUBSET Rows, L \subseteq M, NEW r \in Rows
    PROVE  Rank(L, r) \in Nat /\ Rank(M, r) \in Nat /\ Rank(L, r) <= Rank(M, r)
<1>1. Preceding(M, r) \in SUBSET Rows /\ Preceding(L, r) \in SUBSET Preceding(M, r)
  BY DEF Preceding
<1>2. IsFiniteSet(Preceding(M, r))
  BY <1>1, RowsAreFinite
<1> QED
  BY <1>1, <1>2, RowsAreFinite, FS_Subset DEF Rank

(***************************************************************************)
(* The sequences a SELECT may yield, and their pages.                      *)
(***************************************************************************)
\* Each holds every row once.
LEMMA Enumerates ==
    ASSUME NEW L \in SUBSET Rows, NEW s \in SetToSeqs(L)
    PROVE  /\ s \in Seq(L) /\ Len(s) = Cardinality(L)
           /\ \A i, j \in 1 .. Len(s) : i # j => s[i] # s[j]
           /\ \A r \in L : \E i \in 1 .. Len(s) : s[i] = r
<1> DEFINE n == Cardinality(L)
<1>1. IsFiniteSet(L) /\ n \in Nat
  BY RowsAreFinite
<1>2. s \in [1 .. n -> L] /\ \A i, j \in 1 .. n : i # j => s[i] # s[j]
  BY DEF SetToSeqs
<1> HIDE DEF n
<1>3. s \in Seq(L) /\ Len(s) = n
  BY <1>1, <1>2
<1>4. s \in Injection(1 .. n, L)
  BY <1>2 DEF Injection, IsInjective
<1>5. Cardinality(1 .. n) = n
  BY <1>1, FS_Interval
<1>6. s \in Surjection(1 .. n, L)
  BY <1>1, <1>4, <1>5, FS_Injection DEF n
<1>7. \A r \in L : \E i \in 1 .. n : s[i] = r
  BY <1>6 DEF Surjection
<1> QED
  BY <1>2, <1>3, <1>7 DEF n

\* Without ties the order is the order of the ranks.
LEMMA RankIsPlace ==
    ASSUME ListingTypeOK, NoTies, NEW L \in SUBSET Rows, NEW s \in SetToSeqs(L),
           Ordered(query, s), NEW i \in 1 .. Len(s)
    PROVE  Rank(L, s[i]) = i - 1
<1>1. /\ s \in Seq(L) /\ Len(s) \in Nat
      /\ \A k, j \in 1 .. Len(s) : k # j => s[k] # s[j]
      /\ \A r \in L : \E k \in 1 .. Len(s) : s[k] = r
  BY Enumerates, RowsAreFinite
<1>2. ASSUME NEW k \in 1 .. Len(s)
      PROVE  s[k] \in L /\ s[k] \in Rows /\ Key(s[k]) \in Int
  <2>1. s[k] \in L
    BY <1>1
  <2> QED
    BY <2>1, KeyType
<1>3. ASSUME NEW k \in 1 .. Len(s), NEW j \in 1 .. Len(s), k < j
      PROVE  Before(s[k], s[j]) /\ ~Before(s[j], s[k])
  <2>1. Key(s[k]) # Key(s[j])
    <3>1. s[k] \in Rows /\ s[j] \in Rows /\ s[k] # s[j]
      <4>1. k # j
        BY <1>3
      <4> QED
        BY <1>1, <1>2, <4>1
    <3> QED
      BY <3>1 DEF NoTies, Key
  <2>2. IF query.descending THEN Key(s[k]) >= Key(s[j]) ELSE Key(s[k]) <= Key(s[j])
    <3>1. k \in DOMAIN s /\ j \in DOMAIN s
      BY <1>1
    <3>2. IF query.descending
          THEN keys[s[k]][SortColumn(query)] >= keys[s[j]][SortColumn(query)]
          ELSE keys[s[k]][SortColumn(query)] <= keys[s[j]][SortColumn(query)]
      BY <1>3, <3>1 DEF Ordered
    <3> QED
      BY <3>2 DEF Key
  <2> QED
    BY <1>2, <2>1, <2>2 DEF Before
<1>4. \A k \in 1 .. Len(s) : Before(s[k], s[i]) <=> k < i
  <2>1. ~Before(s[i], s[i])
    BY <1>2 DEF Before
  <2> QED
    BY <1>3, <2>1
<1> DEFINE A == Preceding(L, s[i])
           f == [k \in 1 .. i - 1 |-> s[k]]
<1>5. \A k \in 1 .. i - 1 : k \in 1 .. Len(s) /\ k < i
  OBVIOUS
<1>6. f \in [1 .. i - 1 -> A]
  BY <1>2, <1>4, <1>5 DEF Preceding
<1>7. \A k, j \in 1 .. i - 1 : f[k] = f[j] => k = j
  BY <1>1, <1>5
<1>8. \A r \in A : \E k \in 1 .. i - 1 : f[k] = r
  <2> SUFFICES ASSUME NEW r \in A PROVE \E k \in 1 .. i - 1 : f[k] = r
    OBVIOUS
  <2>1. PICK k \in 1 .. Len(s) : s[k] = r
    BY <1>1 DEF Preceding
  <2>2. k < i
    BY <1>4, <2>1 DEF Preceding
  <2> QED
    BY <2>1, <2>2
<1> HIDE DEF f
<1>9. f \in Bijection(1 .. i - 1, A)
  BY <1>6, <1>7, <1>8 DEF Bijection, Injection, IsInjective, Surjection
<1>10. ExistsBijection(1 .. i - 1, A)
  BY <1>9 DEF ExistsBijection
<1>11. i - 1 \in Nat
  OBVIOUS
<1> HIDE DEF A
<1>12. Cardinality(A) = i - 1
  BY <1>10, <1>11, FS_CountingElements
<1> QED
  BY <1>12 DEF Rank, A

\* A page holds the rows behind the offset, up to the limit.
LEMMA PageHolds ==
    ASSUME NEW S, NEW s \in Seq(S), NEW n \in Nat, NEW m \in Nat \ {0}
    PROVE  LET p == Page(s, n, m) IN
           /\ p \in Seq(S)
           /\ \A k \in 1 .. Len(p) : n + k \in 1 .. Len(s) /\ p[k] = s[n + k]
           /\ Len(p) = 0 <=> n >= Len(s)
<1> DEFINE e == IF n + m < Len(s) THEN n + m ELSE Len(s)
           p == SubSeq(s, n + 1, e)
<1>1. Len(s) \in Nat /\ e \in Nat /\ e <= Len(s)
  OBVIOUS
<1>2. p \in Seq(S) /\ Len(p) = (IF n + 1 <= e THEN e - n ELSE 0)
      /\ \A k \in 1 .. Len(p) : n + k \in 1 .. Len(s) /\ p[k] = s[n + k]
  <2> HIDE DEF e
  <2> QED
    BY <1>1
<1>3. Len(p) = 0 <=> n >= Len(s)
  BY <1>1, <1>2
<1> QED
  BY <1>2, <1>3 DEF Page

(***************************************************************************)
(* Types.                                                                  *)
(***************************************************************************)
\* Before the first page nothing is read and nothing has changed.
LEMMA TypeInitial == Init => ListingTypeOK
<1> SUFFICES ASSUME Init PROVE ListingTypeOK
  OBVIOUS
<1>1. facts \in [Rows -> SUBSET Atoms]
  BY ListingAssumption DEF Init
<1>2. first \subseteq Rows
  BY DEF Init, Listed
<1>3. query \in Queries /\ phase \in {"find", "select", "done", "refused"}
  BY DEF Init, Begins
<1>4. keys = Keys /\ keys \in [Rows -> [Columns -> Int]]
  BY ListingAssumption DEF Init
<1> QED
  BY <1>1, <1>2, <1>3, <1>4 DEF Init, ListingTypeOK

\* A page is one of an order of the rows to be listed.
LEMMA SelectShape ==
    ASSUME ListingTypeOK, Select
    PROVE  \E s \in SetToSeqs(Listed(query)) :
             LET p == Page(s, Len(got), Limit(query)) IN
             /\ Ordered(query, s) /\ s \in Seq(Listed(query))
             /\ Len(s) = Cardinality(Listed(query)) /\ Len(s) \in Nat
             /\ p \in Seq(Listed(query)) /\ p \in Seq(Rows)
             /\ \A k \in 1 .. Len(p) :
                   Len(got) + k \in 1 .. Len(s) /\ p[k] = s[Len(got) + k]
             /\ p = <<>> <=> Len(got) >= Len(s)
             /\ got' = got \o p
             /\ phase' = IF p = <<>> THEN "done" ELSE Begins(query)
<1>1. PICK s \in SetToSeqs(Listed(query)) :
         Ordered(query, s) /\ Answered(Page(s, Len(got), Limit(query)))
  BY DEF Select
<1> DEFINE p == Page(s, Len(got), Limit(query))
<1>2. Listed(query) \in SUBSET Rows
  BY DEF Listed
<1>3. s \in Seq(Listed(query)) /\ Len(s) = Cardinality(Listed(query)) /\ Len(s) \in Nat
  BY <1>2, Enumerates, RowsAreFinite
<1>4. Len(got) \in Nat /\ Limit(query) \in Nat \ {0}
  BY ListingAssumption DEF ListingTypeOK, Limit, Select
<1>5. /\ p \in Seq(Listed(query))
      /\ \A k \in 1 .. Len(p) :
            Len(got) + k \in 1 .. Len(s) /\ p[k] = s[Len(got) + k]
      /\ Len(p) = 0 <=> Len(got) >= Len(s)
  BY <1>3, <1>4, PageHolds
<1>6. got' = got \o p /\ phase' = IF p = <<>> THEN "done" ELSE Begins(query)
  BY <1>1 DEF Answered
<1> HIDE DEF p
<1>7. p \in Seq(Rows)
  BY <1>2, <1>5
<1>8. p = <<>> <=> Len(p) = 0
  BY <1>7
<1> QED
  BY <1>1, <1>3, <1>5, <1>6, <1>7, <1>8 DEF p

LEMMA TypeStep ==
    ASSUME ListingTypeOK, [Next]_vars
    PROVE  ListingTypeOK'
<1> USE DEF ListingTypeOK
<1>1. CASE Find \/ SelectFails
  BY <1>1 DEF Find, SelectFails
<1>2. CASE Select
  <2>1. PICK p \in Seq(Rows) :
           got' = got \o p /\ phase' = IF p = <<>> THEN "done" ELSE Begins(query)
    BY <1>2, SelectShape
  <2>2. got' \in Seq(Rows) /\ phase' \in {"find", "select", "done", "refused"}
    BY <2>1 DEF Begins
  <2> QED
    BY <1>2, <2>2 DEF Select
<1>3. ASSUME NEW kind \in {"grow", "shrink", "rekey"}, Change(kind)
      PROVE  /\ changes' \in Seq({"grow", "shrink", "rekey"})
             /\ UNCHANGED <<query, phase, got, first>>
  BY <1>3 DEF Change
<1>4. CASE Grow
  <2>1. facts' \in [Rows -> SUBSET Atoms]
    BY <1>4, ListingAssumption DEF Grow
  <2> QED
    BY <1>3, <1>4, <2>1 DEF Grow
<1>5. CASE Shrink
  <2>1. facts' \in [Rows -> SUBSET Atoms]
    BY <1>5 DEF Shrink
  <2> QED
    BY <1>3, <1>5, <2>1 DEF Shrink
<1>6. CASE Rekey
  <2>1. PICK r \in Rows, s \in Rows, c \in {"wallet_name", "currency"} :
           keys' = [keys EXCEPT ![r][c] = Keys[s][c]]
    BY <1>6 DEF Rekey
  <2>2. c \in Columns /\ Keys[s][c] \in Int
    BY ListingAssumption DEF Columns
  <2>3. keys' \in [Rows -> [Columns -> Int]]
    BY <2>1, <2>2
  <2>4. ASSUME NEW t \in Rows, NEW d \in Columns
        PROVE  keys'[t][d] \in {Keys[u][d] : u \in Rows}
    <3>1. keys'[t][d] = IF t = r /\ d = c THEN Keys[s][c] ELSE keys[t][d]
      BY <2>1, <2>2
    <3> QED
      BY <3>1
  <2> QED
    BY <1>3, <1>6, <2>3, <2>4 DEF Rekey
<1>7. CASE Over \/ UNCHANGED vars
  BY <1>7 DEF Over, vars
<1> QED
  BY <1>1, <1>2, <1>4, <1>5, <1>6, <1>7 DEF Next

\* Every variable of a listing has its type.
THEOREM ListingTypeCorrect == Spec => []ListingTypeOK
<1>1. Init => ListingTypeOK
  BY TypeInitial
<1>2. ListingTypeOK /\ [Next]_vars => ListingTypeOK'
  BY TypeStep
<1> QED
  BY <1>1, <1>2, PTL DEF Spec

(***************************************************************************)
(* What the client has while it reads.                                     *)
(***************************************************************************)
\* nothing but additions happened
OnlyGrown == ToSet(changes) \subseteq {"grow"}

\* The rows to be listed at the start still are, and the client has those of
\* them whose rank is below the number of rows it has.
GrowthInv ==
    /\ OnlyGrown => first \subseteq Listed(query)
    /\ OnlyGrown /\ NoTies =>
          \A r \in first : Rank(Listed(query), r) < Len(got) => r \in ToSet(got)

\* Each row the client has is in the place of its rank.
PlacesInv ==
    changes = <<>> =>
        /\ first = Listed(query)
        /\ NoTies => \A i \in 1 .. Len(got) :
                        /\ got[i] \in Listed(query)
                        /\ Rank(Listed(query), got[i]) = i - 1

\* Who has come to an empty page has as many rows as there are.
DoneInv == phase = "done" => Len(got) >= Cardinality(Listed(query))

ReadInv == ListingTypeOK /\ GrowthInv /\ PlacesInv /\ DoneInv

LEMMA ReadInitial == Init => ReadInv
<1> SUFFICES ASSUME Init PROVE ReadInv
  OBVIOUS
<1>1. ListingTypeOK
  BY TypeInitial
<1>2. got = <<>> /\ first = Listed(query) /\ phase # "done"
  BY DEF Init, Begins
<1>3. ASSUME NEW r \in first
      PROVE  ~(Rank(Listed(query), r) < 0)
  <2>1. Listed(query) \in SUBSET Rows
    BY DEF Listed
  <2>2. Preceding(Listed(query), r) \in SUBSET Rows
    BY <2>1 DEF Preceding
  <2>3. Rank(Listed(query), r) \in Nat
    BY <2>2, RowsAreFinite DEF Rank
  <2> QED
    BY <2>3
<1>4. Len(got) = 0
  BY <1>2
<1> QED
  BY <1>1, <1>2, <1>3, <1>4 DEF ReadInv, GrowthInv, PlacesInv, DoneInv

\* What a step that reads or changes nothing keeps.
LEMMA ReadUntouched ==
    ASSUME ReadInv, UNCHANGED <<facts, keys, query, got, first, changes>>,
           phase' \in {"select", "refused"}
    PROVE  GrowthInv' /\ PlacesInv' /\ DoneInv'
<1>1. Listed(query)' = Listed(query) /\ NoTies' = NoTies /\ OnlyGrown' = OnlyGrown
  BY DEF Listed, NoTies, OnlyGrown
<1>2. \A r : Rank(Listed(query), r)' = Rank(Listed(query), r)
  BY <1>1 DEF Rank, Preceding, Before, Key
<1> QED
  BY <1>1, <1>2 DEF ReadInv, GrowthInv, PlacesInv, DoneInv

\* The next page goes on where the client is: rows keep their ranks between
\* two pages, or move back behind what the client has.
LEMMA SelectReads ==
    ASSUME ReadInv, Select
    PROVE  GrowthInv' /\ PlacesInv' /\ DoneInv'
<1> DEFINE L == Listed(query)
<1>1. /\ UNCHANGED <<facts, keys, query, first, changes>>
      /\ ListingTypeOK /\ L \in SUBSET Rows /\ got \in Seq(Rows)
  BY DEF Select, ReadInv, ListingTypeOK, Listed
<1>2. PICK s \in SetToSeqs(L) :
         LET p == Page(s, Len(got), Limit(query)) IN
         /\ Ordered(query, s) /\ s \in Seq(L)
         /\ Len(s) = Cardinality(L) /\ Len(s) \in Nat
         /\ p \in Seq(L) /\ p \in Seq(Rows)
         /\ \A k \in 1 .. Len(p) : Len(got) + k \in 1 .. Len(s) /\ p[k] = s[Len(got) + k]
         /\ p = <<>> <=> Len(got) >= Len(s)
         /\ got' = got \o p
         /\ phase' = IF p = <<>> THEN "done" ELSE Begins(query)
  BY <1>1, SelectShape
<1> DEFINE p == Page(s, Len(got), Limit(query))
<1>3. /\ p \in Seq(Rows) /\ \A k \in 1 .. Len(p) : p[k] \in L
      /\ \A k \in 1 .. Len(p) : Len(got) + k \in 1 .. Len(s) /\ p[k] = s[Len(got) + k]
      /\ p = <<>> <=> Len(got) >= Len(s)
      /\ got' = got \o p /\ phase' = IF p = <<>> THEN "done" ELSE Begins(query)
  BY <1>2
<1> HIDE DEF p
<1>a. Ordered(query, s) /\ Len(s) \in Nat /\ Len(s) = Cardinality(L)
  BY <1>2
<1>b. ASSUME NoTies, NEW i \in 1 .. Len(s)
      PROVE  Rank(L, s[i]) = i - 1
  <2> HIDE DEF L
  <2> QED
    BY <1>1, <1>a, <1>b, RankIsPlace
<1>4. Listed(query)' = L /\ NoTies' = NoTies /\ OnlyGrown' = OnlyGrown
  BY <1>1 DEF Listed, NoTies, OnlyGrown
<1>5. \A r : Rank(Listed(query), r)' = Rank(L, r)
  BY <1>1, <1>4 DEF Rank, Preceding, Before, Key
<1>6. /\ Len(got') = Len(got) + Len(p) /\ Len(got) \in Nat /\ Len(p) \in Nat
      /\ \A i \in 1 .. Len(got) : got'[i] = got[i]
      /\ \A k \in 1 .. Len(p) : got'[Len(got) + k] = p[k]
      /\ DOMAIN got' = 1 .. Len(got') /\ DOMAIN got = 1 .. Len(got)
  BY <1>1, <1>3
<1>7. ASSUME NoTies, NEW k \in 1 .. Len(p)
      PROVE  p[k] \in L /\ Rank(L, p[k]) = Len(got) + k - 1
  <2>1. Len(got) + k \in 1 .. Len(s) /\ p[k] = s[Len(got) + k] /\ p[k] \in L
    BY <1>3
  <2>2. Rank(L, s[Len(got) + k]) = Len(got) + k - 1
    <3> HIDE DEF L
    <3>1. Rank(L, s[Len(got) + k]) = (Len(got) + k) - 1
      BY <1>b, <1>7, <2>1
    <3> QED
      BY <3>1
  <2> QED
    BY <2>1, <2>2
<1> HIDE DEF L
<1>8. ToSet(got) \subseteq ToSet(got')
  BY <1>6 DEF ToSet
<1>9. GrowthInv'
  <2>1. ASSUME OnlyGrown, NoTies, NEW r \in first, Rank(L, r) < Len(got')
        PROVE  r \in ToSet(got')
    <3>1. r \in L
      BY <2>1 DEF ReadInv, GrowthInv, L
    <3>2. PICK i \in 1 .. Len(s) : s[i] = r
      BY <1>1, <1>2, <3>1, Enumerates
    <3>3. Rank(L, r) = i - 1 /\ i \in Nat
      <4>1. Rank(L, s[i]) = i - 1
        BY <1>b, <2>1
      <4> QED
        BY <1>a, <3>2, <4>1
    <3>4. CASE i - 1 < Len(got)
      BY <1>8, <2>1, <3>3, <3>4 DEF ReadInv, GrowthInv, L
    <3>5. CASE ~(i - 1 < Len(got))
      <4>1. i - Len(got) \in 1 .. Len(p)
        BY <1>6, <2>1, <3>3, <3>5
      <4>2. p[i - Len(got)] = s[i] /\ got'[i] = p[i - Len(got)]
        <5>1. Len(got) + (i - Len(got)) = i
          BY <1>6, <3>3
        <5> QED
          BY <1>3, <1>6, <4>1, <5>1
      <4>3. i \in DOMAIN got'
        BY <1>6, <3>3, <4>1
      <4> QED
        BY <3>2, <4>2, <4>3 DEF ToSet
    <3> QED
      BY <3>4, <3>5
  <2>2. OnlyGrown => first' \subseteq L
    BY <1>1 DEF ReadInv, GrowthInv, L
  <2> QED
    BY <1>1, <1>4, <1>5, <2>1, <2>2 DEF GrowthInv
<1>10. PlacesInv'
  <2>1. changes = <<>> => first = L
    BY DEF ReadInv, PlacesInv, L
  <2>2. ASSUME changes = <<>>, NoTies, NEW i \in 1 .. Len(got')
        PROVE  got'[i] \in L /\ Rank(L, got'[i]) = i - 1
    <3>1. CASE i <= Len(got)
      <4>1. i \in 1 .. Len(got)
        BY <1>6, <3>1
      <4> QED
        BY <1>6, <2>2, <4>1 DEF ReadInv, PlacesInv, L
    <3>2. CASE ~(i <= Len(got))
      <4>1. i - Len(got) \in 1 .. Len(p) /\ Len(got) + (i - Len(got)) = i
        BY <1>6, <3>2
      <4>2. got'[i] = p[i - Len(got)]
        BY <1>6, <4>1
      <4> QED
        BY <1>7, <2>2, <4>1, <4>2
    <3> QED
      BY <3>1, <3>2
  <2> QED
    BY <1>1, <1>4, <1>5, <2>1, <2>2 DEF PlacesInv
<1>11. DoneInv'
  <2>1. phase' = "done" => p = <<>> /\ Len(got) >= Len(s)
    BY <1>3 DEF Begins
  <2>2. Len(s) = Cardinality(L) /\ Len(s) \in Nat
    BY <1>2 DEF L
  <2> QED
    BY <1>4, <1>6, <2>1, <2>2 DEF DoneInv
<1> QED
  BY <1>9, <1>10, <1>11

\* A row that is added has no smaller rank than before, and makes none smaller.
LEMMA GrowReads ==
    ASSUME ReadInv, Grow
    PROVE  GrowthInv' /\ PlacesInv' /\ DoneInv'
<1>1. /\ phase \in {"find", "select"} /\ changes' = Append(changes, "grow")
      /\ UNCHANGED <<query, phase, got, first, keys>>
      /\ ListingTypeOK
  BY DEF Grow, Change, ReadInv
<1>2. PICK r \in Rows : facts[r] = {} /\ facts' = [facts EXCEPT ![r] = Facts[r]]
  BY DEF Grow
<1>3. Listed(query) \subseteq Listed(query)' /\ Listed(query)' \subseteq Rows
  <2>1. ~Holds(Where(query), facts[r])
    BY <1>2, AbsentIsUnlisted
  <2>2. \A t \in Rows : t # r => facts'[t] = facts[t]
    BY <1>2
  <2> QED
    BY <1>1, <2>1, <2>2 DEF Listed
<1>4. changes' # <<>> /\ ToSet(changes) \subseteq ToSet(changes')
  <2>1. /\ changes \in Seq({"grow", "shrink", "rekey"})
    BY <1>1 DEF ListingTypeOK
  <2>2. /\ Len(changes') = Len(changes) + 1 /\ Len(changes) \in Nat
        /\ \A i \in 1 .. Len(changes) : changes'[i] = changes[i]
        /\ DOMAIN changes = 1 .. Len(changes) /\ DOMAIN changes' = 1 .. Len(changes')
    BY <1>1, <2>1
  <2>3. ToSet(changes) \subseteq ToSet(changes')
    BY <2>2 DEF ToSet
  <2>4. changes' # <<>>
    BY <2>2
  <2> QED
    BY <2>3, <2>4
<1>5. OnlyGrown' => OnlyGrown
  BY <1>4 DEF OnlyGrown
<1>6. NoTies' = NoTies
  BY <1>1 DEF NoTies
<1>7. ASSUME NEW t \in Rows
      PROVE  /\ Rank(Listed(query), t) \in Nat /\ Rank(Listed(query), t)' \in Nat
             /\ Rank(Listed(query), t) <= Rank(Listed(query), t)'
  <2>1. Rank(Listed(query), t)' = Rank(Listed(query)', t)
    BY <1>1 DEF Rank, Preceding, Before, Key
  <2>2. Listed(query) \in SUBSET Rows
    BY DEF Listed
  <2> QED
    BY <1>3, <2>1, <2>2, RankGrows
<1>8. GrowthInv'
  <2>1. OnlyGrown' => first' \subseteq Listed(query)'
    BY <1>1, <1>3, <1>5 DEF ReadInv, GrowthInv
  <2>2. ASSUME OnlyGrown', NoTies', NEW t \in first',
               Rank(Listed(query), t)' < Len(got')
        PROVE  t \in ToSet(got)'
    <3>1. t \in first /\ t \in Rows /\ Len(got) \in Nat
      BY <1>1, <2>2 DEF ListingTypeOK
    <3>2. Rank(Listed(query), t) < Len(got)
      BY <1>1, <1>7, <2>2, <3>1
    <3> QED
      BY <1>1, <1>5, <1>6, <2>2, <3>1, <3>2 DEF ReadInv, GrowthInv, ToSet
  <2> QED
    BY <2>1, <2>2 DEF GrowthInv
<1>9. PlacesInv' /\ DoneInv'
  BY <1>1, <1>4 DEF PlacesInv, DoneInv
<1> QED
  BY <1>8, <1>9

\* A removal or a new key ends what is promised.
LEMMA ChangeReads ==
    ASSUME ReadInv, Shrink \/ Rekey
    PROVE  GrowthInv' /\ PlacesInv' /\ DoneInv'
<1>1. PICK kind \in {"shrink", "rekey"} : Change(kind)
  BY DEF Shrink, Rekey
<1>2. /\ phase' \in {"find", "select"} /\ changes' = Append(changes, kind)
      /\ changes \in Seq({"grow", "shrink", "rekey"})
  BY <1>1 DEF Change, ReadInv, ListingTypeOK
<1>3. /\ Len(changes') = Len(changes) + 1 /\ Len(changes) \in Nat
      /\ changes'[Len(changes')] = kind /\ DOMAIN changes' = 1 .. Len(changes')
  BY <1>2
<1>4. changes' # <<>>
  BY <1>3
<1>5. ~OnlyGrown'
  <2>1. kind \in ToSet(changes')
    BY <1>3 DEF ToSet
  <2> QED
    BY <2>1 DEF OnlyGrown
<1> QED
  BY <1>2, <1>4, <1>5 DEF GrowthInv, PlacesInv, DoneInv

LEMMA ReadStep ==
    ASSUME ReadInv, [Next]_vars
    PROVE  ReadInv'
<1>1. ListingTypeOK'
  BY TypeStep DEF ReadInv
<1>2. CASE Find \/ SelectFails
  BY <1>1, <1>2, ReadUntouched DEF Find, SelectFails, ReadInv
<1>3. CASE Select
  BY <1>1, <1>3, SelectReads DEF ReadInv
<1>4. CASE Grow
  BY <1>1, <1>4, GrowReads DEF ReadInv
<1>5. CASE Shrink \/ Rekey
  BY <1>1, <1>5, ChangeReads DEF ReadInv
<1>6. CASE Over \/ UNCHANGED vars
  <2>1. UNCHANGED <<facts, keys, query, phase, got, first, changes>>
    BY <1>6 DEF Over, vars
  <2>2. Listed(query)' = Listed(query) /\ NoTies' = NoTies /\ OnlyGrown' = OnlyGrown
    BY <2>1 DEF Listed, NoTies, OnlyGrown
  <2>3. \A r : Rank(Listed(query), r)' = Rank(Listed(query), r)
    BY <2>1, <2>2 DEF Rank, Preceding, Before, Key
  <2> QED
    BY <1>1, <2>1, <2>2, <2>3 DEF ReadInv, GrowthInv, PlacesInv, DoneInv
<1> QED
  BY <1>2, <1>3, <1>4, <1>5, <1>6 DEF Next

\* What the client has while it reads, in every behaviour.
THEOREM ReadInductive == Spec => []ReadInv
<1>1. Init => ReadInv
  BY ReadInitial
<1>2. ReadInv /\ [Next]_vars => ReadInv'
  BY ReadStep
<1> QED
  BY <1>1, <1>2, PTL DEF Spec

\* A client that came to the end has every row that was there when it began,
\* however many were added between its pages.
THEOREM GrowthIsHarmless == Spec => []GrowthHidesNothing
<1>1. ReadInv => GrowthHidesNothing
  <2> SUFFICES ASSUME ReadInv, phase = "done", NoTies, OnlyGrown, NEW r \in first
               PROVE  r \in ToSet(got)
    BY DEF GrowthHidesNothing, OnlyGrown
  <2>1. r \in Listed(query) /\ Listed(query) \in SUBSET Rows
    BY DEF ReadInv, GrowthInv, Listed
  <2>2. /\ Rank(Listed(query), r) < Cardinality(Listed(query))
        /\ Rank(Listed(query), r) \in Nat /\ Cardinality(Listed(query)) \in Nat
    BY <2>1, RankBound, RowsAreFinite DEF ReadInv
  <2>3. Len(got) >= Cardinality(Listed(query)) /\ Len(got) \in Nat
    BY DEF ReadInv, DoneInv, ListingTypeOK
  <2> QED
    BY <2>2, <2>3 DEF ReadInv, GrowthInv
<1> QED
  BY <1>1, ReadInductive, PTL

\* Without changes the pages put together are the listing: every row once, in
\* the order that was asked for, whatever the limit.
THEOREM PagesAreComplete == Spec => []PagesAreTheListing
<1>1. ReadInv => PagesAreTheListing
  <2> SUFFICES ASSUME ReadInv, phase = "done", NoTies, changes = <<>>
               PROVE  /\ ToSet(got) = first /\ Len(got) = Cardinality(first)
                      /\ Ordered(query, got)
    BY DEF PagesAreTheListing
  <2>1. /\ ListingTypeOK /\ first \in SUBSET Rows /\ first = Listed(query)
        /\ got \in Seq(Rows) /\ Len(got) \in Nat /\ DOMAIN got = 1 .. Len(got)
        /\ Cardinality(first) \in Nat
    BY RowsAreFinite DEF ReadInv, PlacesInv, ListingTypeOK
  <2>2. ASSUME NEW i \in 1 .. Len(got)
        PROVE  got[i] \in first /\ Rank(first, got[i]) = i - 1
    BY <2>1 DEF ReadInv, PlacesInv
  <2>3. Len(got) >= Cardinality(first)
    BY <2>1 DEF ReadInv, DoneInv
  <2>4. Len(got) <= Cardinality(first)
    <3>1. CASE Len(got) = 0
      BY <2>1, <3>1
    <3>2. CASE Len(got) # 0
      <4>1. Len(got) \in 1 .. Len(got)
        BY <2>1, <3>2
      <4>2. Len(got) - 1 < Cardinality(first)
        BY <2>1, <2>2, <4>1, RankBound
      <4> QED
        BY <2>1, <4>2
    <3> QED
      BY <3>1, <3>2
  <2>5. Len(got) = Cardinality(first)
    BY <2>1, <2>3, <2>4
  <2>6. first \subseteq ToSet(got)
    <3> SUFFICES ASSUME NEW r \in first PROVE r \in ToSet(got)
      OBVIOUS
    <3>1. Rank(first, r) < Len(got)
      BY <2>1, <2>5, RankBound
    <3>2. OnlyGrown
      BY DEF OnlyGrown, ToSet
    <3> QED
      BY <2>1, <3>1, <3>2 DEF ReadInv, GrowthInv
  <2>7. ToSet(got) \subseteq first
    BY <2>1, <2>2 DEF ToSet
  <2>8. Ordered(query, got)
    <3>1. ASSUME NEW i \in 1 .. Len(got), NEW j \in 1 .. Len(got), i < j
          PROVE  IF query.descending THEN Key(got[i]) >= Key(got[j])
                                     ELSE Key(got[i]) <= Key(got[j])
      <4>1. ~Before(got[j], got[i])
        <5>1. Rank(first, got[i]) = i - 1 /\ Rank(first, got[j]) = j - 1
          BY <2>2
        <5>2. ~(Rank(first, got[j]) < Rank(first, got[i]))
          BY <3>1, <5>1
        <5> QED
          BY <2>1, <2>2, <5>2, RankFollowsOrder
      <4>2. Key(got[i]) \in Int /\ Key(got[j]) \in Int
        BY <2>1, <2>2, KeyType
      <4> QED
        BY <4>1, <4>2 DEF Before
    <3> QED
      BY <2>1, <3>1 DEF Ordered, Key
  <2> QED
    BY <2>5, <2>6, <2>7, <2>8
<1> QED
  BY <1>1, ReadInductive, PTL
=============================================================================
