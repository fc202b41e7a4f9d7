------------------------------ MODULE Listing -------------------------------
(***************************************************************************)
(* GET /wallets and GET /wallets/{walletId}/transactions, and a client     *)
(* that reads a listing page by page while the tables change.              *)
(***************************************************************************)
EXTENDS Integers, SequencesExt

CONSTANTS
    Rows,           \* rows of the table, present or to come
    Facts,          \* what each row is: the atoms of WHERE that hold of it
    Keys,           \* its value in every column a listing may be sorted by
    Queries,        \* the query strings that occur
    DefaultLimit,   \* rest.DefaultLimit
    MaxChanges      \* bound: changes to the table while the client reads

Endpoints == {"wallets", "transactions"}
Atoms == {"own", "undeleted", "active", "to", "from", "filter"}
Columns == {"wallet_name", "currency", "transaction_type"}

ASSUME ListingAssumption ==
    /\ IsFiniteSet(Rows)
    /\ Facts \in [Rows -> SUBSET Atoms]
    /\ Keys \in [Rows -> [Columns -> Int]]
    /\ \A q \in Queries : /\ q.endpoint \in Endpoints
                          /\ {q.descending, q.filter} \subseteq BOOLEAN
                          /\ q.sorting \in STRING /\ q.limit \in Int
    /\ DefaultLimit \in Nat \ {0} /\ MaxChanges \in Nat

VARIABLES
    facts,      \* the table: a row to come has no facts
    keys,
    query,      \* what the client asks for
    phase,      \* what the request for the next page does
    got,        \* the rows of the pages the client has
    first,      \* history: the rows to be listed when it began
    changes     \* history: the kinds of changes since, one for each

vars == <<facts, keys, query, phase, got, first, changes>>

(***************************************************************************)
(* The query.                                                              *)
(***************************************************************************)
\* parseGetRequest.  A limit that is absent or that ParseInt cannot read is
\* a limit of 0, and stands for the default.
Limit(q) == IF q.limit = 0 THEN DefaultLimit ELSE q.limit

\* GetWalletsQuery and GetTransactionsQuery: the column, or the default one
SortColumn(q) ==
    LET valid == IF q.endpoint = "wallets" THEN {"wallet_name", "currency"}
                                           ELSE {"transaction_type", "currency"}
    IN  CASE q.sorting \in valid -> q.sorting
          [] q.sorting \notin valid /\ q.endpoint = "wallets" -> "currency"
          [] OTHER -> "transaction_type"

\* the WHERE clause, as it is written
Where(q) ==
    LET filter == IF q.filter THEN <<"AND", "filter">> ELSE <<>> IN
    IF q.endpoint = "wallets"
    THEN <<"undeleted", "AND", "active", "AND", "own">> \o filter
    ELSE <<"to", "OR", "from">> \o filter

\* what PostgreSQL makes of it: AND binds before OR
Holds(clause, row) ==
    \E i \in 1 .. Len(clause) : \E j \in i .. Len(clause) :
        /\ i = 1 \/ clause[i - 1] = "OR"
        /\ j = Len(clause) \/ clause[j + 1] = "OR"
        /\ \A k \in i .. j : clause[k] # "OR" /\ (clause[k] = "AND" \/ clause[k] \in row)

Listed(q) == {r \in Rows : Holds(Where(q), facts[r])}

\* ORDER BY one column: rows with the same value come in any order
Ordered(q, s) ==
    \A i, j \in DOMAIN s :
        LET x == keys[s[i]][SortColumn(q)]
            y == keys[s[j]][SortColumn(q)]
        IN  i < j => IF q.descending THEN x >= y ELSE x <= y

\* mutant: OFFSET counts from one
Mut_Page(s, offset, limit) ==
    SubSeq(s, offset + 2, IF offset + 1 + limit < Len(s) THEN offset + 1 + limit ELSE Len(s))

\* LIMIT and OFFSET
Page(s, offset, limit) ==
    SubSeq(s, offset + 1, IF offset + limit < Len(s) THEN offset + limit ELSE Len(s))

(***************************************************************************)
(* A client that asks for the page behind the rows it has, until a page is *)
(* empty or refused.  Every page is a request of its own.                  *)
(***************************************************************************)
\* GetTransactions looks for the wallet before it reads
Begins(q) == IF q.endpoint = "transactions" THEN "find" ELSE "select"

Init ==
    /\ \E S \in SUBSET Rows :
         facts = [r \in Rows |-> IF r \in S THEN Facts[r] ELSE {}]
    /\ keys = Keys
    /\ query \in Queries /\ phase = Begins(query)
    /\ got = <<>> /\ changes = <<>>
    /\ first = Listed(query)

Find ==
    /\ phase = "find"
    /\ phase' \in {"select", "refused"}
    /\ UNCHANGED <<facts, keys, query, got, first, changes>>

\* a page is answered
Answered(page) ==
    /\ got' = got \o page
    /\ phase' = IF page = <<>> THEN "done" ELSE Begins(query)

\* mutant: no ORDER BY
Mut_Select ==
    /\ phase = "select" /\ Limit(query) > 0
    /\ \E s \in SetToSeqs(Listed(query)) :
         Answered(Page(s, Len(got), Limit(query)))
    /\ UNCHANGED <<facts, keys, query, first, changes>>

Select ==
    /\ phase = "select" /\ Limit(query) > 0
    /\ \E s \in SetToSeqs(Listed(query)) :
         Ordered(query, s) /\ Answered(Page(s, Len(got), Limit(query)))
    /\ UNCHANGED <<facts, keys, query, first, changes>>

\* an error of the database: a negative LIMIT is one; the answer is 404
SelectFails ==
    /\ phase = "select"
    /\ phase' = "refused"
    /\ UNCHANGED <<facts, keys, query, got, first, changes>>

(***************************************************************************)
(* Meanwhile other requests change the table.                              *)
(***************************************************************************)
Change(kind) ==
    /\ phase \in {"find", "select"} /\ Len(changes) < MaxChanges
    /\ changes' = Append(changes, kind)
    /\ UNCHANGED <<query, phase, got, first>>

\* a wallet is created, a transaction committed
Grow ==
    /\ Change("grow")
    /\ \E r \in Rows : facts[r] = {} /\ facts' = [facts EXCEPT ![r] = Facts[r]]
    /\ UNCHANGED keys

\* a wallet is deleted or archived; nothing removes a transaction
Shrink ==
    /\ query.endpoint = "wallets"
    /\ Change("shrink")
    /\ \E r \in Rows, a \in {"active", "undeleted"} :
         a \in facts[r] /\ facts' = [facts EXCEPT ![r] = @ \ {a}]
    /\ UNCHANGED keys

\* mutant: the name is written into the column of the currency
Mut_Rekey ==
    /\ query.endpoint = "wallets"
    /\ Change("rekey")
    /\ \E r, s \in Rows :
         facts[r] # {} /\ keys' = [keys EXCEPT ![r].currency = Keys[s].wallet_name]
    /\ UNCHANGED facts

\* UpdateWallet changes the name or the currency
Rekey ==
    /\ query.endpoint = "wallets"
    /\ Change("rekey")
    /\ \E r, s \in Rows, c \in {"wallet_name", "currency"} :
         facts[r] # {} /\ keys' = [keys EXCEPT ![r][c] = Keys[s][c]]
    /\ UNCHANGED facts

Over == phase \in {"done", "refused"} /\ UNCHANGED vars

Next == Find \/ Select \/ SelectFails \/ Grow \/ Shrink \/ Rekey \/ Over

Spec == Init /\ [][Next]_vars

(***************************************************************************)
(* Properties.                                                             *)
(***************************************************************************)
\* Every variable has its type, and a column keeps to its own values.
ListingTypeOK ==
    /\ facts \in [Rows -> SUBSET Atoms]
    /\ keys \in [Rows -> [Columns -> Int]]
    /\ \A r \in Rows, c \in Columns : keys[r][c] \in {Keys[s][c] : s \in Rows}
    /\ query \in Queries /\ phase \in {"find", "select", "done", "refused"}
    /\ got \in Seq(Rows) /\ first \subseteq Rows
    /\ changes \in Seq({"grow", "shrink", "rekey"})

\* the sort column tells all rows apart
NoTies == \A r, s \in Rows : r # s => keys[r][SortColumn(query)] # keys[s][SortColumn(query)]

\* Without ties and changes the pages hold every row to be listed once, in
\* order.
PagesAreTheListing ==
    phase = "done" /\ NoTies /\ changes = <<>> =>
        /\ ToSet(got) = first /\ Len(got) = Cardinality(first)
        /\ Ordered(query, got)

\* Rows that are added between two pages push others back, so a page may
\* repeat one, but no row that was there is missed.
GrowthHidesNothing ==
    phase = "done" /\ NoTies /\ ToSet(changes) \subseteq {"grow"} =>
        first \subseteq ToSet(got)
=============================================================================
