---------------------------- MODULE WalletStore -----------------------------
(***************************************************************************)
(* internal/store over PostgreSQL in READ COMMITTED mode: the tables the   *)
(* service keeps and the statements it runs on them.                       *)
(*                                                                         *)
(* A wallet has a committed version (rows) and, while a transaction has    *)
(* written it, a newer one (latest) that only the holder of its row lock   *)
(* sees.  Commit makes the newer versions current, rollback drops them.    *)
(***************************************************************************)
EXTENDS Currency

CONSTANTS
    Wallets,    \* wallet ids
    Users,      \* user ids a token may carry
    KnownUsers, \* table users, as the consumer of topic users filled it
    Requests,   \* HTTP requests; the id also names the transaction row
    Archiver,   \* the goroutine that archives stale wallets
    Free,       \* no holder of a row lock
    Null        \* SQL NULL; also the version of a wallet id that has no row

ASSUME StoreAssumption ==
    /\ KnownUsers \subseteq Users
    /\ Archiver \notin Requests
    /\ Free \notin Requests \cup {Archiver}
    /\ Null \notin [owner : Users, currency : Spellings, balance : Int,
                     active : BOOLEAN, deleted : BOOLEAN, stale : BOOLEAN]

VARIABLES
    rows,           \* the committed version of each wallet
    latest,         \* the newest version, committed or not
    lock,           \* the holder of each row lock
    transactions    \* the committed rows of table transactions

storeVars == <<rows, latest, lock, transactions>>

Procs == Requests \cup {Archiver}

\* A row of table wallets.  updated_at is kept as far as ArchiveStaleWallets
\* tells its values apart: stale when it lies before the cut-off.
Row == [owner : Users, currency : Spellings, balance : Int,
        active : BOOLEAN, deleted : BOOLEAN, stale : BOOLEAN]

\* A row of table transactions.
TxRow == [id : Requests, type : {"deposit", "withdraw", "transfer"},
          to : Wallets \cup {Null}, from : Wallets \cup {Null},
          amount : Nat \ {0}, currency : Spellings]

NewWallet(user, currency) ==
    [owner |-> user, currency |-> currency, balance |-> 0,
     active |-> TRUE, deleted |-> FALSE, stale |-> FALSE]

(***************************************************************************)
(* WHERE clauses.                                                          *)
(***************************************************************************)
\* ... user_id = $ AND deleted_at IS NULL
Present(r, user) == r # Null /\ r.owner = user /\ ~r.deleted

\* ... user_id = $ AND active = true
Spendable(r, user) == r # Null /\ r.owner = user /\ r.active

\* ... user_id = $ AND deleted_at IS NULL AND active = true
Removable(r, user) == Present(r, user) /\ r.active

\* ... balance = 0 AND active = true AND updated_at < NOW() - INTERVAL
Archivable(r) == r # Null /\ r.balance = 0 /\ r.active /\ r.stale

(***************************************************************************)
(* New versions of a row, and the constraint they are checked against.     *)
(***************************************************************************)
Credited(r, amount) == [r EXCEPT !.balance = r.balance + amount, !.stale = FALSE]

Debited(r, amount) == [r EXCEPT !.balance = r.balance - amount, !.stale = FALSE]

Converted(r, currency, rate) ==
    [r EXCEPT !.currency = Upper[currency],
              !.balance = Convert(r.balance, rate), !.stale = FALSE]

\* mutant: the deletion does not make the wallet inactive
Mut_Removed(r) == [r EXCEPT !.deleted = TRUE]

Removed(r) == [r EXCEPT !.deleted = TRUE, !.active = FALSE]

Archived(r) == [r EXCEPT !.active = FALSE]

\* mutant: the table has no constraint
Mut_CheckHolds(r) == TRUE

\* CHECK (balance >= 0)
CheckHolds(r) == r.balance >= 0

(***************************************************************************)
(* Row locks and transactions.                                             *)
(***************************************************************************)
\* the version of w a statement of p sees
Visible(p, w) == IF lock[w] = p THEN latest[w] ELSE rows[w]

\* UPDATE inside a transaction of p: lock the row, write a new version
Write(p, w, r) ==
    /\ latest' = [latest EXCEPT ![w] = r]
    /\ lock' = [lock EXCEPT ![w] = p]

Release(p) == [w \in Wallets |-> IF lock[w] = p THEN Free ELSE lock[w]]

\* a statement on the pool, outside any transaction, commits at once
WriteThrough(w, r) ==
    /\ rows' = [rows EXCEPT ![w] = r]
    /\ latest' = [latest EXCEPT ![w] = r]

\* COMMIT of what p wrote
Install(p) ==
    /\ rows' = [w \in Wallets |-> Visible(p, w)]
    /\ lock' = Release(p)
    /\ UNCHANGED latest

\* ROLLBACK of what p wrote
Discard(p) ==
    /\ latest' = [w \in Wallets |-> IF lock[w] = p THEN rows[w] ELSE latest[w]]
    /\ lock' = Release(p)
    /\ UNCHANGED <<rows, transactions>>

StoreTypeOK ==
    /\ rows \in [Wallets -> Row \cup {Null}]
    /\ latest \in [Wallets -> Row \cup {Null}]
    /\ lock \in [Wallets -> Procs \cup {Free}]
    /\ transactions \subseteq TxRow
=============================================================================
