--------------------------- MODULE WalletService ----------------------------
(***************************************************************************)
(* internal/service and the handlers of internal/rest above it: every HTTP *)
(* request that changes state is a process, and so is the goroutine that   *)
(* archives stale wallets.  A process runs one SQL statement, one call of  *)
(* the rate service or one Kafka send per step, and the steps interleave.  *)
(*                                                                         *)
(* The reading statement of a transaction, store.GetWallet, ends in FOR    *)
(* UPDATE but is sent to the pool, not to the transaction: it waits for    *)
(* the row lock and then lets it go, so the row may change before the      *)
(* transaction writes it.                                                  *)
(***************************************************************************)
EXTENDS WalletStore, FiniteSets

CONSTANTS
    Bodies,         \* the requests a client may send
    Seed,           \* the rows of table wallets at the start
    Concurrency,    \* bound: requests in flight at the same time
    Rounds          \* bound: ticks of the archiving goroutine

MoneyOps == {"deposit", "withdraw", "transfer"}

WalletOps == {"create", "update", "delete"}

\* models.Transaction as a client sends it; a wallet left out is Null.
MoneyBody == [op : MoneyOps, user : Users, to : Wallets \cup {Null},
              from : Wallets \cup {Null}, amount : Int,
              currency : Spellings, malformed : BOOLEAN]

\* models.Wallet, models.WalletUpdate or, for a delete, the path alone.
WalletBody == [op : WalletOps, user : Users, wallet : Wallets, owner : Users,
               name : {"", "name"}, currency : Spellings, malformed : BOOLEAN]

ASSUME ServiceAssumption ==
    /\ Bodies \subseteq MoneyBody \cup WalletBody
    /\ Seed \in [Wallets -> Row \cup {Null}]
    /\ \A w \in Wallets : Seed[w] # Null =>
         /\ Seed[w].balance >= 0
         /\ Seed[w].deleted => ~Seed[w].active
         /\ ~Seed[w].deleted /\ ~Seed[w].active => Seed[w].balance = 0
    /\ "" \in Spellings
    /\ Null \notin MoneyBody \cup WalletBody \cup Wallets
    /\ Concurrency \in Nat /\ Rounds \in Nat

VARIABLES
    pc,         \* what each request does next
    call,       \* the request as decoded by its handler
    seen,       \* what the request's reads returned
    rate,       \* the exchange rate it uses
    outcome,    \* the error its handler returned, "ok" or "lost"
    announced,  \* the requests whose message is in topic transaction_update
    applied,    \* history: the requests that have a change committed
    arch        \* the archiving goroutine

requestVars == <<pc, call, seen, rate, outcome>>
vars == <<rows, latest, lock, transactions, pc, call, seen, rate, outcome,
          announced, applied, arch>>

Stages == {"idle", "insert", "verify", "read", "readTo", "quote", "write",
           "credit", "remove", "publish", "commit", "done"}

Outcomes == {"none", "ok", "invalid", "wrongUser", "walletNotFound",
             "wrongCurrency", "insufficientFunds", "nonZeroBalance",
             "foreignKey", "duplicateKey", "balanceCheck", "internal", "lost"}

NoView == [currency |-> "", balance |-> 0]
Views == [currency : Spellings, balance : Int]
View(r) == [currency |-> r.currency, balance |-> r.balance]

Busy(p) == pc[p] \notin {"idle", "done"}

InFlight == {p \in Requests : Busy(p)}

Init ==
    /\ rows = Seed /\ latest = Seed
    /\ lock = [w \in Wallets |-> Free]
    /\ transactions = {}
    /\ pc = [p \in Requests |-> "idle"]
    /\ call = [p \in Requests |-> Null]
    /\ seen = [p \in Requests |-> [first |-> NoView, second |-> NoView]]
    /\ rate = [p \in Requests |-> DefaultRate]
    /\ outcome = [p \in Requests |-> "none"]
    /\ announced = {} /\ applied = {}
    /\ arch = [pc |-> "idle", at |-> Null, todo |-> {}, rounds |-> 0]

(***************************************************************************)
(* The statement a request runs next.                                      *)
(***************************************************************************)
Target(p) ==
    CASE call[p].op \in WalletOps -> call[p].wallet
      [] call[p].op = "deposit" \/ pc[p] \in {"readTo", "credit"} -> call[p].to
      [] OTHER -> call[p].from

\* mutant: the WHERE clauses forget user_id
Mut_Matches(p, r) ==
    CASE pc[p] \in {"verify", "read", "readTo"} -> r # Null /\ ~r.deleted
      [] pc[p] = "remove" -> Removable(r, call[p].user)
      [] OTHER -> r # Null /\ r.active

\* its WHERE clause
Matches(p, r) ==
    CASE pc[p] \in {"verify", "read", "readTo"} -> Present(r, call[p].user)
      [] pc[p] = "remove" -> Removable(r, call[p].user)
      [] pc[p] = "write" /\ call[p].op = "update" -> Present(r, call[p].user)
      [] OTHER -> Spendable(r, call[p].user)

Hits(p) == Matches(p, Visible(p, Target(p)))

\* A statement waits for the lock of the row it finds; one that finds no
\* row does not wait.
Waits(p) ==
    /\ pc[p] \in {"verify", "read", "readTo", "write", "credit", "remove"}
    /\ Hits(p)
    /\ lock[Target(p)] \notin {Free, p}

(***************************************************************************)
(* Validation, before anything shared is touched.                          *)
(***************************************************************************)
\* Validate compares the two pointers: equal only when both are nil.
SameWallet(b) == b.from = Null /\ b.to = Null

\* mutant: the amount is not looked at
Mut_ValidTransaction(b) ==
    /\ ~SameWallet(b)
    /\ b.op = "deposit" => b.to # Null /\ b.from = Null
    /\ b.op = "withdraw" => b.to = Null /\ b.from # Null
    /\ b.op = "transfer" => b.to # Null /\ b.from # Null

ValidTransaction(b) ==
    /\ b.amount > 0
    /\ ~SameWallet(b)
    /\ b.op = "deposit" => b.to # Null /\ b.from = Null
    /\ b.op = "withdraw" => b.to = Null /\ b.from # Null
    /\ b.op = "transfer" => b.to # Null /\ b.from # Null

\* mutant: no handler returns after answering 400 to a malformed body
Mut_Invalid(b) ==
    \/ b.op \in MoneyOps /\ ~ValidTransaction(b)
    \/ b.op = "create" /\ b.name = ""

\* The transfer handler answers 400 to a body it cannot decode and goes on
\* with the fields it did decode.
Invalid(b) ==
    \/ b.malformed /\ b.op # "transfer"
    \/ b.op \in MoneyOps /\ ~ValidTransaction(b)
    \/ b.op = "create" /\ b.name = ""

Validated(b) ==
    CASE Invalid(b) -> "invalid"
      [] ~Invalid(b) /\ b.op = "create" /\ b.owner # b.user -> "wrongUser"
      [] OTHER -> "ok"

(***************************************************************************)
(* How a step of a request ends.                                           *)
(***************************************************************************)
\* the handler goes on to stage s
Goto(p, s) == pc' = [pc EXCEPT ![p] = s] /\ UNCHANGED outcome

\* the handler returns; its local variables are gone
Finish(p, e) ==
    /\ pc' = [pc EXCEPT ![p] = "done"]
    /\ outcome' = [outcome EXCEPT ![p] = e]
    /\ seen' = [seen EXCEPT ![p] = [first |-> NoView, second |-> NoView]]
    /\ rate' = [rate EXCEPT ![p] = DefaultRate]
    /\ UNCHANGED call

\* mutant: DoWithTx returns without a rollback
Mut_Abort(p, e) == Finish(p, e) /\ UNCHANGED <<storeVars, applied, arch>>

\* DoWithTx returns the error e: the deferred Rollback runs
Abort(p, e) == Finish(p, e) /\ Discard(p) /\ UNCHANGED <<applied, arch>>

Receive(p) ==
    /\ pc[p] = "idle" /\ arch.pc # "dying"
    /\ Cardinality(InFlight) < Concurrency
    /\ \E b \in Bodies :
         /\ call' = [call EXCEPT ![p] = b]
         /\ IF Validated(b) = "ok"
            THEN Goto(p, IF b.op = "create" THEN "insert" ELSE "read")
            ELSE /\ pc' = [pc EXCEPT ![p] = "done"]
                 /\ outcome' = [outcome EXCEPT ![p] = Validated(b)]
    /\ UNCHANGED <<rows, latest, lock, transactions, seen, rate,
                   announced, applied, arch>>

(***************************************************************************)
(* CreateWallet and DeleteWallet: statements on the pool, no transaction.  *)
(***************************************************************************)
\* the INSERT; acknowledged says whether its success reaches the handler
Insert(p, acknowledged) ==
    LET b == call[p] IN
    /\ pc[p] = "insert"
    /\ IF b.user \in KnownUsers /\ rows[b.wallet] = Null
       THEN /\ WriteThrough(b.wallet, NewWallet(b.user, b.currency))
            /\ applied' = applied \cup {p}
            /\ IF acknowledged
               THEN Goto(p, "verify") /\ UNCHANGED <<call, seen, rate>>
               ELSE Finish(p, "internal")
       ELSE /\ acknowledged
            /\ Finish(p, IF b.user \in KnownUsers THEN "duplicateKey"
                                                 ELSE "foreignKey")
            /\ UNCHANGED <<rows, latest, applied>>
    /\ UNCHANGED <<lock, transactions, announced, arch>>

\* CreateWallet reads the wallet back and only logs what it finds.
Verify(p) ==
    /\ pc[p] = "verify" /\ ~Waits(p)
    /\ Finish(p, "ok")
    /\ UNCHANGED <<rows, latest, lock, transactions, announced, applied, arch>>

\* the UPDATE of DeleteWallet; nobody counts the rows it affects
Remove(p, acknowledged) ==
    /\ pc[p] = "remove" /\ ~Waits(p)
    /\ IF Hits(p)
       THEN /\ WriteThrough(Target(p), Removed(rows[Target(p)]))
            /\ applied' = applied \cup {p}
       ELSE UNCHANGED <<rows, latest, applied>>
    /\ Finish(p, IF acknowledged THEN "ok" ELSE "internal")
    /\ UNCHANGED <<lock, transactions, announced, arch>>

(***************************************************************************)
(* store.GetWallet: the first read of every operation but create, and the  *)
(* second one of a transfer.                                               *)
(***************************************************************************)
AfterRead(p) ==
    CASE call[p].op = "transfer" -> "readTo"
      [] call[p].op = "delete" -> "remove"
      [] OTHER -> "quote"

ReadWallet(p) ==
    /\ pc[p] = "read" /\ ~Waits(p)
    /\ \/ /\ ~Hits(p)
          /\ Abort(p, "walletNotFound")
       \/ /\ Hits(p) /\ call[p].op = "delete"
          /\ rows[Target(p)].balance # 0
          /\ Abort(p, "nonZeroBalance")
       \/ /\ Hits(p)
          /\ call[p].op = "delete" => rows[Target(p)].balance = 0
          /\ seen' = [seen EXCEPT ![p].first = View(rows[Target(p)])]
          /\ Goto(p, AfterRead(p))
          /\ UNCHANGED <<rows, latest, lock, transactions, call, rate,
                         applied, arch>>
    /\ UNCHANGED announced

ReadTarget(p) ==
    /\ pc[p] = "readTo" /\ ~Waits(p)
    /\ \/ /\ ~Hits(p)
          /\ Abort(p, "walletNotFound")
       \/ /\ Hits(p)
          /\ seen' = [seen EXCEPT ![p].second = View(rows[Target(p)])]
          /\ Goto(p, "quote")
          /\ UNCHANGED <<rows, latest, lock, transactions, call, rate,
                         applied, arch>>
    /\ UNCHANGED announced

(***************************************************************************)
(* What an operation decides from what it read: the rate, then the checks. *)
(***************************************************************************)
RateFor(same, from, to) == IF same THEN DefaultRate ELSE GetRate(from, to)

\* go on with the rate when there is one and Enough; else return the error
Quote(p, same, from, to, enough) ==
    \/ /\ ~same /\ ~HasRate(from, to)
       /\ Abort(p, "wrongCurrency")
    \/ /\ same \/ HasRate(from, to)
       /\ ~enough
       /\ Abort(p, "insufficientFunds")
    \/ /\ same \/ HasRate(from, to)
       /\ enough
       /\ rate' = [rate EXCEPT ![p] = RateFor(same, from, to)]
       /\ Goto(p, "write")
       /\ UNCHANGED <<rows, latest, lock, transactions, call, seen,
                      applied, arch>>

\* the currency UpdateWallet sets: a blank one keeps what was read
NewCurrency(p) ==
    IF call[p].currency = "" THEN seen[p].first.currency ELSE call[p].currency

\* mutant: the currencies of the rate are swapped
Mut_QuoteUpdate(p) ==
    LET old == seen[p].first.currency
        new == NewCurrency(p)
    IN  /\ pc[p] = "quote" /\ call[p].op = "update"
        /\ Quote(p, old = Upper[new], new, old, TRUE)
        /\ UNCHANGED announced

QuoteUpdate(p) ==
    LET old == seen[p].first.currency
        new == NewCurrency(p)
    IN  /\ pc[p] = "quote" /\ call[p].op = "update"
        /\ Quote(p, old = Upper[new], old, new, TRUE)
        /\ UNCHANGED announced

QuoteDeposit(p) ==
    LET c == call[p].currency
        d == seen[p].first.currency
    IN  /\ pc[p] = "quote" /\ call[p].op = "deposit"
        /\ Quote(p, EqualFold(c, d), c, d, TRUE)
        /\ UNCHANGED announced

QuoteWithdraw(p) ==
    LET c == call[p].currency
        d == seen[p].first.currency
        cost == Convert(call[p].amount, RateFor(EqualFold(c, d), c, d))
    IN  /\ pc[p] = "quote" /\ call[p].op = "withdraw"
        /\ Quote(p, EqualFold(c, d), c, d, seen[p].first.balance >= cost)
        /\ UNCHANGED announced

\* The balance is compared only when the source's currency is stored in
\* upper case.
QuoteTransfer(p) ==
    LET c == call[p].currency
        d == seen[p].first.currency
        e == seen[p].second.currency
        checked == d = Upper[c]
    IN  /\ pc[p] = "quote" /\ call[p].op = "transfer"
        /\ \/ /\ ~EqualFold(c, d)
              /\ Abort(p, "wrongCurrency")
           \/ /\ EqualFold(c, d)
              /\ Quote(p, d = e, d, e,
                       checked => seen[p].first.balance >= call[p].amount)
        /\ UNCHANGED announced

(***************************************************************************)
(* The writing statements of a transaction, on the newest version of the   *)
(* row.                                                                    *)
(***************************************************************************)
\* UPDATE wallets SET ... = r, then stage s
Update(p, r, s) ==
    /\ ~Waits(p)
    /\ \/ /\ ~Hits(p)
          /\ Abort(p, "walletNotFound")
       \/ /\ Hits(p) /\ ~CheckHolds(r)
          /\ Abort(p, "balanceCheck")
       \/ /\ Hits(p) /\ CheckHolds(r)
          /\ Write(p, Target(p), r)
          /\ Goto(p, s)
          /\ UNCHANGED <<rows, transactions, call, seen, rate, applied, arch>>
    /\ UNCHANGED announced

Newest(p) == Visible(p, Target(p))

StoreUpdate(p) ==
    /\ pc[p] = "write" /\ call[p].op = "update"
    /\ Update(p, Converted(Newest(p), NewCurrency(p), rate[p]), "commit")

\* mutant: the new balance is computed from the one that was read
Mut_StoreDeposit(p) ==
    /\ pc[p] = "write" /\ call[p].op = "deposit"
    /\ Update(p, [Newest(p) EXCEPT !.balance =
                     seen[p].first.balance + Convert(call[p].amount, rate[p])],
              "publish")

\* The INSERT into transactions that follows is part of the step: nobody
\* sees it, or waits for it, before the commit.
StoreDeposit(p) ==
    /\ pc[p] = "write" /\ call[p].op = "deposit"
    /\ Update(p, Credited(Newest(p), Convert(call[p].amount, rate[p])),
              "publish")

\* mutant: the amount is taken in the wrong currency
Mut_StoreWithdraw(p) ==
    /\ pc[p] = "write" /\ call[p].op = "withdraw"
    /\ Update(p, Debited(Newest(p), call[p].amount), "publish")

StoreWithdraw(p) ==
    /\ pc[p] = "write" /\ call[p].op = "withdraw"
    /\ Update(p, Debited(Newest(p), Convert(call[p].amount, rate[p])),
              "publish")

StoreDebit(p) ==
    /\ pc[p] = "write" /\ call[p].op = "transfer"
    /\ Update(p, Debited(Newest(p), call[p].amount), "credit")

StoreCredit(p) ==
    /\ pc[p] = "credit"
    /\ Update(p, Credited(Newest(p), Convert(call[p].amount, rate[p])),
              "publish")

(***************************************************************************)
(* The end of a transaction.                                               *)
(***************************************************************************)
Publish(p) ==
    /\ pc[p] = "publish"
    /\ announced' = announced \cup {p}
    /\ Goto(p, "commit")
    /\ UNCHANGED <<rows, latest, lock, transactions, call, seen, rate,
                   applied, arch>>

\* mutant: a failed send is only logged
Mut_PublishFails(p) ==
    /\ pc[p] = "publish"
    /\ Goto(p, "commit")
    /\ UNCHANGED <<rows, latest, lock, transactions, call, seen, rate,
                   announced, applied, arch>>

\* SendMessage returns an error, whether or not the broker has the message
PublishFails(p) ==
    /\ pc[p] = "publish"
    /\ announced' \in {announced, announced \cup {p}}
    /\ Abort(p, "internal")

TxRecord(p) == [id |-> p, type |-> call[p].op, to |-> call[p].to,
                from |-> call[p].from, amount |-> call[p].amount,
                currency |-> call[p].currency]

\* The server commits; whether the handler learns of it is acknowledged.
Commit(p, acknowledged) ==
    /\ pc[p] = "commit"
    /\ Install(p)
    /\ transactions' = IF call[p].op \in MoneyOps
                       THEN transactions \cup {TxRecord(p)}
                       ELSE transactions
    /\ applied' = applied \cup {p}
    /\ Finish(p, IF acknowledged THEN "ok" ELSE "internal")
    /\ UNCHANGED <<announced, arch>>

\* mutant: the error of Commit is only logged
Mut_Fail(p) ==
    /\ Busy(p)
    /\ \/ /\ pc[p] \notin {"verify", "commit"}
          /\ Abort(p, "internal")
       \/ /\ pc[p] \in {"verify", "commit"}
          /\ Abort(p, "ok")
    /\ UNCHANGED announced

\* A connection, the rate service or the client's patience fails.  The read
\* of CreateWallet is the exception: its error is only logged.
Fail(p) ==
    /\ Busy(p)
    /\ \/ /\ pc[p] # "verify"
          /\ Abort(p, "internal")
       \/ /\ pc[p] = "verify"
          /\ Abort(p, "ok")
    /\ UNCHANGED announced

(***************************************************************************)
(* ArchiveStaleWallets, one UPDATE over several rows: it takes the rows    *)
(* its snapshot selected one after the other, in any order, and looks at   *)
(* the newest version of each before it writes.                            *)
(***************************************************************************)
\* Time passes: every wallet was updated before the cut-off of a later tick.
Age ==
    LET Aged(r) == IF r = Null THEN Null ELSE [r EXCEPT !.stale = TRUE] IN
    /\ arch.pc = "idle" /\ arch.rounds < Rounds
    /\ rows' = [w \in Wallets |-> Aged(rows[w])]
    /\ latest' = [w \in Wallets |-> Aged(latest[w])]
    /\ UNCHANGED <<lock, transactions, requestVars, announced, applied, arch>>

\* the next row of those still to do
NextRow(S) ==
    IF S = {} THEN arch' = [arch EXCEPT !.pc = "commit", !.at = Null]
    ELSE \E w \in S :
           arch' = [arch EXCEPT !.pc = "update", !.at = w, !.todo = S \ {w}]

ArchiveStart ==
    /\ arch.pc = "idle" /\ arch.rounds < Rounds
    /\ LET S == {w \in Wallets : Archivable(rows[w])} IN
       IF S = {} THEN arch' = [arch EXCEPT !.rounds = @ + 1]
       ELSE \E w \in S :
              arch' = [pc |-> "update", at |-> w, todo |-> S \ {w},
                       rounds |-> arch.rounds + 1]
    /\ UNCHANGED <<storeVars, requestVars, announced, applied>>

\* mutant: the newest version is not looked at again
Mut_ArchiveRow ==
    LET r == latest[arch.at] IN
    /\ arch.pc = "update" /\ lock[arch.at] = Free
    /\ Write(Archiver, arch.at, Archived(r))
    /\ NextRow(arch.todo)
    /\ UNCHANGED <<rows, transactions, requestVars, announced, applied>>

ArchiveRow ==
    LET r == latest[arch.at] IN
    /\ arch.pc = "update" /\ lock[arch.at] = Free
    /\ Write(Archiver, arch.at, IF Archivable(r) THEN Archived(r) ELSE r)
    /\ NextRow(arch.todo)
    /\ UNCHANGED <<rows, transactions, requestVars, announced, applied>>

\* An error of the statement makes Service.Run return it, and the errgroup
\* then takes the whole process down ("dying").
ArchiveCommit(acknowledged) ==
    /\ arch.pc = "commit"
    /\ Install(Archiver)
    /\ arch' = [arch EXCEPT !.pc = IF acknowledged THEN "idle" ELSE "dying"]
    /\ UNCHANGED <<transactions, requestVars, announced, applied>>

ArchiveAborts ==
    /\ Discard(Archiver)
    /\ arch' = [arch EXCEPT !.pc = "dying", !.at = Null, !.todo = {}]
    /\ UNCHANGED <<requestVars, announced, applied>>

ArchiveFails == arch.pc \in {"update", "commit"} /\ ArchiveAborts

(***************************************************************************)
(* PostgreSQL's deadlock detector aborts one transaction of every cycle of *)
(* transactions that wait for each other.                                  *)
(***************************************************************************)
Blocked(q) ==
    IF q = Archiver THEN arch.pc = "update" /\ lock[arch.at] # Free
                    ELSE Waits(q)

Blocker(q) == IF q = Archiver THEN lock[arch.at] ELSE lock[Target(q)]

\* p is on a cycle: a set of blocked processes that block exactly each other
Deadlocked(p) ==
    \E S \in SUBSET {q \in Procs : Blocked(q)} :
        p \in S /\ {Blocker(q) : q \in S} = S

Victim(p) ==
    /\ Deadlocked(p)
    /\ IF p = Archiver THEN ArchiveAborts
                        ELSE Abort(p, "internal") /\ UNCHANGED announced

(***************************************************************************)
(* The process ends, by a crash or because the archiving goroutine failed, *)
(* and a new one starts: the database rolls back what was in flight.       *)
(***************************************************************************)
Crash ==
    /\ InFlight # {} \/ arch.pc # "idle"
    /\ latest' = rows
    /\ lock' = [w \in Wallets |-> Free]
    /\ pc' = [p \in Requests |-> IF Busy(p) THEN "done" ELSE pc[p]]
    /\ outcome' = [p \in Requests |-> IF Busy(p) THEN "lost" ELSE outcome[p]]
    /\ seen' = [p \in Requests |-> [first |-> NoView, second |-> NoView]]
    /\ rate' = [p \in Requests |-> DefaultRate]
    /\ arch' = [arch EXCEPT !.pc = "idle", !.at = Null, !.todo = {}]
    /\ UNCHANGED <<rows, transactions, call, announced, applied>>

\* every request has its answer and the archiver has made its rounds
Finished ==
    /\ \A p \in Requests : pc[p] = "done"
    /\ arch.pc = "idle" /\ arch.rounds = Rounds
    /\ UNCHANGED vars

(***************************************************************************)
(* The specification.  Step(p) is what the handler of p does when nothing  *)
(* fails.                                                                  *)
(***************************************************************************)
Step(p) ==
    \/ Insert(p, TRUE) \/ Verify(p) \/ Remove(p, TRUE)
    \/ ReadWallet(p) \/ ReadTarget(p)
    \/ QuoteUpdate(p) \/ QuoteDeposit(p) \/ QuoteWithdraw(p) \/ QuoteTransfer(p)
    \/ StoreUpdate(p) \/ StoreDeposit(p) \/ StoreWithdraw(p)
    \/ StoreDebit(p) \/ StoreCredit(p)
    \/ Publish(p) \/ Commit(p, TRUE)

Failure(p) ==
    \/ Insert(p, FALSE) \/ Remove(p, FALSE) \/ Commit(p, FALSE)
    \/ PublishFails(p) \/ Fail(p)

Archive == ArchiveStart \/ ArchiveRow \/ ArchiveCommit(TRUE)

Next ==
    \/ \E p \in Requests : Receive(p) \/ Step(p) \/ Failure(p)
    \/ \E p \in Procs : Victim(p)
    \/ Age \/ Archive \/ ArchiveCommit(FALSE) \/ ArchiveFails
    \/ Crash
    \/ Finished

Spec == Init /\ [][Next]_vars

\* the HTTP status a handler chooses for the error e of operation op
Answer(op, e) ==
    CASE e = "ok" /\ op = "create" -> 201
      [] e = "ok" /\ op = "delete" -> 204
      [] e = "ok" /\ op \notin {"create", "delete"} -> 200
      [] e \in {"invalid", "nonZeroBalance"} -> 400
      [] e \in {"wrongUser", "walletNotFound"} -> 404
      [] e = "insufficientFunds" -> 409
      [] e = "wrongCurrency" -> 422
      [] OTHER -> 500

\* the status p was answered with: the first one its handler wrote
Status(p) ==
    IF call[p].malformed THEN 400 ELSE Answer(call[p].op, outcome[p])

Answered == {p \in Requests : outcome[p] \notin {"none", "lost"}}

(***************************************************************************)
(* Properties.                                                             *)
(***************************************************************************)
\* Every variable has its type; in particular only positive amounts reach
\* table transactions (models.Transaction.Validate).
TypeOK ==
    /\ StoreTypeOK
    /\ pc \in [Requests -> Stages]
    /\ call \in [Requests -> Bodies \cup {Null}]
    /\ seen \in [Requests -> [first : Views, second : Views]]
    /\ rate \in [Requests -> Rates]
    /\ outcome \in [Requests -> Outcomes]
    /\ announced \subseteq Requests
    /\ applied \subseteq Requests
    /\ arch \in [pc : {"idle", "update", "commit", "dying"},
                 at : Wallets \cup {Null}, todo : SUBSET Wallets,
                 rounds : 0 .. Rounds]

\* No committed balance is negative, although the balance a withdrawal or a
\* transfer compared may be stale when it writes.
NonNegativeBalances ==
    \A w \in Wallets : rows[w] # Null => rows[w].balance >= 0

\* A wallet that was archived holds no money, whatever deposits were on
\* their way: nothing ever sets active again, so the money could not be
\* withdrawn (store.ArchiveStaleWallets, and the active = true of
\* store.Deposit, Withdraw and Transfer).
ArchivedIsEmpty ==
    \A w \in Wallets :
        rows[w] # Null /\ ~rows[w].active /\ ~rows[w].deleted
            => rows[w].balance = 0

\* A transaction that is in the database was sent to Kafka first (the order
\* inside the function passed to DoWithTx).
CommittedIsAnnounced == \A t \in transactions : t.id \in announced

\* An uncommitted version exists only while the process that wrote it is
\* between its write and its commit: every way out of DoWithTx commits or
\* rolls back, and leaves no row locked.
WritersHoldTheirRows ==
    \A w \in Wallets :
        /\ lock[w] = Free => latest[w] = rows[w]
        /\ lock[w] \in Requests =>
              pc[lock[w]] \in {"credit", "publish", "commit"}
        /\ lock[w] = Archiver => arch.pc \in {"update", "commit"}

\* Money moves only between wallets of the user who asks (the user_id of
\* every WHERE clause).
OnlyOwnersMoveMoney ==
    \A t \in transactions : \A w \in {t.to, t.from} \ {Null} :
        rows[w] # Null /\ rows[w].owner = call[t.id].user

\* A request answered with a client error has changed nothing.
RejectedChangesNothing ==
    \A p \in Answered : Status(p) \in 400 .. 499 => p \notin applied

\* A request answered with success has been carried out: its change is
\* committed or, for a DELETE, the wallet is deleted, by this request or by
\* another (api/http/openapi.yml: 'Wallet deleted successfully').
AcceptedIsCarriedOut ==
    \A p \in Answered : Status(p) \in 200 .. 299 =>
        IF call[p].op = "delete" THEN rows[call[p].wallet].deleted
                                 ELSE p \in applied

\* A deleted wallet never changes again, although store.Deposit, Withdraw
\* and Transfer do not look at deleted_at.
DeletedIsFinal ==
    [][\A w \in Wallets : rows[w] # Null /\ rows[w].deleted =>
            rows'[w] = [rows[w] EXCEPT !.stale = rows'[w].stale]]_vars
=============================================================================
