# Verification of wallets-service

TLA+ models of the wallets service, TLC configurations that check them on
small instances, and TLAPS proofs of the invariants that hold for every
instance. File references are relative to the repository.

## 1. The system

| Component | State | Operations | Talks to |
|---|---|---|---|
| REST server (`internal/rest`) | none of its own | 9 endpoints, JWT middleware, request metrics | the service |
| Service (`internal/service`) | metrics | create, get, update, delete, list, deposit, withdraw, transfer, list transactions; `Run` archives on a ticker | store, exchange rates, Kafka |
| Store (`internal/store`) | tables `users`, `wallets`, `transactions`, `wallet_history`; a pgx connection pool | one SQL statement per method, `DoWithTx` around several | PostgreSQL |
| Exchange rates (`internal/xr`) | a constant table | `GetRate` over gRPC, and an HTTP twin | - |
| Producer (`internal/broker/producer.go`) | - | one message per transaction to `transaction_update` | Kafka |
| Consumer (`internal/broker/consumer.go`) | partition offset | upserts every message of `users` | Kafka, store |
| `cmd/wallets-service` | an errgroup | starts consumer, archiver and server; any of them ending with an error ends the process | all |

Every HTTP request runs in its own goroutine, so any number of operations, the
archiver and the consumer interleave between their SQL statements, gRPC calls
and Kafka sends. What makes the service hard to get right:

- **Reads that hold nothing.** `store.GetWallet` appends `FOR UPDATE` but runs
  on the pool, not in the transaction (`wallets.go:74`). It waits for the row
  lock and releases it at once. Balance, currency and rate may be out of date
  when the transaction writes.
- **Two rows per transfer**, locked in the order from, to; the archiver locks
  many rows in any order. PostgreSQL breaks the deadlocks by aborting somebody,
  and an abort of the archiver ends the process.
- **Two connections per transaction.** The same read takes a second connection
  while its transaction holds the first.
- **Announce, then commit.** The Kafka message leaves before `COMMIT`.
- **Failures** at every call, answers that are lost after the database has
  committed, and crashes.
- **Rows that are inactive but present.** Archived and deleted wallets stay in
  the table; each statement tests `active` or `deleted_at`, few test both.
- **Clocks.** `updated_at` is the begin of a transaction or the clock and zone
  of the service; the archiver compares it with the clock of the database and
  with a period cut to whole hours.
- **A consumer that ends at the first error**, starts at the newest offset and
  commits none; the process goes down with it.
- **A shutdown nobody waits for.** `Server.Run` returns when `Shutdown` begins;
  `main` then closes the producer under handlers that still send, and a panic
  in one of them runs rollbacks, counters and `Recoverer`.
- **Pages of a moving table**, sorted by a column that is not unique.

What correctness means per component: balances never negative and explained by
the transactions (store, service); each request carried out once, as a whole,
or never, and answered truly (service, REST); a deleted or archived wallet
keeps no money and does not come back, and only a quiet wallet is archived
(store, archiver); every transaction committed is announced (service,
producer); every request ends, unless the pool is stalled, and every lock and
connection is returned (store, pool); a users message is applied once and in
order, and one bad message does not end every later process (consumer); a
process that is told to stop stops and everything that ended is counted (main,
metrics); pages hold each row once and belong to the owner (store). What the
filter of a listing should select no document says; section 4 has what it does.

## 2. Modules

| Module | Models | Built on |
|---|---|---|
| `Currency` | currency names, the rate table, conversion | - |
| `WalletStore` | tables, row locks, versions, WHERE clauses, commit and rollback | `Currency` |
| `WalletService` | the six operations that write, from handler to answer; the archiver; failures, deadlocks, crashes | `WalletStore` |
| `Bank` | abstract: accounts, orders, answers, each request one step | - |
| `BankRefinement` | the mapping of `WalletService` to `Bank` | `WalletService`, instance of `Bank` |
| `Ledger` | the meaning of table `transactions` for table `wallets`; promises of the API | `BankRefinement` |
| `ConnPool` | connections held and awaited | - |
| `PooledService` | the service over the pool: who waits for rows, who for connections, and that all of them end | `WalletService`, instance of `ConnPool` |
| `StaleWallets` | ticker, cut-off and clocks of archiving | - |
| `UserFeed` | topic `users`, the consumer, table `users` | - |
| `HttpServer` | middleware, counters, `Server.Run`, the producer's life | - |
| `Process` | `main`: start-up, errgroup, signals, shutdown, crash, next start | `UserFeed`, `HttpServer` |
| `Listing` | both listing queries and a client that pages | - |
| `MCWallets`, `MCPooled`, `MCProcess`, `MCListing` | instances for TLC | the modules above |
| `WalletServiceProofs`, `WalletAnswersProofs`, `PooledProofs`, `BankProofs`, `ConnPoolProofs`, `StaleWalletsProofs`, `ProcessProofs`, `ListingProofs` | theorems | `TLAPS` |

A definition whose name begins with `Mut_` is a variant of the one after it,
with a bug the property it is listed with in `PROJECT.json` has to notice. No
specification uses it.

### WalletStore and WalletService

A request is a process. `call[p]` is its decoded body with the user of the
token, `pc[p]` the statement or call it makes next, `seen[p]` and `rate[p]` the
local variables its service method has filled, `outcome[p]` the error the
method returned. One step is one SQL statement, one call of the rate service,
one Kafka send, or the commit:

| Code | Actions |
|---|---|
| decoding and validation in the handlers, `Validate` | `Receive` |
| `CreateWallet` | `Insert`, `Verify` |
| `DeleteWallet` | `ReadWallet`, `Remove` |
| `UpdateWallet` | `ReadWallet`, `QuoteUpdate`, `StoreUpdate`, `Commit` |
| `Deposit`, `Withdraw` | `ReadWallet`, `QuoteDeposit` / `QuoteWithdraw`, `StoreDeposit` / `StoreWithdraw`, `Publish`, `Commit` |
| `Transfer` | `ReadWallet`, `ReadTarget`, `QuoteTransfer`, `StoreDebit`, `StoreCredit`, `Publish`, `Commit` |
| an error in `DoWithTx` | `Abort`, in every action that can end in one |
| a failing connection, rate service or broker; a client that leaves | `Fail`, `PublishFails`; `Insert`, `Remove` and `Commit` with `FALSE` when the database did it and the answer is lost |
| `Run`, `ArchiveStaleWallets` | `ArchiveStart`, `ArchiveRow` per row, `ArchiveCommit`, `ArchiveFails` |
| PostgreSQL's deadlock detector | `Victim` |
| the end of the process and its restart | `Crash` |

`rows[w]` is the committed version of a wallet, `latest[w]` the newest,
`lock[w]` who may see it. A statement waits when the row it finds is locked by
another process and looks at its WHERE clause again afterwards, as READ
COMMITTED does. The INSERT into `transactions` is part of the statement before
it: its row is new, so nobody sees it or waits for it before the commit, and
its failure is a failure of the next step.

Abstractions: names, timestamps and ids are left out; `updated_at` is the flag
`stale`, which `Age` sets for all rows at once; rates are fractions, and the
instances choose amounts that convert exactly; a malformed body is a flag, and
its other fields are those decoded before the error.

`applied` is a history variable: the requests with a committed change.

### Bank and BankRefinement

`Bank` is what a client may rely on. A request has an order (move worth, open,
close, other), a fate (new, asked, done, refused) and a reply. Its order takes
effect in one step, on open wallets only and never into the negative; a reply
`ok` belongs to an order that is done; an order refused stays undone. An error
may be the reply to an order that is done: the answer of the commit was lost.
`Sweep` closes wallets that are worth nothing, `Drop` is a crash. Not promised,
because the code does not keep it (section 4): that a wallet is empty when it
is deleted. A change of currency is an `other` order: it leaves accounts alone,
as they are kept in the unit of the price table.

The mapping: an account is the *committed* row, so a request takes effect at
its commit, whatever its statements did before; `fate` and `reply` come from
`pc`, `applied` and `outcome`. Steps map as follows, all others stutter.

| `WalletService` | `Bank` |
|---|---|
| `Receive` | `Ask`, refused at once if the body does not pass |
| `Insert` | `Open` or `Refuse` |
| `Verify` | `Reply` |
| `Remove` | `Close` or `Refuse` |
| `Commit` | `Move` (`Other` for an update) or `Refuse` |
| `Abort`, in every action with an error | `Refuse` |
| `ArchiveCommit` | `Sweep` |
| `Crash` | `Drop` |

### Ledger

`LedgerExplainsBalance` compares the worth of every wallet with its seed and
the committed transactions. With currency changes among concurrent requests it
does not hold (section 4), so one run has concurrent money operations whose
updates are all refused, and one has currency changes in requests that follow
each other.

### ConnPool

A handler with a transaction (`tx`) holds one connection from `Begin` to
`Commit`; a statement on the pool (`stmt`) needs one while it runs. Row locks
are left out here. There is no timeout in the code: `GiveUp` is an error or a
client that disconnects, `Crash` the end of the process.

### PooledService

The two things a handler waits for, together. `WalletService` lets a read start
whenever its row is free, `ConnPool` knows no rows; here every statement that
the code sends to the pool (`OnPool`) also needs a connection, with the `tx` and
`stmt` of `ConnPool` beside the state of `WalletService`.

| Code | Actions |
|---|---|
| a request arrives and asks for its first connection: `DoWithTx`, or the statement of a creation or deletion | `Arrives` |
| `pool.Begin` and a statement on the pool get theirs | `Begin`, `Acquire` |
| a step of a handler, which gives the connection of its statement back, and at its end the one of the transaction | `Works`, `Settles` |
| an error, or a client that leaves while its handler waits | `Errs` |
| PostgreSQL's deadlock detector | `Aborted` |
| `Service.Run` takes a tick, its statement waits for a connection and runs | `Tick`, `Acquire`, `Archives`, `ArchiverErrs` |
| the end of the process | `CrashesAll` |

PostgreSQL resolves a cycle of row locks and knows nothing of connections. That
no cycle goes through both is `LockHoldersAreServed`: whoever holds a row is
past its reads and needs no further connection. `ImplementsPool` is the
refinement of `ConnPool!Spec`, so what `pool` shows of the pool alone applies to
the service: `Todo` counts the statements a stage has still to send.

All liveness of requests and of the archiver is stated here, because only here
waiting for a connection is modelled: a stall of the pool lasts until a client
gives up, and `EveryRequestEnds` excepts it.

### StaleWallets

The archiving statement is one step here; its locks and races are those of
`WalletService`. Time passes in units (`Pass`), an age is `NOW()` less
`updated_at`.

| Code | Actions and definitions |
|---|---|
| `time.NewTicker`, whose channel holds one tick | `left`, `ticked`, `Pass` |
| `Service.Run`, `store.ArchiveStaleWallets` | `Archive`, `Stale`, `CutOff` |
| `CreateWallet` | `Create` |
| deposit, withdrawal, a side of a transfer: `updated_at = NOW()` is the begin of the transaction | `Begin`, `Move`, `GiveUp` |
| `UpdateWallet`: `updated_at` from `time.Now()` in the zone of the service, before the statement waits | `Rename` |

`quiet` is a history variable, the true time since the last committed change.
`Slack`, which `QuietBeforeArchived` grants, is what the three ways of writing
`updated_at` may be wrong by.

### UserFeed, HttpServer, Process

`UserFeed` and `HttpServer` are the parts, `Process` is `main` around them: its
steps conjoin a step of a part with what `main` adds (`Take` is given whether
the context is still usable, `ServeStep` whether it is cancelled).

| Code | Actions |
|---|---|
| `consumer.go` `Run`, from `ConsumePartition` to its return | `Subscribe`, `SubscribeFails`, `Take`, `ConsumerStops` |
| `UpsertUser` | `Upsert`, `UpsertFails` (the row may be there) |
| `cmd/user-generator` and any other producer | `Announce`, `Generated` |
| `server.go` `Run` and its goroutine | `Listen`, `BeginDrain`, `ServerReturns` |
| `jwtAuth`, `metricTrack`, `Recoverer` | `Arrive`, `Auth`, `CountRequest`, `SendPanics` |
| `DoWithTx` gets its connection, `GetWallet` inside it a second one | `BeginTx`, `ReadTx` |
| service method: work, `SendMessage`, `COMMIT`, deferred counters, answer | `Work`, `Send`, `SendFails`, `SendPanics`, `CommitTx`, `CountTx`, `Respond` |
| a client that leaves | `GiveUp` |
| `main` up to the errgroup, `NewConsumer`'s attempts | `ReadConfig`, `ConnectStore`, `Migrate`, `DialConsumer`, `Retry`, `StartupFails`, `Launch` |
| errgroup, signals | `Collect`, `Wait`, `Signal`, `ArchiverFails`, `ArchiverStops` |
| deferred `Close` calls, the end of the process | `CloseProducer`, `Leave`, `Gone`, `Crash` |

The `select` of the consumer may take a message although the context is
cancelled; its UPSERT then fails before it is sent, and the error becomes the
process's. The goroutine that calls `Shutdown` and the handlers are not in the
errgroup, so they go on in `closing` and `leaving`. What a handler does to the
tables is abstract here (`kind`), as `WalletService` has it in detail. Of the
pool the connections of transactions are counted (`Holders`, `HasRoom`), so a
stall (`PoolStalled`) can hold up handlers and the UPSERT of the consumer.
History variables: `stored`, `fatal`, `sent`, `committed`.

### Listing

One page is one query: `Find` (the look for the wallet, transactions only) and
`Select`. `Where` is the clause as it is written and `Holds` what PostgreSQL
makes of it, AND before OR, so the filter of the transactions binds to the
second half. Ties in the sort column come in any order, anew for each page.
`Grow`, `Shrink` and `Rekey` are the other requests. The text search behind a
filter is a fact of a row.

## 3. Runs

| Run | Instance | Shows |
|---|---|---|
| `service_two` | `PooledService`: every kind of request, 2 in flight, 5 wallets (one stored in lower case, one id unused), one archiving round, 3 connections | type, non-negative balances, archived wallets empty, committed is announced, locks only in open transactions and never while waiting for a connection, deletion is final; the service implements `ConnPool`; every request and every archiving statement ends |
| `service_money` | 3 concurrent requests on 3 wallets (one id unused): deposits, withdrawals, transfers, deletions, creations, and eleven bodies that are refused somewhere | the service implements `Bank`; the ledger explains every balance; only owners move money; a rejected request changed nothing; success means carried out |
| `ledger_serial` | 3 requests, one at a time, with currency changes, and an archiving round beside them | `Bank` and the ledger again; a currency change keeps the value |
| `pool` | 4 handlers, 2 connections | the limit holds; a stall has one cause; nothing else keeps a handler from ending |
| `archiving_times` | 2 wallets, an hour of 2 units, a period of 3, a zone 1 unit behind, transactions of up to 1 unit, 5 changes | what is archived was left alone for the cut-off; what stays empty is archived |
| `process_users` | 1 user, 2 starts, 2 messages of three kinds, 2 attempts to connect, 1 request with a transaction, 1 connection | the table follows the topic; nothing is skipped while a consumer lives; no message fails twice; a cancelled process ends; messages are stored, unless the pool is stalled |
| `process_requests` | 2 requests of every kind, 2 connections, 2 starts, no messages | shutdown breaks no promise about sends, commits and answers; every request that ends is counted; a cancelled process ends; accepted requests leave, unless the pool is stalled |
| `listing` | 3 rows, page sizes 1 and the default 2, a negative limit, 2 changes | pages are the listing; growth hides nothing |
| `currency_race`, `delete_race`, `malformed_transfer`, `tx_counters` | the smallest instance each | section 4 |

**Bounds.** Wallet runs have wallets of one user in RUB, and in USD at 2 RUB,
so a transfer converts, two transfers can cross, and lower-case names and a
currency without a price occur. `Concurrency` is the number of requests in
flight, `Rounds` the archiving rounds. Two requests are enough for the pairwise
races the hazards describe: each has one process that reads and one that writes
in between, or two that lock in opposite orders; archiving and crashes
interleave with both. `service_money` takes a third request because a lost
update or a leaked version may need a later operation to show. In `service_two`
both kinds of deadlock on rows occur: two wallets have money, so the transfers
between them cross, and two are empty, which the archiver locks one after the
other; a deposit into one of them, followed by a transfer to the other, meets
it in the opposite order. Three connections are the fewest on which transfers
can cross: with two, no second transaction gets past its reads while the first
is open. They are also too many for two transactions to stall, so
`EveryRequestEnds` holds there without its exception. A stalled pool is in
`pool` and `process_requests` (two transactions on two connections) and in
`process_users` (one on one), where the request and the message that wait for
it may stay where they are but the process ends. The states where every request
is answered are marked by `Finished`; any other state without a step is
reported as a deadlock. `archiving_times` has a period that is not a whole
number of hours, and `Cap` above period, zone and transaction together, so no
age the statement can tell from another is cut. Two starts let a process read,
fail, and be followed by one that must not fail on the same message. Four
handlers on two connections have two that hold a connection, and two that wait
to begin. `process_*` set `CHECK_DEADLOCK FALSE`: a process that is down need
not be started again. Symmetry is used on requests, in runs without liveness
properties.

**Fairness.** `PooledService!Fairness` is weak: for the regular steps of each
handler (Go schedules a runnable goroutine, and PostgreSQL grants a free lock),
for the pool, which hands out a connection that is free, for the deadlock
detector, for an archiving statement that has begun, and for the end of a
process whose errgroup has failed. That a connection or a row becomes free is
not assumed. In `ConnPool`, where handlers come again and again, taking a
connection is strongly fair because the pool serves its waiters in order. In
`Process` the goroutines of a process go on, and a call that has reached the
database, the broker or the rate service comes back with a result or an error;
one that waits for a connection may wait for good. In `StaleWallets` time
passes, the archiver takes its ticks, and transactions end. Nothing is assumed
of clients, signals, crashes, failures, producers or, in `Process`, ticks.

## 4. Where code and documents disagree

Each is a run that TLC must refute, with the quoted line in `PROJECT.json`.

| Run | What happens |
|---|---|
| `currency_race` | two concurrent currency changes convert the balance twice |
| `delete_race` | a deposit between check and UPDATE ends in a deleted wallet |
| `malformed_transfer` | a transfer answered 400 is carried out |
| `tx_counters` | the `err` of `DoWithTx` is shadowed (`service.go:118`): a failed transaction is counted as completed, and `tx_failed_total` stays at 0 |

Described without a run, because the models take them as the code has them:

- A transfer from a wallet to itself is accepted, because `Validate` compares
  two pointers (`models.go:125`). `service_money` includes one: its debit and
  credit cancel.
- The filter of the transactions binds to the second half of the OR
  (`transactions.go:189`): incoming transactions are listed whether they match
  or not. `Where` and `Holds` have it so.
- Requests that `jwtAuth` turns away are not counted in `http_request_total`,
  whose help text is 'Total number of HTTP requests.' (`rest/metrics.go:30`);
  `RequestsAreCounted` states what is.
- Deleting a wallet that is archived, or is being archived between the read and
  the UPDATE, answers success and deletes nothing (`wallets.go:164`;
  `openapi.yml:167`, 'Wallet deleted successfully'). So `AcceptedIsCarriedOut`
  is false where wallets are archived; it is checked where they are not
  (`service_money`), and `Bank!Close` accepts a deletion that finds a closed
  account.
- The cut-off of archiving is the check period (`service.go:71`); nothing reads
  `STALE_WALLET_DURATION`, 'The wallet is considered stale after this time
  duration' (`configs/config.go:25`).
- `Transfer` skips its balance check for a currency stored in lower case
  (`service.go:300`): the constraint of the table stops the overdraft and the
  client reads 500, where `openapi.yml:305` promises 409.
- Creating a wallet for a user that is not in the database is a 500
  (`handlers.go:60`), where `openapi.yml:42` promises 404.
- The header `Bearer` alone, and a token without an expiry, panic in `jwtAuth`
  (`middleware.go:45`, `:72`) and are answered 500 instead of 401.
- The generator marks a deleted user in a field the consumer does not read
  (`cmd/user-generator/main.go:38`), and `unmarshalUUID` (`models.go:150`),
  which decodes its ids, wants a JSON string inside the text: a message with a
  plain id ends the consumer.

The pool stall has no run of this kind: no document promises anything about
it. `pool` says when it happens, the `process_*` runs what it holds up.

## 5. Proofs

All theorems hold for any wallets, users, requests, prices, seeds, periods and
bounds that meet the named assumptions of the modules; the passing runs
evaluate those for their instances.

**WalletServiceProofs**: `TypeCorrect`, `BalancesNonNegative`,
`ArchivedHoldsNothing`, `CommitsAreAnnounced`, `LocksAreReleased` (invariants)
and `DeletionIsFinal` (an action property). They follow from one inductive
invariant, `IInv`. None of the properties is inductive alone, because a commit
installs versions written many steps before:

- `VersionsOK`: uncommitted versions are as sound as committed ones, and a
  deleted wallet is inactive;
- `DeletedUntouched`: no open transaction has written a deleted wallet. It
  holds because a write needs `active` or `deleted_at IS NULL` of the newest
  version, and a deletion waits for the row lock;
- `WritersHoldTheirRows`: a version that differs from the committed one has a
  lock holder between write and commit; reads before a write see committed
  rows only;
- `StagesOK`: a handler at work has a validated body and is at a stage of its
  operation, so its statement names a wallet and its amount is positive;
- `AnnouncedFirst`: who is about to commit has sent.

The proof has one lemma per action; the steps that only move a handler on, the
rollbacks and the UPDATEs share a lemma each (`GotoKeeps`, `AbortKeeps`,
`UpdateKeeps`).

**WalletAnswersProofs**: `OwnersOnly`, `SuccessIsReal`, `RejectionIsClean`, by
a second invariant, `AnswersInv`, on top of `IInv`. Its heart is
`VersionsAgree`: a newer version of a wallet `Continues` the older one, with
the same owner and not in use again. So what a read without a lock has seen of
the owner stays true, whatever happens before the write. `SuccessIsReal`, a
success means that the change is committed and a deleted wallet deleted,
assumes that nothing is archived (`NothingIsArchived`, no archiving rounds and
a seed without archived wallets) or no deletion is asked for, because the
deletion of an archived wallet is answered with success (section 4).
`RejectionIsClean` assumes that no transfer with a malformed body arrives;
`malformed_transfer` shows that it must.

**PooledProofs**: `PooledIsService`, the service over its pool does nothing the
service does not do, so the theorems above hold for it; `LocksAreServed`, who
holds a row waits for no connection; and `ServiceKeepsPool`, the service uses
its pool as `ConnPool` says. The invariant `ConnInv`, beside `IInv`, says which
connections a request has or waits for at each stage of its operation:
`RequestConns` needs `StagesOK`, which keeps a request without a transaction on
the pool, and the lock holders of `WritersHoldTheirRows` are past their reads.

**BankProofs**: `ServiceIsABank`, the step simulation of the table in section
2. It needs to know of every request between its first write and its commit
that the versions it installs are exactly the effect of its order. `BankInv`
has, per request:

- `HoldOK`: the wallets it holds are in use, and only an update that exchanges
  a wallet gives it another currency;
- `EffectOK`: a held version differs from the committed one by what the order
  has moved so far, and what is not held has nothing to move;
- `SeenOK` and `RateOK`: the currency it saw is the one the wallet still has,
  so the rate in its hand fits (`Pays`, `Exchanges`);

and, beside the requests, `SweepOK` (the archiver changes nothing but the state
of empty wallets) and `Turns` (where the bound is one request in flight, no two
are at work). Two assumptions are needed:

- `Orderly`: no request is in flight beside one that exchanges a wallet.
  `currency_race` shows why: `RateOK` is lost when a wallet is exchanged between
  the read and the write of another request.
- `Exact`: the amounts asked for convert without rest, and seeds and amounts
  are whole numbers of units of every currency a wallet may be exchanged to.
  The second half gives `UnitsOK`, which says the same of every committed
  balance: a movement of money adds or takes whole units.

The instances of both runs that check the refinement, `service_money` (three
requests at once, whose updates are all refused) and `ledger_serial` (updates
that exchange, one request at a time) meet both assumptions. On top of the
invariant `StepBooks` reads a step of the service as a bookkeeper would: it
leaves the worth of the wallets and the table alone (`Quiet`), or adds exactly
one new row and moves each wallet by the effect of that row (`Books`).

On the same ground stand `LedgerIsComplete`, the table `transactions` explains
every balance (`LedgerExplainsBalance`), and `UpdatesKeepValue`, a step that
books no row changes the worth of no wallet (`CurrencyChangeKeepsValue`), under
the same assumptions. `LedgerInv` says that the table is finite and that
each wallet is worth its seed plus the sum of its rows; that the row of a
commit is new comes with `Books`. The sum is a fold over a finite set; what the
proof needs of it, that a new element adds its effect, is shown without
induction over data: a finite set with a smallest subset where the sum would go
wrong leads to a contradiction (`LeastSubset`).

**ConnPoolProofs**: the limit of the pool (`PoolWithinLimit`), the only cause
of a stall (`StallCause`), for any finite set of handlers and any number of
connections.

**StaleWalletsProofs**: `StaleTypeCorrect` and `OnlyQuietArchived`, from
`AgeInv`: an age is never more than the quiet behind it plus `Slack`.

**ProcessProofs**: the users feed alone (`FeedInv`: types, the three
properties, and `Ahead`: whatever was stored or ended a run lies before the
message in hand); they carry over to `Process`, whose steps are steps of that
feed (by `ConsumerInv`: a process that starts or is gone has no consumer); from
`ServerInv` (what each stage of a request knows of sends, commits and counters)
`OrderIsKept` and `AllRequestsCounted`; and `ProcessTypeCorrect`, which puts
the types of the three parts together.

**ListingProofs**: `ListingTypeCorrect`, `PagesAreComplete` (a client that
pages through a table nobody writes gets the listing, each row once and in its
order) and `GrowthIsHarmless` (rows added between two pages, wherever they sort,
hide none of those that were there; no two rows may tie in the sort column). A
listing is the
enumeration of a finite set by its order; the proof works with the rank of a
row, the number of rows before it: `ReadInv` says that the pages read so far
hold the rows of rank below the offset, and `GrowthInv` that a row inserted
later ranks behind all others. One assumption is on data: the set of rows is
finite.

Only model-checked: the liveness properties, which are out of reach of the
prover (it has no rule for fairness with `ENABLED`). Every invariant and every
action property of a passing run is a theorem.

## 6. Not modelled

- The history triggers (`0003_history_trigger.sql`): each copies the row a
  statement wrote, inside that statement, into a table nothing reads.
- The content of the migrations as a process, `Truncate` and `Exec`, which
  serve start-up and tests.
- JWT parsing and cryptography: the user of a token is taken as given.
- `getWallet`: one read that changes nothing and answers what it read.
- Generated gRPC code and mocks; the HTTP twin of the rate service, which has
  the same table; starting and stopping the rate servers.
- float64 rounding between the service's check and the database's arithmetic:
  binary and decimal rounding are out of TLC's reach.
- The `Errors` channel of a partition consumer, which is off by default, and
  partitions other than 0, which the consumer does not read.
- A client that repeats a request whose answer was lost: a transaction has a
  `transactionId` (`models.go:91`), but the store overwrites it with a new one
  (`transactions.go:226`), so the code recognises no repetition and promises
  nothing about it.
