------------------------------ MODULE ConnPool ------------------------------
(***************************************************************************)
(* The connection pool of internal/store (pgxpool).  A statement on the    *)
(* pool takes a connection for as long as it runs, a transaction takes one *)
(* from Begin to Commit or Rollback.  store.GetWallet sends its query to   *)
(* the pool even when its caller has a transaction open, so an operation   *)
(* of the service holds one connection and waits for another.              *)
(***************************************************************************)
EXTENDS Integers, FiniteSets

CONSTANTS
    Handlers,   \* goroutines that use the store: of requests, archiver, consumer
    MaxConns,   \* pool_max_conns
    Concurrency \* bound: handlers at work at the same time

ASSUME PoolAssumption ==
    /\ IsFiniteSet(Handlers)
    /\ MaxConns \in Nat \ {0}
    /\ Concurrency \in Nat

VARIABLES
    tx,         \* the transaction of a handler: "none", "waiting", "open"
    stmt,       \* its statement on the pool: "none", "waiting", "running"
    todo        \* the statements on the pool it still has to make

vars == <<tx, stmt, todo>>

Open == {h \in Handlers : tx[h] = "open"}
Running == {h \in Handlers : stmt[h] = "running"}

\* the connections in use
Used == Cardinality(Open) + Cardinality(Running)

Idle(h) == tx[h] = "none" /\ stmt[h] = "none"

Init ==
    /\ tx = [h \in Handlers |-> "none"]
    /\ stmt = [h \in Handlers |-> "none"]
    /\ todo = [h \in Handlers |-> 0]

\* A handler starts.  Update, deposit and withdraw open a transaction and
\* read one wallet, a transfer two; create and delete run two statements
\* without a transaction; everything else one.
Start(h) ==
    /\ Idle(h)
    /\ Cardinality({g \in Handlers : ~Idle(g)}) < Concurrency
    /\ \E n \in 1 .. 2 : todo' = [todo EXCEPT ![h] = n]
    /\ \/ tx' = [tx EXCEPT ![h] = "waiting"] /\ UNCHANGED stmt
       \/ stmt' = [stmt EXCEPT ![h] = "waiting"] /\ UNCHANGED tx

\* mutant: a pool that opens a new connection whenever it is asked
Mut_Begin(h) ==
    /\ tx[h] = "waiting"
    /\ tx' = [tx EXCEPT ![h] = "open"]
    /\ stmt' = [stmt EXCEPT ![h] = "waiting"]
    /\ UNCHANGED todo

\* DoWithTx gets its connection; the first thing its function does is read.
Begin(h) ==
    /\ tx[h] = "waiting" /\ Used < MaxConns
    /\ tx' = [tx EXCEPT ![h] = "open"]
    /\ stmt' = [stmt EXCEPT ![h] = "waiting"]
    /\ UNCHANGED todo

\* a statement on the pool gets its connection
Acquire(h) ==
    /\ stmt[h] = "waiting" /\ Used < MaxConns
    /\ stmt' = [stmt EXCEPT ![h] = "running"]
    /\ UNCHANGED <<tx, todo>>

\* mutant: the rows of a query are never closed
Mut_Return(h) ==
    /\ stmt[h] = "running" /\ todo[h] > 1
    /\ stmt' = [stmt EXCEPT ![h] = "waiting"]
    /\ todo' = [todo EXCEPT ![h] = @ - 1]
    /\ UNCHANGED tx

\* The statement returns its connection.
Return(h) ==
    /\ stmt[h] = "running"
    /\ todo' = [todo EXCEPT ![h] = @ - 1]
    /\ stmt' = [stmt EXCEPT ![h] = IF todo[h] > 1 THEN "waiting" ELSE "none"]
    /\ UNCHANGED tx

\* The transaction writes on its own connection, commits and returns it.
Commit(h) ==
    /\ tx[h] = "open" /\ todo[h] = 0
    /\ tx' = [tx EXCEPT ![h] = "none"]
    /\ UNCHANGED <<stmt, todo>>

\* mutant: no Rollback is deferred, and the connection is never returned
Mut_GiveUp(h) ==
    /\ ~Idle(h)
    /\ stmt' = [stmt EXCEPT ![h] = "none"]
    /\ UNCHANGED <<tx, todo>>

\* An error, or the end of the request's context because its client is gone:
\* the deferred Rollback returns what the handler holds.  There is no timeout.
GiveUp(h) ==
    /\ ~Idle(h)
    /\ tx' = [tx EXCEPT ![h] = "none"]
    /\ stmt' = [stmt EXCEPT ![h] = "none"]
    /\ todo' = [todo EXCEPT ![h] = 0]

\* the process ends, and its pool with it
Crash ==
    /\ \E h \in Handlers : ~Idle(h)
    /\ tx' = [h \in Handlers |-> "none"]
    /\ stmt' = [h \in Handlers |-> "none"]
    /\ todo' = [h \in Handlers |-> 0]

Step(h) == Begin(h) \/ Acquire(h) \/ Return(h) \/ Commit(h)

Next == Crash \/ \E h \in Handlers : Start(h) \/ Step(h) \/ GiveUp(h)

Spec == Init /\ [][Next]_vars

\* The pool serves its waiters in order, so one that finds a free connection
\* again and again gets it; handlers with a connection use it.
FairSpec ==
    Spec /\ \A h \in Handlers : /\ SF_vars(Begin(h))
                                /\ SF_vars(Acquire(h))
                                /\ WF_vars(Return(h) \/ Commit(h))

(***************************************************************************)
(* Properties.                                                             *)
(***************************************************************************)
\* Every variable has its type and the pool never exceeds its limit.
PoolTypeOK ==
    /\ tx \in [Handlers -> {"none", "waiting", "open"}]
    /\ stmt \in [Handlers -> {"none", "waiting", "running"}]
    /\ todo \in [Handlers -> 0 .. 2]
    /\ Used <= MaxConns

\* Some handler is at work and none of them can take its next step.
Stalled ==
    /\ \E h \in Handlers : ~Idle(h)
    /\ \A h \in Handlers : ~Idle(h) =>
        /\ stmt[h] # "running"
        /\ ~(tx[h] = "open" /\ todo[h] = 0)
        /\ Used = MaxConns

\* The service stalls only when open transactions hold every connection and
\* each of them waits for one more (DoWithTx around store.GetWallet): never
\* because a connection was lost, and never below MaxConns transactions.
StallMeansTransactionsOnly ==
    Stalled => /\ Cardinality(Open) = MaxConns
               /\ \A h \in Open : stmt[h] = "waiting"

\* Nothing but a stall keeps a handler from ending: the pool starves nobody
\* that waits for a connection, and loses none.
OnlyAStallLasts == \A h \in Handlers : ~Idle(h) ~> Idle(h) \/ Stalled
=============================================================================
