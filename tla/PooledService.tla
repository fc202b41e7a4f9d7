--------------------------- MODULE PooledService ----------------------------
(***************************************************************************)
(* WalletService over the connection pool of internal/store.  A request    *)
(* with a transaction holds one connection from Begin to the end of its    *)
(* transaction; its reads, sent to the pool, take a second one each.  A    *)
(* connection is asked for while the database keeps row locks, so there    *)
(* are two things to wait for, and PostgreSQL's detector sees only one.    *)
(*                                                                         *)
(* The pool is ConnPool, with the same values of tx and stmt.              *)
(***************************************************************************)
EXTENDS WalletService

CONSTANT MaxConns   \* pool_max_conns

ASSUME PooledAssumption == IsFiniteSet(Requests) /\ MaxConns \in Nat \ {0}

VARIABLES
    tx,         \* the transaction of each process: "none", "waiting", "open"
    stmt        \* its statement on the pool: "none", "waiting", "running"

connVars == <<tx, stmt>>
pooledVars == <<vars, connVars>>

\* mutant: the second UPDATE of a transfer is sent to the pool
Mut_OnPool == {"insert", "verify", "read", "readTo", "remove", "credit"}

\* the stages of a request whose statement is sent to the pool
OnPool == {"insert", "verify", "read", "readTo", "remove"}

\* UpdateWallet, Deposit, Withdraw and Transfer run in DoWithTx.
Transactional(p) == call[p].op \notin {"create", "delete"}

\* the statements on the pool that are still to be made
Todo(p) ==
    CASE p = Archiver -> IF stmt[p] = "none" THEN 0 ELSE 1
      [] p # Archiver /\ pc[p] \in {"insert", "read"} ->
             IF call[p].op \in {"create", "delete", "transfer"} THEN 2 ELSE 1
      [] p # Archiver /\ pc[p] \in {"verify", "readTo", "remove"} -> 1
      [] OTHER -> 0

Pool == INSTANCE ConnPool WITH
    Handlers <- Procs,
    Concurrency <- Cardinality(Procs),
    todo <- [p \in Procs |-> Todo(p)]

PooledInit ==
    /\ Init
    /\ tx = [p \in Procs |-> "none"] /\ stmt = [p \in Procs |-> "none"]

(***************************************************************************)
(* Connections are asked for, handed out and given back.                   *)
(***************************************************************************)
Asks(p, v) == v' = [v EXCEPT ![p] = "waiting"]

ReleasesAll(p) ==
    /\ tx' = [tx EXCEPT ![p] = "none"] /\ stmt' = [stmt EXCEPT ![p] = "none"]

Begin(p) ==
    /\ tx[p] = "waiting" /\ Pool!Used < MaxConns
    /\ tx' = [tx EXCEPT ![p] = "open"] /\ Asks(p, stmt)
    /\ UNCHANGED vars

Acquire(p) ==
    /\ stmt[p] = "waiting" /\ Pool!Used < MaxConns
    /\ stmt' = [stmt EXCEPT ![p] = "running"]
    /\ UNCHANGED <<vars, tx>>

\* the statement p is at, if it is one on the pool, has a connection
Served(p) == pc[p] \in OnPool => stmt[p] = "running"

\* mutant: the transaction of a request that failed is never rolled back
Mut_Settles(p) ==
    \/ Busy(p)' /\ pc'[p] \in OnPool /\ Asks(p, stmt) /\ UNCHANGED tx
    \/ /\ ~(Busy(p)' /\ pc'[p] \in OnPool) /\ outcome'[p] # "ok"
       /\ stmt' = [stmt EXCEPT ![p] = "none"]
       /\ tx' = [tx EXCEPT ![p] = IF @ = "open" THEN "open" ELSE "none"]
    \/ ~Busy(p)' /\ outcome'[p] = "ok" /\ ReleasesAll(p)

\* After a step of its handler a request gives back the connection of the
\* statement; the one of the transaction too when the handler is done.
Settles(p) ==
    \/ Busy(p)' /\ pc'[p] \in OnPool /\ Asks(p, stmt) /\ UNCHANGED tx
    \/ /\ Busy(p)' /\ pc'[p] \notin OnPool
       /\ stmt' = [stmt EXCEPT ![p] = "none"] /\ UNCHANGED tx
    \/ ~Busy(p)' /\ ReleasesAll(p)

Arrives(p) ==
    /\ Receive(p)
    /\ \/ ~Busy(p)' /\ UNCHANGED connVars
       \/ Busy(p)' /\ Transactional(p)' /\ Asks(p, tx) /\ UNCHANGED stmt
       \/ Busy(p)' /\ ~Transactional(p)' /\ Asks(p, stmt) /\ UNCHANGED tx

Works(p) == Served(p) /\ Step(p) /\ Settles(p)

\* A handler may give up while it waits for a connection: its client leaves.
Errs(p) == (Fail(p) \/ (Served(p) /\ Failure(p))) /\ Settles(p)

\* mutant: the victim of a deadlock sends its statement again
Mut_Aborted(p) == Deadlocked(p) /\ UNCHANGED pooledVars

\* PostgreSQL aborts one of those that wait for each other's rows.
Aborted(p) == Victim(p) /\ ReleasesAll(p)

(***************************************************************************)
(* The archiver: one statement on the pool for every tick.                 *)
(***************************************************************************)
\* Service.Run takes a tick
Tick ==
    /\ arch.pc = "idle" /\ arch.rounds < Rounds /\ stmt[Archiver] = "none"
    /\ Asks(Archiver, stmt)
    /\ UNCHANGED <<vars, tx>>

\* the statement gives its connection back when it ends
ArchiverSettles ==
    IF arch'.pc \in {"idle", "dying"} THEN ReleasesAll(Archiver)
                                      ELSE UNCHANGED connVars

Archives == stmt[Archiver] = "running" /\ Archive /\ ArchiverSettles

ArchiverErrs == (ArchiveCommit(FALSE) \/ ArchiveFails) /\ ArchiverSettles

CrashesAll ==
    /\ Crash
    /\ tx' = [p \in Procs |-> "none"] /\ stmt' = [p \in Procs |-> "none"]

(***************************************************************************)
(* The specification.                                                      *)
(***************************************************************************)
PooledNext ==
    \/ \E p \in Requests : Arrives(p) \/ Begin(p) \/ Works(p) \/ Errs(p)
    \/ \E p \in Procs : Acquire(p) \/ Aborted(p)
    \/ Tick \/ Archives \/ ArchiverErrs
    \/ Age /\ UNCHANGED connVars
    \/ CrashesAll
    \/ Finished /\ UNCHANGED connVars

PooledSpec == PooledInit /\ [][PooledNext]_pooledVars

\* A handler that can take its next step takes it, the pool hands out a
\* connection that is free, the database resolves every deadlock on rows, a
\* failed process ends, and the archiver runs the statement of a tick.
\* Nothing is assumed of clients, time and failures.
Fairness ==
    /\ \A p \in Requests : WF_pooledVars(Begin(p)) /\ WF_pooledVars(Works(p))
    /\ \A p \in Procs : WF_pooledVars(Acquire(p))
    /\ WF_pooledVars(\E p \in Procs : Aborted(p))
    /\ WF_pooledVars(Archives)
    /\ WF_pooledVars(arch.pc = "dying" /\ CrashesAll)

FairPooledSpec == PooledSpec /\ Fairness

(***************************************************************************)
(* Properties.                                                             *)
(***************************************************************************)
\* Whoever holds the lock of a row waits for no connection: otherwise two
\* requests, one at a row and one at the pool, could wait for each other,
\* and PostgreSQL, which knows of rows only, would abort neither (the reads
\* of every service method come before its writes, and the writes take the
\* connection of the transaction).
LockHoldersAreServed ==
    \A w \in Wallets : lock[w] \in Procs =>
        tx[lock[w]] # "waiting" /\ stmt[lock[w]] # "waiting"

\* The service uses its pool as ConnPool says: with its stages, errors,
\* deadlocks and crashes it asks for a second connection only inside a
\* transaction, never for a third, and gives back what it took.
ImplementsPool == Pool!Spec

\* Every request that was received is answered or lost in a crash, whatever
\* deadlocks it gets into, unless the pool is stalled (store.DoWithTx around
\* store.GetWallet, without a timeout).
EveryRequestEnds == \A p \in Requests : Busy(p) ~> ~Busy(p) \/ Pool!Stalled

\* An archiving statement that has begun ends, whatever the pool is at, and
\* a process whose archiving goroutine failed does end and is replaced.
ArchivingEnds == arch.pc # "idle" ~> arch.pc = "idle"
=============================================================================
