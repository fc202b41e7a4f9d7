---------------------------- MODULE PooledProofs ----------------------------
(***************************************************************************)
(* PooledService: its steps are steps of WalletService, so what is proved  *)
(* there holds for it; who holds a row waits for no connection; and the    *)
(* service uses its pool as ConnPool says, for any requests and any number *)
(* of connections.                                                         *)
(***************************************************************************)
EXTENDS PooledService, WalletServiceProofs, FiniteSetTheorems

(***************************************************************************)
(* What a process has of the pool.                                         *)
(***************************************************************************)
ConnTypes ==
    /\ tx \in [Procs -> {"none", "waiting", "open"}]
    /\ stmt \in [Procs -> {"none", "waiting", "running"}]

\* A request with a transaction waits for its connection before its first
\* read, or has it; a statement on the pool waits for one or has one; a
\* request that is not at work has nothing.
RequestConns ==
    \A p \in Requests :
        \/ ~Busy(p) /\ tx[p] = "none" /\ stmt[p] = "none"
        \/ /\ Busy(p) /\ Transactional(p)
           /\ tx[p] = "waiting" /\ stmt[p] = "none" /\ pc[p] = "read"
        \/ /\ Busy(p) /\ Transactional(p) /\ tx[p] = "open"
           /\ pc[p] \in OnPool <=> stmt[p] # "none"
        \/ /\ Busy(p) /\ ~Transactional(p) /\ tx[p] = "none"
           /\ pc[p] \in OnPool /\ stmt[p] # "none"

\* The archiver has the connection of its statement for as long as it runs.
ArchiverConns ==
    /\ tx[Archiver] = "none"
    /\ arch.pc \in {"update", "commit"} => stmt[Archiver] = "running"
    /\ arch.pc = "dying" => stmt[Archiver] = "none"

ConnInv == ConnTypes /\ RequestConns /\ ArchiverConns

\* a step keeps ConnInv and is one of ConnPool
Kept == ConnInv' /\ [Pool!Next]_(Pool!vars)

(***************************************************************************)
(* Steps of the service as the pool sees them.                             *)
(***************************************************************************)
\* where a handler of operation op goes on after stage s
Follows(op, s) ==
    CASE s = "insert" -> {"verify"}
      [] s = "read" /\ op = "transfer" -> {"readTo"}
      [] s = "read" /\ op = "delete" -> {"remove"}
      [] s = "read" /\ op \notin {"transfer", "delete"} -> {"quote"}
      [] s = "readTo" -> {"quote"}
      [] s = "quote" -> {"write"}
      [] s = "write" -> {"credit", "publish", "commit"}
      [] s = "credit" -> {"publish"}
      [] s = "publish" -> {"commit"}
      [] OTHER -> {}

\* A handler that fails is done.
LEMMA FailureEnds ==
    ASSUME NEW p \in Requests, Failure(p)
    PROVE  /\ Busy(p) /\ pc' = [pc EXCEPT ![p] = "done"]
           /\ call' = call /\ arch' = arch
  BY DEF Failure, Insert, Remove, Commit, PublishFails, Fail, Abort, Finish, Busy

\* A handler that goes on goes to the next stage of its operation or is done.
LEMMA StepGoesOn ==
    ASSUME NEW p \in Requests, Step(p)
    PROVE  /\ Busy(p) /\ call' = call /\ arch' = arch
           /\ \E s \in {"done"} \cup Follows(call[p].op, pc[p]) :
                 pc' = [pc EXCEPT ![p] = s]
<1>1. CASE Insert(p, TRUE) \/ Verify(p) \/ Remove(p, TRUE) \/ Commit(p, TRUE)
  BY <1>1 DEF Insert, Verify, Remove, Commit, Finish, Goto, Busy, Follows
<1>2. CASE ReadWallet(p) \/ ReadTarget(p)
  BY <1>2 DEF ReadWallet, ReadTarget, AfterRead, Abort, Finish, Goto, Busy, Follows
<1>3. CASE QuoteUpdate(p) \/ QuoteDeposit(p) \/ QuoteWithdraw(p) \/ QuoteTransfer(p)
  BY <1>3 DEF QuoteUpdate, QuoteDeposit, QuoteWithdraw, QuoteTransfer, Quote,
              Abort, Finish, Goto, Busy, Follows
<1>4. CASE StoreUpdate(p) \/ StoreDeposit(p) \/ StoreWithdraw(p) \/ StoreDebit(p) \/ StoreCredit(p)
  BY <1>4 DEF StoreUpdate, StoreDeposit, StoreWithdraw, StoreDebit, StoreCredit,
              Update, Abort, Finish, Goto, Busy, Follows
<1>5. CASE Publish(p)
  BY <1>5 DEF Publish, Goto, Busy, Follows
<1> QED
  BY <1>1, <1>2, <1>3, <1>4, <1>5 DEF Step

\* The stages of a request that neither opens a transaction nor leaves the
\* pool, and the statements that are to be made at a stage.
LEMMA TodoOf ==
    ASSUME IInv, NEW p \in Requests
    PROVE  /\ Todo(p) \in 0 .. 2
           /\ Todo(p) # 0 <=> pc[p] \in OnPool
           /\ Busy(p) /\ ~Transactional(p) => pc[p] \in OnPool
<1>1. p # Archiver
  BY StoreAssumption
<1>2. Busy(p) => pc[p] \in StagesOf(call[p].op)
  BY DEF IInv, StagesOK
<1>3. Busy(p) /\ ~Transactional(p) => pc[p] \in OnPool
  BY <1>2 DEF StagesOf, Transactional, OnPool
<1>4. Todo(p) \in 0 .. 2 /\ (Todo(p) # 0 <=> pc[p] \in OnPool)
  BY <1>1 DEF Todo, OnPool
<1> QED
  BY <1>3, <1>4

\* At a step of p nobody else has more or less to do.
LEMMA OthersTodo ==
    ASSUME TypeOK, ConnTypes, NEW p \in Procs, NEW q \in Procs, q # p,
           q \in Requests => pc'[q] = pc[q] /\ call'[q] = call[q],
           stmt'[q] = stmt[q]
    PROVE  Todo(q)' = Todo(q)
  BY DEF Todo, Procs

\* Without a step of the service there is no more and no less to do, as long
\* as the archiver's statement does not begin or end.
LEMMA SameTodo ==
    ASSUME ConnTypes, UNCHANGED <<pc, call>>,
           stmt'[Archiver] = "none" <=> stmt[Archiver] = "none"
    PROVE  \A q \in Procs : Todo(q)' = Todo(q)
  BY DEF Todo, Procs

\* Whoever gives everything back, with nothing left to do, gave up.
LEMMA GivesUp ==
    ASSUME ConnTypes, NEW p \in Procs, ~Pool!Idle(p), ReleasesAll(p),
           Todo(p)' = 0, \A q \in Procs : q # p => Todo(q)' = Todo(q)
    PROVE  [Pool!Next]_(Pool!vars)
<1> DEFINE before == [q \in Procs |-> Todo(q)]
           after == [q \in Procs |-> Todo(q)']
<1>1. after = [before EXCEPT ![p] = 0]
  OBVIOUS
<1>2. Pool!GiveUp(p)
  BY <1>1 DEF Pool!GiveUp, ReleasesAll
<1> QED
  BY <1>2 DEF Pool!Next

\* ConnPool counts as everybody does.
LEMMA SameCount == \A S : Pool!Cardinality(S) = Cardinality(S)
  BY Zenon DEF Pool!Cardinality, Cardinality

\* One process may start as long as it is not at work itself.
LEMMA RoomToStart ==
    ASSUME NEW p \in Procs, Pool!Idle(p)
    PROVE  Cardinality({g \in Procs : ~Pool!Idle(g)}) < Cardinality(Procs)
<1>1. IsFiniteSet(Procs)
  BY PooledAssumption, FS_AddElement DEF Procs
<1>2. {g \in Procs : ~Pool!Idle(g)} \subseteq Procs \ {p}
  OBVIOUS
<1>3. /\ IsFiniteSet(Procs \ {p})
      /\ Cardinality(Procs \ {p}) = Cardinality(Procs) - 1
  BY <1>1, FS_RemoveElement
<1>4. Cardinality({g \in Procs : ~Pool!Idle(g)}) <= Cardinality(Procs \ {p})
  BY <1>2, <1>3, FS_Subset
<1>5. /\ Cardinality(Procs) \in Nat
      /\ Cardinality({g \in Procs : ~Pool!Idle(g)}) \in Nat
  BY <1>1, <1>2, <1>3, FS_Subset, FS_CardinalityType
<1> QED
  BY <1>3, <1>4, <1>5

(***************************************************************************)
(* Every action keeps ConnInv and is a step of ConnPool.                   *)
(***************************************************************************)
\* What a step of p does to the others: nothing.
LEMMA OthersConns ==
    ASSUME ConnInv, NEW p \in Requests, call' = call, arch' = arch,
           NEW s, pc' = [pc EXCEPT ![p] = s], pc \in [Requests -> Stages],
           \A q \in Procs : q # p => tx'[q] = tx[q] /\ stmt'[q] = stmt[q],
           ConnTypes',
           \/ ~Busy(p)' /\ tx'[p] = "none" /\ stmt'[p] = "none"
           \/ /\ Busy(p) /\ Busy(p)' /\ tx'[p] = tx[p]
              /\ Transactional(p) => tx[p] = "open"
              /\ ~Transactional(p) => s \in OnPool
              /\ s \in OnPool <=> stmt'[p] # "none"
    PROVE  ConnInv'
<1>1. ArchiverConns'
  BY StoreAssumption DEF ConnInv, ArchiverConns, Procs
<1>2. ASSUME NEW q \in Requests
      PROVE  \/ ~Busy(q)' /\ tx'[q] = "none" /\ stmt'[q] = "none"
             \/ /\ Busy(q)' /\ Transactional(q)'
                /\ tx'[q] = "waiting" /\ stmt'[q] = "none" /\ pc'[q] = "read"
             \/ /\ Busy(q)' /\ Transactional(q)' /\ tx'[q] = "open"
                /\ pc'[q] \in OnPool <=> stmt'[q] # "none"
             \/ /\ Busy(q)' /\ ~Transactional(q)' /\ tx'[q] = "none"
                /\ pc'[q] \in OnPool /\ stmt'[q] # "none"
  <2>1. CASE q # p
    BY <2>1 DEF ConnInv, RequestConns, Busy, Transactional, Procs
  <2>2. CASE q = p
    BY <2>2 DEF ConnInv, RequestConns, Busy, Transactional, Procs
  <2> QED
    BY <2>1, <2>2
<1> QED
  BY <1>1, <1>2 DEF ConnInv, RequestConns

\* A handler that is done has given everything back.
LEMMA DoneKeeps ==
    ASSUME IInv, ConnInv, NEW p \in Requests, Busy(p), call' = call, arch' = arch,
           pc' = [pc EXCEPT ![p] = "done"], ReleasesAll(p)
    PROVE  Kept
<1>1. p \in Procs /\ p # Archiver /\ pc \in [Requests -> Stages]
  BY StoreAssumption DEF Procs, IInv, TypeOK
<1>2. ~Busy(p)' /\ tx'[p] = "none" /\ stmt'[p] = "none" /\ ConnTypes'
  BY <1>1 DEF Busy, ReleasesAll, ConnInv, ConnTypes
<1>3. \A q \in Procs : q # p => tx'[q] = tx[q] /\ stmt'[q] = stmt[q]
  BY <1>1 DEF ReleasesAll, ConnInv, ConnTypes
<1>4. ConnInv'
  BY <1>1, <1>2, <1>3, OthersConns
<1>5. Todo(p)' = 0
  BY <1>1 DEF Todo
<1>6. \A q \in Procs : q # p => Todo(q)' = Todo(q)
  BY <1>1, <1>3, OthersTodo DEF ConnInv, IInv
<1>7. ~Pool!Idle(p)
  BY <1>1 DEF ConnInv, RequestConns, Pool!Idle
<1>8. [Pool!Next]_(Pool!vars)
  BY <1>1, <1>5, <1>6, <1>7, GivesUp DEF ConnInv
<1> QED
  BY <1>4, <1>8 DEF Kept

\* A handler goes on: its statement gives its connection back, and the next
\* one, if it is sent to the pool, asks for its own.
LEMMA WorksKeeps ==
    ASSUME IInv, ConnInv, NEW p \in Requests, Works(p)
    PROVE  Kept
<1>1. p \in Procs /\ p # Archiver /\ pc \in [Requests -> Stages]
  BY StoreAssumption DEF Procs, IInv, TypeOK
<1>2. Busy(p) /\ call' = call /\ arch' = arch
  BY StepGoesOn DEF Works
<1>3. PICK s \in {"done"} \cup Follows(call[p].op, pc[p]) : pc' = [pc EXCEPT ![p] = s]
  BY StepGoesOn DEF Works
<1>4. CASE s = "done"
  <2>1. ~Busy(p)'
    BY <1>1, <1>3, <1>4 DEF Busy
  <2>2. ReleasesAll(p)
    BY <2>1 DEF Works, Settles
  <2> QED
    BY <1>2, <1>3, <1>4, <2>2, DoneKeeps
<1>5. CASE s # "done"
  <2>1. s \in Follows(call[p].op, pc[p]) /\ pc'[p] = s
    BY <1>1, <1>3, <1>5
  <2>2. Busy(p)'
    BY <2>1 DEF Busy, Follows
  <2>3. /\ tx' = tx
        /\ s \in OnPool => stmt' = [stmt EXCEPT ![p] = "waiting"]
        /\ s \notin OnPool => stmt' = [stmt EXCEPT ![p] = "none"]
    BY <2>1, <2>2 DEF Works, Settles, Asks
  <2>4. /\ Transactional(p) => tx[p] = "open"
        /\ pc[p] \in OnPool => stmt[p] = "running"
        /\ pc[p] \notin OnPool => stmt[p] = "none"
    BY <1>2 DEF ConnInv, RequestConns, Works, Served, OnPool
  <2>5. ConnTypes'
    BY <1>1, <2>3 DEF ConnInv, ConnTypes
  <2>6. Busy(p) => pc[p] \in StagesOf(call[p].op)
    BY DEF IInv, StagesOK
  <2>7. ~Transactional(p) => s \in OnPool
    BY <1>2, <2>1, <2>6 DEF StagesOf, Follows, Transactional, OnPool
  <2>8. s \in OnPool <=> stmt'[p] # "none"
    BY <1>1, <2>3 DEF ConnInv, ConnTypes
  <2>9. \A q \in Procs : q # p => tx'[q] = tx[q] /\ stmt'[q] = stmt[q]
    BY <1>1, <2>3 DEF ConnInv, ConnTypes
  <2>10. ConnInv'
    BY <1>1, <1>2, <1>3, <2>2, <2>3, <2>4, <2>5, <2>7, <2>8, <2>9, OthersConns
  <2>11. \A q \in Procs : q # p => Todo(q)' = Todo(q)
    BY <1>1, <1>2, <1>3, <2>9, OthersTodo DEF ConnInv, IInv
  <2>12. CASE pc[p] \in OnPool
    <3>1. /\ s \in OnPool => Todo(p) = 2 /\ Todo(p)' = 1
          /\ s \notin OnPool => Todo(p) = 1 /\ Todo(p)' = 0
      BY <1>1, <1>2, <2>1, <2>6, <2>12 DEF Todo, Follows, StagesOf, OnPool
    <3> DEFINE before == [q \in Procs |-> Todo(q)]
               after == [q \in Procs |-> Todo(q)']
    <3>2. before[p] = Todo(p) /\ after = [before EXCEPT ![p] = Todo(p)']
      BY <1>1, <2>11
    <3>3. after = [before EXCEPT ![p] = @ - 1]
      <4>1. Todo(p)' = before[p] - 1
        BY <3>1, <3>2
      <4> QED
        BY <3>2, <4>1, Zenon
    <3>4. stmt' = [stmt EXCEPT ![p] = IF before[p] > 1 THEN "waiting" ELSE "none"]
      BY <2>3, <3>1, <3>2
    <3>5. Pool!Return(p)
      BY <2>3, <2>4, <2>12, <3>3, <3>4 DEF Pool!Return
    <3> QED
      BY <1>1, <2>10, <3>5 DEF Kept, Pool!Next, Pool!Step
  <2>13. CASE pc[p] \notin OnPool
    <3>1. s \notin OnPool
      BY <2>1, <2>13 DEF Follows, OnPool
    <3>2. Todo(p) = 0 /\ Todo(p)' = 0
      BY <1>1, <2>1, <2>13, <3>1 DEF Todo, OnPool
    <3>3. stmt' = stmt
      BY <1>1, <2>3, <2>4, <2>13, <3>1 DEF ConnInv, ConnTypes
    <3> QED
      BY <2>3, <2>10, <2>11, <3>2, <3>3 DEF Kept, Pool!vars
  <2> QED
    BY <2>12, <2>13
<1> QED
  BY <1>4, <1>5

\* A handler that fails, or gives up waiting, gives everything back.
LEMMA ErrsKeeps ==
    ASSUME IInv, ConnInv, NEW p \in Requests, Errs(p)
    PROVE  Kept
<1>1. /\ Busy(p) /\ pc' = [pc EXCEPT ![p] = "done"]
      /\ call' = call /\ arch' = arch
  BY FailureEnds DEF Errs, Failure
<1>2. ~Busy(p)'
  BY <1>1 DEF Busy, IInv, TypeOK
<1>3. ReleasesAll(p)
  BY <1>2 DEF Errs, Settles
<1> QED
  BY <1>1, <1>3, DoneKeeps

\* A request that passes validation asks for its first connection.
LEMMA ArrivesKeeps ==
    ASSUME IInv, ConnInv, NEW p \in Requests, Arrives(p)
    PROVE  Kept
<1>1. /\ p \in Procs /\ p # Archiver
      /\ pc \in [Requests -> Stages] /\ call \in [Requests -> Bodies \cup {Null}]
  BY StoreAssumption DEF Procs, IInv, TypeOK
<1>2. pc[p] = "idle" /\ arch' = arch
  BY DEF Arrives, Receive
<1>3. PICK b \in Bodies, s \in {"insert", "read", "done"} :
         call' = [call EXCEPT ![p] = b] /\ pc' = [pc EXCEPT ![p] = s]
  BY DEF Arrives, Receive, Goto
<1>4. tx[p] = "none" /\ stmt[p] = "none"
  BY <1>2 DEF ConnInv, RequestConns, Busy
<1>5. s = "insert" <=> b.op = "create" /\ s # "done"
  <2>1. /\ Receive(p) /\ call'[p] = b /\ pc'[p] = s
    BY <1>1, <1>3 DEF Arrives
  <2>2. PICK c \in Bodies :
           /\ call' = [call EXCEPT ![p] = c]
           /\ \/ pc' = [pc EXCEPT ![p] = IF c.op = "create" THEN "insert" ELSE "read"]
              \/ pc' = [pc EXCEPT ![p] = "done"]
    BY <2>1 DEF Receive, Goto
  <2> QED
    BY <1>1, <2>1, <2>2
<1>6. ConnTypes' /\ \A q \in Procs : q # p => tx'[q] = tx[q] /\ stmt'[q] = stmt[q]
  BY <1>1 DEF Arrives, Asks, connVars, ConnInv, ConnTypes
<1>7. \A q \in Procs : q # p => Todo(q)' = Todo(q)
  BY <1>1, <1>3, <1>6, OthersTodo DEF ConnInv, IInv
<1>8. Todo(p) = 0
  BY <1>1, <1>2 DEF Todo
<1>9. ArchiverConns'
  BY <1>1, <1>2, <1>6 DEF ConnInv, ArchiverConns, Procs
<1>10. RequestConns'
  <2>1. ASSUME NEW q \in Requests, q # p
        PROVE  /\ Busy(q)' <=> Busy(q)
               /\ Transactional(q)' <=> Transactional(q)
               /\ pc'[q] = pc[q] /\ tx'[q] = tx[q] /\ stmt'[q] = stmt[q]
    BY <1>1, <1>3, <1>6, <2>1 DEF Busy, Transactional, Procs
  <2>2. \/ ~Busy(p)' /\ tx'[p] = "none" /\ stmt'[p] = "none"
        \/ /\ Busy(p)' /\ Transactional(p)'
           /\ tx'[p] = "waiting" /\ stmt'[p] = "none" /\ pc'[p] = "read"
        \/ /\ Busy(p)' /\ ~Transactional(p)' /\ tx'[p] = "none"
           /\ pc'[p] \in OnPool /\ stmt'[p] # "none"
    BY <1>1, <1>3, <1>4, <1>5
       DEF Arrives, Asks, connVars, ConnInv, ConnTypes, Busy, Transactional, OnPool
  <2> QED
    BY <2>1, <2>2 DEF ConnInv, RequestConns
<1>11. [Pool!Next]_(Pool!vars)
  <2>1. CASE s = "done"
    <3>1. ~Busy(p)' /\ Todo(p)' = 0
      BY <1>1, <1>3, <2>1 DEF Busy, Todo
    <3>2. UNCHANGED connVars
      BY <3>1 DEF Arrives
    <3> QED
      BY <1>7, <1>8, <3>1, <3>2 DEF Pool!vars, connVars
  <2>2. CASE s # "done"
    <3>1. Busy(p)' /\ Todo(p)' \in 1 .. 2
      BY <1>1, <1>3, <2>2 DEF Busy, Todo
    <3>2. \/ tx' = [tx EXCEPT ![p] = "waiting"] /\ UNCHANGED stmt
          \/ stmt' = [stmt EXCEPT ![p] = "waiting"] /\ UNCHANGED tx
      BY <3>1 DEF Arrives, Asks
    <3>3. Pool!Idle(p)
      BY <1>4 DEF Pool!Idle
    <3> DEFINE before == [q \in Procs |-> Todo(q)]
               after == [q \in Procs |-> Todo(q)']
    <3>4. after = [before EXCEPT ![p] = Todo(p)']
      BY <1>1, <1>7
    <3>5. \E n \in 1 .. 2 : after = [before EXCEPT ![p] = n]
      BY <3>1, <3>4
    <3>6. Pool!Start(p)
      BY <1>1, <3>2, <3>3, <3>5, RoomToStart, SameCount DEF Pool!Start
    <3> QED
      BY <1>1, <3>6 DEF Pool!Next
  <2> QED
    BY <2>1, <2>2
<1> QED
  BY <1>6, <1>9, <1>10, <1>11 DEF Kept, ConnInv

\* The pool hands out a connection.
LEMMA BeginKeeps ==
    ASSUME IInv, ConnInv, NEW p \in Requests, Begin(p)
    PROVE  Kept
<1>1. p \in Procs /\ p # Archiver
  BY StoreAssumption DEF Procs
<1>2. /\ Busy(p) /\ Transactional(p) /\ pc[p] = "read"
      /\ tx' = [tx EXCEPT ![p] = "open"] /\ stmt' = [stmt EXCEPT ![p] = "waiting"]
      /\ UNCHANGED <<pc, call, arch>>
  BY DEF Begin, Asks, ConnInv, RequestConns, vars
<1>3. ConnTypes'
  BY <1>1, <1>2 DEF ConnInv, ConnTypes
<1>4. RequestConns'
  BY <1>1, <1>2 DEF ConnInv, ConnTypes, RequestConns, Busy, Transactional, OnPool, Procs
<1>5. ArchiverConns'
  BY <1>1, <1>2 DEF ConnInv, ConnTypes, ArchiverConns
<1>6. \A q \in Procs : Todo(q)' = Todo(q)
  BY <1>1, <1>2, SameTodo DEF ConnInv, ConnTypes
<1>7. Pool!Begin(p)
  BY <1>2, <1>6 DEF Begin, Pool!Begin
<1> QED
  BY <1>1, <1>3, <1>4, <1>5, <1>7 DEF Kept, ConnInv, Pool!Next, Pool!Step

LEMMA AcquireKeeps ==
    ASSUME IInv, ConnInv, NEW p \in Procs, Acquire(p)
    PROVE  Kept
<1>1. /\ stmt[p] = "waiting" /\ stmt' = [stmt EXCEPT ![p] = "running"]
      /\ UNCHANGED <<pc, call, arch, tx>>
  BY DEF Acquire, vars
<1>2. ConnTypes'
  BY <1>1 DEF ConnInv, ConnTypes
<1>3. RequestConns'
  BY <1>1 DEF ConnInv, ConnTypes, RequestConns, Busy, Transactional, Procs
<1>4. ArchiverConns'
  BY <1>1 DEF ConnInv, ConnTypes, ArchiverConns, Procs
<1>5. \A q \in Procs : Todo(q)' = Todo(q)
  BY <1>1, SameTodo DEF ConnInv, ConnTypes, Procs
<1>6. Pool!Acquire(p)
  BY <1>1, <1>5 DEF Acquire, Pool!Acquire
<1> QED
  BY <1>2, <1>3, <1>4, <1>6 DEF Kept, ConnInv, Pool!Next, Pool!Step

(***************************************************************************)
(* The archiver.                                                           *)
(***************************************************************************)
\* A step of the archiver that leaves requests and connections alone.
LEMMA ArchiverMoves ==
    ASSUME ConnInv, UNCHANGED <<pc, call, tx, stmt>>, stmt[Archiver] = "running",
           arch'.pc # "dying"
    PROVE  Kept
<1>1. ConnInv'
  BY DEF ConnInv, ConnTypes, RequestConns, ArchiverConns, Busy, Transactional
<1>2. \A q \in Procs : Todo(q)' = Todo(q)
  BY SameTodo DEF ConnInv
<1> QED
  BY <1>1, <1>2 DEF Kept, Pool!vars

\* The statement of the archiver ends and gives its connection back.
LEMMA ArchiverEnds ==
    ASSUME ConnInv, UNCHANGED <<pc, call>>, stmt[Archiver] # "none",
           ReleasesAll(Archiver), arch'.pc \in {"idle", "dying"}
    PROVE  Kept
<1>1. Archiver \in Procs /\ Archiver \notin Requests
  BY StoreAssumption DEF Procs
<1>2. /\ ConnTypes' /\ tx'[Archiver] = "none" /\ stmt'[Archiver] = "none"
      /\ \A q \in Procs : q # Archiver => tx'[q] = tx[q] /\ stmt'[q] = stmt[q]
  BY <1>1 DEF ReleasesAll, ConnInv, ConnTypes
<1>3. RequestConns'
  BY <1>1, <1>2 DEF ConnInv, RequestConns, Busy, Transactional, Procs
<1>4. ArchiverConns'
  BY <1>2 DEF ArchiverConns
<1>5. /\ Todo(Archiver)' = 0
      /\ \A q \in Procs : q # Archiver => Todo(q)' = Todo(q)
  BY <1>2 DEF Todo
<1>6. [Pool!Next]_(Pool!vars)
  BY <1>1, <1>5, GivesUp DEF Pool!Idle, ConnInv
<1> QED
  BY <1>2, <1>3, <1>4, <1>6 DEF Kept, ConnInv

\* A tick: the statement asks for its connection.
LEMMA TickKeeps ==
    ASSUME ConnInv, Tick
    PROVE  Kept
<1>1. Archiver \in Procs /\ Archiver \notin Requests
  BY StoreAssumption DEF Procs
<1>2. /\ stmt[Archiver] = "none" /\ stmt' = [stmt EXCEPT ![Archiver] = "waiting"]
      /\ UNCHANGED <<pc, call, arch, tx>> /\ arch.pc = "idle"
  BY DEF Tick, Asks, vars
<1>3. ConnTypes'
  BY <1>2 DEF ConnInv, ConnTypes
<1>4. RequestConns'
  BY <1>1, <1>2 DEF ConnInv, ConnTypes, RequestConns, Busy, Transactional, Procs
<1>5. ArchiverConns'
  BY <1>2 DEF ConnInv, ArchiverConns
<1>6. Pool!Start(Archiver)
  <2> DEFINE before == [q \in Procs |-> Todo(q)]
             after == [q \in Procs |-> Todo(q)']
  <2>1. Pool!Idle(Archiver)
    BY <1>2 DEF Pool!Idle, ConnInv, ArchiverConns
  <2>2. /\ Todo(Archiver)' = 1
        /\ \A q \in Procs : q # Archiver => Todo(q)' = Todo(q)
    BY <1>1, <1>2 DEF Todo, ConnInv, ConnTypes
  <2>3. after = [before EXCEPT ![Archiver] = 1]
    BY <2>2
  <2>4. \E n \in 1 .. 2 : after = [before EXCEPT ![Archiver] = n]
    BY <2>3
  <2> QED
    BY <1>1, <1>2, <2>1, <2>4, RoomToStart, SameCount DEF Pool!Start
<1> QED
  BY <1>1, <1>3, <1>4, <1>5, <1>6 DEF Kept, ConnInv, Pool!Next

LEMMA ArchivesKeeps ==
    ASSUME IInv, ConnInv, Archives \/ ArchiverErrs
    PROVE  Kept
<1>1. UNCHANGED <<pc, call>>
  BY DEF Archives, ArchiverErrs, Archive, ArchiveStart, ArchiveRow, ArchiveCommit,
         ArchiveFails, ArchiveAborts, requestVars
<1>2. stmt[Archiver] = "running"
  BY DEF Archives, ArchiverErrs, ArchiveCommit, ArchiveFails, ConnInv, ArchiverConns
<1>3. CASE arch'.pc \in {"idle", "dying"}
  BY <1>1, <1>2, <1>3, ArchiverEnds DEF Archives, ArchiverErrs, ArchiverSettles
<1>4. CASE arch'.pc \notin {"idle", "dying"}
  BY <1>1, <1>2, <1>4, ArchiverMoves DEF Archives, ArchiverErrs, ArchiverSettles, connVars
<1> QED
  BY <1>3, <1>4

(***************************************************************************)
(* Deadlocks, crashes, and the passing of time.                            *)
(***************************************************************************)
\* The victim of a deadlock gives everything back.
LEMMA AbortedKeeps ==
    ASSUME IInv, ConnInv, NEW p \in Procs, Aborted(p)
    PROVE  Kept
<1>1. Blocked(p)
  BY DEF Aborted, Victim, Deadlocked
<1>2. CASE p = Archiver
  <2>1. /\ UNCHANGED <<pc, call>> /\ stmt[Archiver] = "running"
        /\ arch'.pc = "dying"
    BY <1>1, <1>2
       DEF Aborted, Victim, ArchiveAborts, requestVars, Blocked, ConnInv,
           ArchiverConns, IInv, TypeOK
  <2> QED
    BY <1>2, <2>1, ArchiverEnds DEF Aborted
<1>3. CASE p # Archiver
  <2>1. /\ p \in Requests /\ Busy(p) /\ call' = call /\ arch' = arch
        /\ pc' = [pc EXCEPT ![p] = "done"]
    BY <1>1, <1>3 DEF Procs, Aborted, Victim, Abort, Finish, Blocked, Waits, Busy
  <2> QED
    BY <2>1, DoneKeeps DEF Aborted
<1> QED
  BY <1>2, <1>3

\* A crash ends everybody and the pool with them.
LEMMA CrashKeepsPool ==
    ASSUME IInv, ConnInv, CrashesAll
    PROVE  Kept
<1>1. /\ \A p \in Requests : pc'[p] \in {"idle", "done"}
      /\ arch'.pc = "idle"
      /\ tx' = [p \in Procs |-> "none"] /\ stmt' = [p \in Procs |-> "none"]
  BY DEF CrashesAll, Crash, Busy, IInv, TypeOK
<1>2. Archiver \in Procs /\ Requests \subseteq Procs /\ Archiver \notin Requests
  BY StoreAssumption DEF Procs
<1>3. ConnInv'
  BY <1>1, <1>2 DEF ConnInv, ConnTypes, RequestConns, ArchiverConns, Busy
<1>4. \A q \in Procs : Todo(q)' = 0
  BY <1>1, <1>2 DEF Todo, Procs
<1>5. CASE \E q \in Procs : ~Pool!Idle(q)
  BY <1>1, <1>3, <1>4, <1>5 DEF Kept, Pool!Crash, Pool!Next
<1>6. CASE \A q \in Procs : Pool!Idle(q)
  <2>1. \A q \in Procs : tx[q] = "none" /\ stmt[q] = "none"
    BY <1>6 DEF Pool!Idle
  <2>2. tx' = tx /\ stmt' = stmt
    BY <1>1, <2>1 DEF ConnInv, ConnTypes
  <2>3. \A q \in Procs : Todo(q) = 0
    <3>1. \A q \in Requests : ~Busy(q)
      BY <1>2, <2>1 DEF ConnInv, RequestConns
    <3> QED
      BY <1>2, <2>1, <3>1 DEF Todo, Busy, Procs
  <2> QED
    BY <1>3, <1>4, <2>2, <2>3 DEF Kept, Pool!vars
<1> QED
  BY <1>5, <1>6

\* What neither moves a request or the archiver nor touches a connection.
LEMMA RestKeeps ==
    ASSUME ConnInv, UNCHANGED <<pc, call, arch, tx, stmt>>
    PROVE  Kept
<1>1. ConnInv'
  BY DEF ConnInv, ConnTypes, RequestConns, ArchiverConns, Busy, Transactional
<1>2. \A q \in Procs : Todo(q)' = Todo(q)
  BY SameTodo DEF ConnInv
<1> QED
  BY <1>1, <1>2 DEF Kept, Pool!vars

LEMMA PooledStepKeeps ==
    ASSUME IInv, ConnInv, [PooledNext]_pooledVars
    PROVE  Kept
<1>1. ASSUME NEW p \in Requests, Arrives(p) \/ Begin(p) \/ Works(p) \/ Errs(p)
      PROVE  Kept
  BY <1>1, ArrivesKeeps, BeginKeeps, WorksKeeps, ErrsKeeps
<1>2. ASSUME NEW p \in Procs, Acquire(p) \/ Aborted(p)
      PROVE  Kept
  BY <1>2, AcquireKeeps, AbortedKeeps
<1>3. CASE Tick \/ Archives \/ ArchiverErrs
  BY <1>3, TickKeeps, ArchivesKeeps
<1>4. CASE Age /\ UNCHANGED connVars
  BY <1>4, RestKeeps DEF Age, requestVars, connVars
<1>5. CASE CrashesAll
  BY <1>5, CrashKeepsPool
<1>6. CASE (Finished /\ UNCHANGED connVars) \/ UNCHANGED pooledVars
  BY <1>6, RestKeeps DEF Finished, vars, connVars, pooledVars
<1> QED
  BY <1>1, <1>2, <1>3, <1>4, <1>5, <1>6 DEF PooledNext

(***************************************************************************)
(* The theorems.                                                           *)
(***************************************************************************)
\* A step of the service over its pool is a step of the service, or of the
\* pool alone.
LEMMA PooledStepServes ==
    ASSUME [PooledNext]_pooledVars
    PROVE  [Next]_vars
<1>1. ASSUME NEW p \in Requests, Arrives(p) \/ Begin(p) \/ Works(p) \/ Errs(p)
      PROVE  [Next]_vars
  BY <1>1 DEF Arrives, Begin, Works, Errs, Failure, Next
<1>2. ASSUME NEW p \in Procs, Acquire(p) \/ Aborted(p)
      PROVE  [Next]_vars
  BY <1>2 DEF Acquire, Aborted, Next
<1>3. CASE Tick \/ Archives \/ ArchiverErrs
  BY <1>3 DEF Tick, Archives, ArchiverErrs, Next
<1>4. CASE Age \/ CrashesAll \/ Finished \/ UNCHANGED pooledVars
  BY <1>4 DEF CrashesAll, Next, pooledVars
<1> QED
  BY <1>1, <1>2, <1>3, <1>4 DEF PooledNext

\* The pool only restricts the service: what is proved of Spec, invariants
\* and action properties alike, holds for the service over its pool.
THEOREM PooledIsService == PooledSpec => Spec
<1>1. PooledInit => Init
  BY DEF PooledInit
<1>2. [PooledNext]_pooledVars => [Next]_vars
  BY PooledStepServes
<1> QED
  BY <1>1, <1>2, PTL DEF PooledSpec, Spec

LEMMA InitConns == PooledInit => ConnInv
<1> SUFFICES ASSUME PooledInit PROVE ConnInv
  OBVIOUS
<1>1. Archiver \in Procs /\ Requests \subseteq Procs
  BY DEF Procs
<1> QED
  BY <1>1 DEF PooledInit, Init, ConnInv, ConnTypes, RequestConns, ArchiverConns, Busy

LEMMA PooledInductive == PooledSpec => [](IInv /\ ConnInv)
<1>1. PooledInit => ConnInv
  BY InitConns
<1>2. IInv /\ ConnInv /\ [PooledNext]_pooledVars => ConnInv'
  BY PooledStepKeeps DEF Kept
<1> QED
  BY <1>1, <1>2, PooledIsService, Inductive, PTL DEF PooledSpec

\* Whoever holds the lock of a row waits for no connection, whatever fails,
\* deadlocks or crashes: the reads of every service method, which are sent
\* to the pool, come before its writes.
THEOREM LocksAreServed == PooledSpec => []LockHoldersAreServed
<1>1. IInv /\ ConnInv => LockHoldersAreServed
  <2> SUFFICES ASSUME IInv, ConnInv, NEW w \in Wallets, lock[w] \in Procs
               PROVE  tx[lock[w]] # "waiting" /\ stmt[lock[w]] # "waiting"
    BY DEF LockHoldersAreServed
  <2>1. CASE lock[w] \in Requests
    <3>1. pc[lock[w]] \in {"credit", "publish", "commit"}
      BY <2>1 DEF IInv, WritersHoldTheirRows
    <3> QED
      BY <2>1, <3>1 DEF ConnInv, RequestConns, Busy, OnPool
  <2>2. CASE lock[w] = Archiver
    BY <2>2 DEF IInv, WritersHoldTheirRows, ConnInv, ArchiverConns
  <2> QED
    BY <2>1, <2>2 DEF Procs
<1> QED
  BY <1>1, PooledInductive, PTL

\* The service uses its pool as ConnPool says, with every error, deadlock
\* and crash: so what is proved of ConnPool, its limit and the only cause of
\* a stall, holds for the service (DoWithTx around store.GetWallet).
THEOREM ServiceKeepsPool == PooledSpec => ImplementsPool
<1>1. PooledInit => Pool!Init
  <2> SUFFICES ASSUME PooledInit PROVE Pool!Init
    OBVIOUS
  <2>1. \A q \in Procs : Todo(q) = 0
    BY StoreAssumption DEF PooledInit, Init, Todo, Procs
  <2> QED
    BY <2>1 DEF PooledInit, Pool!Init
<1>2. IInv /\ ConnInv /\ [PooledNext]_pooledVars => [Pool!Next]_(Pool!vars)
  BY PooledStepKeeps DEF Kept
<1> QED
  BY <1>1, <1>2, PooledInductive, PTL DEF PooledSpec, ImplementsPool, Pool!Spec
=============================================================================
