--------------------------- MODULE ConnPoolProofs ---------------------------
(***************************************************************************)
(* The connection pool, for any number of handlers and connections.        *)
(***************************************************************************)
EXTENDS ConnPool, FiniteSetTheorems, TLAPS

\* A handler with a transaction and no statement under way has none to make;
\* one that waits for its transaction has not begun a statement.
StatementsOK ==
    \A h \in Handlers :
        /\ tx[h] = "open" /\ stmt[h] = "none" => todo[h] = 0
        /\ tx[h] = "waiting" => stmt[h] = "none"
        /\ stmt[h] # "none" \/ tx[h] = "waiting" => todo[h] > 0

PInv == PoolTypeOK /\ StatementsOK

\* Only finitely many connections are counted.
LEMMA CountsType ==
    /\ IsFiniteSet(Open) /\ IsFiniteSet(Running)
    /\ Cardinality(Open) \in Nat /\ Cardinality(Running) \in Nat
    /\ Used \in Nat
<1>1. Open \subseteq Handlers /\ Running \subseteq Handlers
  BY DEF Open, Running
<1>2. IsFiniteSet(Open) /\ IsFiniteSet(Running)
  BY <1>1, PoolAssumption, FS_Subset
<1>3. Cardinality(Open) \in Nat /\ Cardinality(Running) \in Nat
  BY <1>2, FS_CardinalityType
<1> QED
  BY <1>2, <1>3 DEF Used

\* Returning connections never raises the number in use.
LEMMA FewerInUse ==
    ASSUME Open' \subseteq Open, Running' \subseteq Running
    PROVE  Used' <= Used
<1>1. Cardinality(Open') <= Cardinality(Open) /\ Cardinality(Open') \in Nat
  BY CountsType, FS_Subset, FS_CardinalityType
<1>2. Cardinality(Running') <= Cardinality(Running) /\ Cardinality(Running') \in Nat
  BY CountsType, FS_Subset, FS_CardinalityType
<1> QED
  BY <1>1, <1>2, CountsType DEF Used

\* Handing one out raises it by one at most.
LEMMA OneMoreInUse ==
    ASSUME NEW h,
           \/ Open' = Open \cup {h} /\ Running' = Running
           \/ Open' = Open /\ Running' = Running \cup {h}
    PROVE  Used' \in Nat /\ Used' <= Used + 1
<1>1. ASSUME NEW S, IsFiniteSet(S)
      PROVE  /\ Cardinality(S \cup {h}) \in Nat
             /\ Cardinality(S \cup {h}) <= Cardinality(S) + 1
  <2>1. Cardinality(S) \in Nat
    BY <1>1, FS_CardinalityType
  <2>2. Cardinality(S \cup {h}) \in {Cardinality(S), Cardinality(S) + 1}
    BY <1>1, FS_AddElement
  <2> QED
    BY <2>1, <2>2
<1>2. CASE Open' = Open \cup {h} /\ Running' = Running
  BY <1>1, <1>2, CountsType DEF Used
<1>3. CASE Open' = Open /\ Running' = Running \cup {h}
  BY <1>1, <1>3, CountsType DEF Used
<1> QED
  BY <1>2, <1>3

\* An unused pool satisfies the invariant.
LEMMA PInitial == Init => PInv
<1> SUFFICES ASSUME Init PROVE PInv
  OBVIOUS
<1>1. Open = {} /\ Running = {}
  BY DEF Init, Open, Running
<1>2. Used <= MaxConns
  BY <1>1, FS_EmptySet, PoolAssumption DEF Used
<1> QED
  BY <1>2 DEF Init, PInv, PoolTypeOK, StatementsOK

\* Every step of a handler keeps the invariant.
LEMMA PStep ==
    ASSUME PInv, [Next]_vars
    PROVE  PInv'
<1> USE DEF PInv
<1>1. ASSUME NEW h \in Handlers, Start(h)
      PROVE  PInv'
  <2>1. PICK n \in 1 .. 2 : todo' = [todo EXCEPT ![h] = n]
    BY <1>1 DEF Start
  <2>2. Open' = Open /\ Running' = Running
    BY <1>1 DEF Start, Idle, Open, Running, PoolTypeOK
  <2>3. PoolTypeOK'
    BY <1>1, <2>1, <2>2 DEF Start, PoolTypeOK, Used
  <2>4. StatementsOK'
    BY <1>1, <2>1 DEF Start, Idle, StatementsOK, PoolTypeOK
  <2> QED
    BY <2>3, <2>4
<1>2. ASSUME NEW h \in Handlers, Begin(h)
      PROVE  PInv'
  <2>1. Open' = Open \cup {h} /\ Running' = Running
    BY <1>2 DEF Begin, Open, Running, PoolTypeOK, StatementsOK
  <2>2. Used' <= MaxConns
    BY <1>2, <2>1, OneMoreInUse, CountsType, PoolAssumption DEF Begin
  <2>3. PoolTypeOK'
    BY <1>2, <2>2 DEF Begin, PoolTypeOK
  <2>4. StatementsOK'
    BY <1>2 DEF Begin, StatementsOK, PoolTypeOK
  <2> QED
    BY <2>3, <2>4
<1>3. ASSUME NEW h \in Handlers, Acquire(h)
      PROVE  PInv'
  <2>1. Open' = Open /\ Running' = Running \cup {h}
    BY <1>3 DEF Acquire, Open, Running, PoolTypeOK
  <2>2. Used' <= MaxConns
    BY <1>3, <2>1, OneMoreInUse, CountsType, PoolAssumption DEF Acquire
  <2>3. PoolTypeOK'
    BY <1>3, <2>2 DEF Acquire, PoolTypeOK
  <2>4. StatementsOK'
    BY <1>3 DEF Acquire, StatementsOK, PoolTypeOK
  <2> QED
    BY <2>3, <2>4
<1>4. ASSUME NEW h \in Handlers, Return(h) \/ Commit(h) \/ GiveUp(h)
      PROVE  PInv'
  <2>1. Open' \subseteq Open /\ Running' \subseteq Running
    BY <1>4 DEF Return, Commit, GiveUp, Open, Running, PoolTypeOK
  <2>2. Used' <= MaxConns
    <3>1. Used' \in Nat /\ Used \in Nat
      <4>1. Cardinality(Open') \in Nat /\ Cardinality(Running') \in Nat
        BY <2>1, CountsType, FS_Subset, FS_CardinalityType
      <4> QED
        BY <4>1, CountsType DEF Used
    <3> QED
      BY <2>1, <3>1, FewerInUse, PoolAssumption DEF PoolTypeOK
  <2>3. PoolTypeOK'
    <3>1. todo[h] \in 1 .. 2 => todo[h] - 1 \in 0 .. 2
      OBVIOUS
    <3> QED
      BY <1>4, <2>2, <3>1 DEF Return, Commit, GiveUp, PoolTypeOK, StatementsOK
  <2>4. StatementsOK'
    BY <1>4 DEF Return, Commit, GiveUp, StatementsOK, PoolTypeOK
  <2> QED
    BY <2>3, <2>4
<1>5. CASE UNCHANGED vars
  BY <1>5 DEF vars, PoolTypeOK, StatementsOK, Used, Open, Running
<1>6. CASE Crash
  <2>1. Open' = {} /\ Running' = {}
    BY <1>6 DEF Crash, Open, Running
  <2>2. Used' <= MaxConns
    BY <2>1, FS_EmptySet, PoolAssumption DEF Used
  <2> QED
    BY <1>6, <2>2 DEF Crash, PoolTypeOK, StatementsOK
<1> QED
  BY <1>1, <1>2, <1>3, <1>4, <1>5, <1>6 DEF Next, Step

\* The invariant of the pool.
LEMMA PoolInductive == Spec => []PInv
  BY PInitial, PStep, PTL DEF Spec

\* The pool never exceeds its limit, however many handlers ask.
THEOREM PoolWithinLimit == Spec => []PoolTypeOK
<1>1. PInv => PoolTypeOK
  BY DEF PInv
<1> QED
  BY <1>1, PoolInductive, PTL

\* The service stalls only when MaxConns transactions are open and each waits
\* for a second connection.
THEOREM StallCause == Spec => []StallMeansTransactionsOnly
<1>1. ASSUME PInv, Stalled
      PROVE  Cardinality(Open) = MaxConns /\ \A h \in Open : stmt[h] = "waiting"
  <2>1. Used = MaxConns
    BY <1>1 DEF Stalled
  <2>2. Running = {}
    BY <1>1 DEF Stalled, Running, Idle
  <2>3. Cardinality(Open) = MaxConns
    BY <2>1, <2>2, CountsType, FS_EmptySet DEF Used
  <2>4. \A h \in Open : stmt[h] = "waiting"
    BY <1>1 DEF PInv, PoolTypeOK, StatementsOK, Stalled, Open, Idle
  <2> QED
    BY <2>3, <2>4
<1>2. PInv => StallMeansTransactionsOnly
  BY <1>1 DEF StallMeansTransactionsOnly
<1> QED
  BY <1>2, PoolInductive, PTL
=============================================================================
