------------------------- MODULE StaleWalletsProofs -------------------------
(***************************************************************************)
(* When a wallet is archived, for any period, zone, delay and bound.       *)
(***************************************************************************)
EXTENDS StaleWallets, TLAPS

\* updated_at lies before the last change by no more than the slack.
AgeKnown == \A w \in Wallets : row[w].age <= quiet[w] + Slack

AgeInv == StaleTypeOK /\ AgeKnown

\* The cut-off is a number of units.
LEMMA CutOffType == CutOff \in Int
<1>1. CheckPeriod \div Hour \in Int
  BY StaleAssumption
<1> QED
  BY <1>1, StaleAssumption DEF CutOff

\* One unit passes for an age and for the quiet behind it alike.
LEMMA OlderKeeps ==
    ASSUME NEW a \in 0 .. Cap, NEW b \in 0 .. Cap, a <= b + Slack
    PROVE  /\ Older(a) \in 0 .. Cap
           /\ Older(b) \in 0 .. Cap
           /\ Older(a) <= Older(b) + Slack
<1>1. Slack \in Nat /\ Cap \in Nat
  BY StaleAssumption DEF Slack
<1>2. CASE a < Cap /\ b < Cap
  BY <1>1, <1>2 DEF Older
<1>3. CASE ~(a < Cap) \/ ~(b < Cap)
  BY <1>1, <1>3 DEF Older
<1> QED
  BY <1>2, <1>3

\* A committed change dates the row back by the slack at most.
LEMMA ChangedKeeps ==
    ASSUME AgeInv, NEW w \in Wallets, NEW r \in Row, NEW a \in 0 .. Slack,
           Changed(w, r, a),
           tx' \in [Wallets -> -1 .. TxTime], changes' \in 0 .. MaxChanges
    PROVE  AgeInv'
<1>1. Slack \in Nat /\ Slack <= Cap /\ Cap \in Nat
  BY StaleAssumption DEF Slack
<1>2. [r EXCEPT !.age = a] \in Row
  BY <1>1 DEF Row
<1>3. /\ row' = [row EXCEPT ![w] = [r EXCEPT !.age = a]]
      /\ quiet' = [quiet EXCEPT ![w] = 0]
      /\ UNCHANGED <<left, ticked>>
  BY DEF Changed
<1>4. row \in [Wallets -> Row] /\ quiet \in [Wallets -> 0 .. Cap]
  BY DEF AgeInv, StaleTypeOK
<1>5. row' \in [Wallets -> Row] /\ quiet' \in [Wallets -> 0 .. Cap]
  BY <1>1, <1>2, <1>3, <1>4
<1>6. StaleTypeOK'
  BY <1>3, <1>5 DEF AgeInv, StaleTypeOK
<1>7. AgeKnown'
  <2> SUFFICES ASSUME NEW v \in Wallets
               PROVE  row'[v].age <= quiet'[v] + Slack
    BY DEF AgeKnown, Slack
  <2>1. CASE v = w
    <3>1. row'[v].age = a /\ quiet'[v] = 0
      BY <2>1, <1>3, <1>4 DEF Row
    <3> QED
      BY <3>1, <1>1
  <2>2. CASE v # w
    <3>1. row'[v] = row[v] /\ quiet'[v] = quiet[v]
      BY <2>2, <1>3, <1>4
    <3> QED
      BY <3>1 DEF AgeInv, AgeKnown
  <2> QED
    BY <2>1, <2>2
<1> QED
  BY <1>6, <1>7 DEF AgeInv

\* The service starts without wallets.
LEMMA AgeInitial == Init => AgeInv
<1> SUFFICES ASSUME Init PROVE AgeInv
  OBVIOUS
<1>1. /\ Slack \in Nat /\ Cap \in Nat /\ MaxChanges \in Nat
      /\ TxTime \in Nat /\ CheckPeriod \in Nat \ {0}
  BY StaleAssumption DEF Slack
<1>2. [state |-> "absent", empty |-> TRUE, age |-> 0] \in Row
  BY <1>1 DEF Row
<1>3. row \in [Wallets -> Row]
  BY <1>2 DEF Init
<1>4. tx \in [Wallets -> -1 .. TxTime] /\ quiet \in [Wallets -> 0 .. Cap]
  <2>1. -1 \in -1 .. TxTime /\ 0 \in 0 .. Cap
    BY <1>1
  <2> QED
    BY <2>1 DEF Init
<1>5. left \in 1 .. CheckPeriod /\ ticked \in BOOLEAN /\ changes \in 0 .. MaxChanges
  <2>1. left = CheckPeriod /\ ticked = FALSE /\ changes = 0
    BY DEF Init
  <2>2. CheckPeriod \in 1 .. CheckPeriod /\ 0 \in 0 .. MaxChanges
    BY <1>1
  <2> QED
    BY <2>1, <2>2
<1>6. StaleTypeOK
  BY <1>3, <1>4, <1>5 DEF StaleTypeOK
<1>7. ASSUME NEW w \in Wallets
      PROVE  row[w].age <= quiet[w] + Slack
  <2>1. row[w].age = 0
    BY DEF Init
  <2>2. quiet[w] = 0
    BY DEF Init
  <2> QED
    BY <1>1, <2>1, <2>2
<1> QED
  BY <1>6, <1>7 DEF AgeInv, AgeKnown

\* A unit of time keeps the invariant.
LEMMA PassKeeps ==
    ASSUME AgeInv, Pass
    PROVE  AgeInv'
<1>1. /\ row \in [Wallets -> Row] /\ quiet \in [Wallets -> 0 .. Cap]
      /\ tx \in [Wallets -> -1 .. TxTime]
      /\ left \in 1 .. CheckPeriod /\ ticked \in BOOLEAN
  BY DEF AgeInv, StaleTypeOK
<1>2. ASSUME NEW w \in Wallets
      PROVE  /\ row'[w] = [row[w] EXCEPT !.age = Older(row[w].age)]
             /\ quiet'[w] = Older(quiet[w])
             /\ row[w] \in Row /\ row[w].age \in 0 .. Cap
             /\ Older(row[w].age) \in 0 .. Cap
             /\ Older(quiet[w]) \in 0 .. Cap
             /\ Older(row[w].age) <= Older(quiet[w]) + Slack
  <2>1. row[w] \in Row /\ row[w].age \in 0 .. Cap /\ quiet[w] \in 0 .. Cap
    BY <1>1 DEF Row
  <2>2. row[w].age <= quiet[w] + Slack
    BY DEF AgeInv, AgeKnown
  <2> QED
    BY <2>1, <2>2, OlderKeeps DEF Pass
<1>3. row' \in [Wallets -> Row]
  <2>1. \A w \in Wallets : [row[w] EXCEPT !.age = Older(row[w].age)] \in Row
    BY <1>2 DEF Row
  <2> QED
    BY <2>1 DEF Pass
<1>4. quiet' \in [Wallets -> 0 .. Cap]
  BY <1>2 DEF Pass
<1>5. tx' \in [Wallets -> -1 .. TxTime]
  <2>1. \A w \in Wallets : (IF tx[w] = -1 THEN -1 ELSE tx[w] + 1) \in -1 .. TxTime
    BY <1>1, StaleAssumption DEF Pass
  <2> QED
    BY <2>1 DEF Pass
<1>6. left' \in 1 .. CheckPeriod /\ ticked' \in BOOLEAN
  BY <1>1, StaleAssumption DEF Pass
<1>7. StaleTypeOK'
  BY <1>3, <1>4, <1>5, <1>6 DEF Pass, AgeInv, StaleTypeOK
<1>8. AgeKnown'
  <2> SUFFICES ASSUME NEW w \in Wallets
               PROVE  row'[w].age <= quiet'[w] + Slack
    BY DEF AgeKnown, Slack
  <2>1. row'[w].age = Older(row[w].age)
    BY <1>2 DEF Row
  <2> QED
    BY <1>2, <2>1
<1> QED
  BY <1>7, <1>8 DEF AgeInv

\* Every step keeps the invariant.
LEMMA AgeStep ==
    ASSUME AgeInv, [Next]_vars
    PROVE  AgeInv'
<1>1. CASE Pass
  BY <1>1, PassKeeps
<1>2. CASE Archive
  <2>1. row \in [Wallets -> Row]
    BY DEF AgeInv, StaleTypeOK
  <2>2. \A w \in Wallets : [row[w] EXCEPT !.state = "archived"] \in Row
    BY <2>1 DEF Row
  <2>3. row' \in [Wallets -> Row]
    BY <1>2, <2>1, <2>2 DEF Archive
  <2>4. \A w \in Wallets : row'[w].age = row[w].age
    BY <1>2, <2>1 DEF Archive, Row
  <2>5. StaleTypeOK'
    BY <1>2, <2>3 DEF Archive, AgeInv, StaleTypeOK
  <2>6. AgeKnown'
    BY <1>2, <2>4 DEF Archive, AgeInv, AgeKnown, Slack
  <2> QED
    BY <2>5, <2>6 DEF AgeInv
<1>3. ASSUME NEW w \in Wallets,
             Create(w) \/ Begin(w) \/ Move(w) \/ GiveUp(w) \/ Rename(w)
      PROVE  AgeInv'
  <2>1. /\ row[w] \in Row /\ tx \in [Wallets -> -1 .. TxTime]
        /\ changes \in 0 .. MaxChanges
        /\ Budget => changes' \in 0 .. MaxChanges
    BY StaleAssumption DEF AgeInv, StaleTypeOK, Budget
  <2>2. Slack \in Nat /\ TxTime \in Nat /\ Behind \in Nat /\ TxTime <= Slack
    BY StaleAssumption DEF Slack
  <2>3. CASE Create(w)
    <3>1. [row[w] EXCEPT !.state = "active"] \in Row
      BY <2>1 DEF Row
    <3> QED
      BY <2>1, <2>2, <2>3, <3>1, ChangedKeeps DEF Create
  <2>4. CASE Begin(w) \/ GiveUp(w)
    <3>1. UNCHANGED <<row, quiet, left, ticked>> /\ changes' \in 0 .. MaxChanges
      BY <2>1, <2>4 DEF Begin, GiveUp
    <3>2. tx' \in [Wallets -> -1 .. TxTime]
      BY <2>1, <2>2, <2>4 DEF Begin, GiveUp
    <3> QED
      BY <3>1, <3>2 DEF AgeInv, StaleTypeOK, AgeKnown, Slack
  <2>5. CASE Move(w)
    <3>1. PICK e \in BOOLEAN : Changed(w, [row[w] EXCEPT !.empty = e], tx[w])
      BY <2>5 DEF Move
    <3>2. [row[w] EXCEPT !.empty = e] \in Row
      BY <2>1 DEF Row
    <3>3. tx[w] \in 0 .. Slack
      BY <2>1, <2>2, <2>5 DEF Move
    <3>4. tx' \in [Wallets -> -1 .. TxTime] /\ changes' \in 0 .. MaxChanges
      BY <2>1, <2>2, <2>5 DEF Move
    <3> QED
      BY <3>1, <3>2, <3>3, <3>4, ChangedKeeps
  <2>6. CASE Rename(w)
    <3>1. PICK waited \in 0 .. TxTime : Changed(w, row[w], Behind + waited)
      BY <2>6 DEF Rename
    <3>2. Behind + waited \in 0 .. Slack
      BY <2>2 DEF Slack
    <3> QED
      BY <2>1, <2>6, <3>1, <3>2, ChangedKeeps DEF Rename
  <2> QED
    BY <1>3, <2>3, <2>4, <2>5, <2>6
<1>4. CASE UNCHANGED vars
  BY <1>4 DEF vars, AgeInv, StaleTypeOK, AgeKnown, Slack
<1> QED
  BY <1>1, <1>2, <1>3, <1>4 DEF Next

\* The state of the archiver and of the wallets is well typed.
THEOREM StaleTypeCorrect == Spec => []StaleTypeOK
<1>1. AgeInv => StaleTypeOK
  BY DEF AgeInv
<1> QED
  BY <1>1, AgeInitial, AgeStep, PTL DEF Spec

\* Whatever the period, the zones and the length of transactions: archiving
\* never takes a wallet that was changed later than the cut-off, but for the
\* error of updated_at.
THEOREM OnlyQuietArchived == Spec => QuietBeforeArchived
<1>1. ASSUME AgeInv, [Next]_vars, NEW w \in Wallets, IsArchived(w)
      PROVE  quiet[w] + Slack > CutOff
  <2>1. /\ row[w] \in Row /\ quiet[w] \in 0 .. Cap
        /\ row[w].age <= quiet[w] + Slack
        /\ row \in [Wallets -> Row]
    BY <1>1 DEF AgeInv, StaleTypeOK, AgeKnown
  <2>2. row[w].state = "active" /\ row'[w].state = "archived"
    BY <1>1 DEF IsArchived
  <2>3. Stale(row[w])
    <3>1. CASE Archive
      BY <2>1, <2>2, <3>1 DEF Archive
    <3>2. CASE Pass
      BY <2>1, <2>2, <3>2 DEF Pass, Row
    <3>3. ASSUME NEW v \in Wallets,
                 Create(v) \/ Begin(v) \/ Move(v) \/ GiveUp(v) \/ Rename(v)
          PROVE  FALSE
      <4>1. row[v] \in Row
        BY <2>1
      <4>2. row'[v].state = "active" \/ row'[v].state = row[v].state
        <5>1. CASE Begin(v) \/ GiveUp(v)
          BY <5>1 DEF Begin, GiveUp
        <5>2. ASSUME NEW r \in Row, NEW a, Changed(v, r, a),
                     r.state = "active" \/ r.state = row[v].state
              PROVE  row'[v].state = "active" \/ row'[v].state = row[v].state
          <6>1. row'[v] = [r EXCEPT !.age = a]
            BY <2>1, <5>2 DEF Changed
          <6>2. row'[v].state = r.state
            BY <6>1 DEF Row
          <6> QED
            BY <5>2, <6>2
        <5>3. CASE Create(v)
          <6>1. [row[v] EXCEPT !.state = "active"] \in Row
            BY <4>1 DEF Row
          <6>2. [row[v] EXCEPT !.state = "active"].state = "active"
            BY <4>1 DEF Row
          <6> QED
            BY <5>2, <5>3, <6>1, <6>2 DEF Create
        <5>4. CASE Move(v)
          <6>1. PICK e \in BOOLEAN : Changed(v, [row[v] EXCEPT !.empty = e], tx[v])
            BY <5>4 DEF Move
          <6>2. /\ [row[v] EXCEPT !.empty = e] \in Row
                /\ [row[v] EXCEPT !.empty = e].state = row[v].state
            BY <4>1 DEF Row
          <6> QED
            BY <5>2, <6>1, <6>2
        <5>5. CASE Rename(v)
          BY <4>1, <5>2, <5>5 DEF Rename
        <5> QED
          BY <3>3, <5>1, <5>3, <5>4, <5>5
      <4>3. v # w => row'[w] = row[w]
        BY <2>1, <3>3 DEF Create, Begin, Move, GiveUp, Rename, Changed
      <4> QED
        BY <2>2, <4>2, <4>3
    <3>4. CASE UNCHANGED vars
      BY <2>2, <3>4 DEF vars
    <3> QED
      BY <1>1, <3>1, <3>2, <3>3, <3>4 DEF Next
  <2>4. row[w].age \in Int /\ Slack \in Int
    BY <2>1, StaleAssumption DEF Row, Slack
  <2> QED
    BY <2>1, <2>3, <2>4, CutOffType DEF Stale
<1>2. AgeInv /\ [Next]_vars
        => [\A w \in Wallets : IsArchived(w) => quiet[w] + Slack > CutOff]_vars
  BY <1>1
<1> QED
  BY <1>2, AgeInitial, AgeStep, PTL DEF Spec, QuietBeforeArchived
=============================================================================
