----------------------------- MODULE BankProofs ------------------------------
(***************************************************************************)
(* WalletService implements Bank, for any wallets, users, requests, prices *)
(* and interleaving, as long as conversions are exact and no request runs  *)
(* beside one that exchanges a wallet: what comes of that is the run       *)
(* currency_race.  Under the same assumptions table transactions explains  *)
(* every balance (Ledger).  The sum over the table is a fold over a finite *)
(* set; what it yields is shown without an induction principle: of the     *)
(* finite sets that would contradict a lemma there is a least one (WFMin). *)
(***************************************************************************)
EXTENDS WalletAnswersProofs, BankRefinement, Ledger,
        FiniteSetTheorems, WellFoundedInduction

\* an update that may exchange the balance of a wallet, as one that keeps
\* the currency or names none with a rate does not
Revalues(b) ==
    /\ b.op = "update" /\ ~b.malformed
    /\ b.currency # "" /\ Upper[b.currency] \in DOMAIN Price

\* no request in flight beside one that exchanges a wallet
Orderly == Concurrency <= 1 \/ \A b \in Bodies : ~Revalues(b)

Divides(k, n) == \E m \in Int : n = k * m

\* The amounts asked for are worth the same after their conversion, and all
\* money is worth a whole number of units of every currency a wallet may be
\* exchanged to.
Exact ==
    /\ \A b \in Bodies : b.op \in MoneyOps =>
          \A d \in Spellings : HasRate(b.currency, d) =>
              Worth(d) * Convert(b.amount, GetRate(b.currency, d))
                  = Worth(b.currency) * b.amount
    /\ \A b \in Bodies : Revalues(b) =>
          /\ \A w \in Wallets : Divides(Worth(b.currency), Value(Seed[w]))
          /\ \A m \in Bodies : m.op \in MoneyOps =>
                Divides(Worth(b.currency), Worth(m.currency) * m.amount)

(***************************************************************************)
(* Accounts.                                                               *)
(***************************************************************************)
InUse(r) == r # Null /\ r.active

LEMMA WorthType == ASSUME NEW c \in Spellings PROVE Worth(c) \in Nat \ {0}
BY CurrencyAssumption DEF Worth

LEMMA NullIsNoRow == Null \notin Row /\ Null \notin Wallets
BY StoreAssumption, ServiceAssumption DEF Row

LEMMA AccountParts ==
    ASSUME NEW r
    PROVE  /\ AccountOf(r).worth = Value(r)
           /\ AccountOf(r).state = "open" <=> InUse(r)
           /\ AccountOf(r).state = "absent" <=> r = Null
BY DEF AccountOf, InUse

\* Two rows with the same worth and state have the same account.
LEMMA SameAccount ==
    ASSUME NEW r \in Row, NEW s \in Row, s.active = r.active,
           s.currency = r.currency, s.balance = r.balance
    PROVE  AccountOf(s) = AccountOf(r)
BY NullIsNoRow DEF AccountOf, Value

LEMMA Distributes ==
    ASSUME NEW k \in Int, NEW m \in Int, NEW n \in Int
    PROVE  k * (m + n) = k * m + k * n /\ k * (m - n) = k * m - k * n
OBVIOUS

LEMMA CreditedWorth ==
    ASSUME NEW r \in Row, NEW n \in Nat
    PROVE  /\ Credited(r, n) \in Row /\ Credited(r, n).active = r.active
           /\ Credited(r, n).currency = r.currency
           /\ Value(Credited(r, n)) = Value(r) + Worth(r.currency) * n
<1> DEFINE x == Credited(r, n)
           m == r.balance + n
<1>0. m \in Int /\ x = [r EXCEPT !.balance = m, !.stale = FALSE]
  BY DEF Credited, Row
<1>1. x \in Row /\ x.active = r.active /\ x.currency = r.currency
      /\ x.balance = r.balance + n
  <2> HIDE DEF x, m
  <2>1. x \in Row /\ x.active = r.active /\ x.currency = r.currency /\ x.balance = m
    BY <1>0 DEF Row
  <2> QED
    BY <2>1 DEF m
<1>2. r # Null /\ x # Null /\ r.balance \in Int /\ Worth(r.currency) \in Int
  BY <1>1, NullIsNoRow, WorthType DEF Row
<1> HIDE DEF x
<1>3. Value(x) = Worth(r.currency) * (r.balance + n)
  BY <1>1, <1>2 DEF Value
<1>4. Value(x) = Value(r) + Worth(r.currency) * n
  BY <1>2, <1>3, Distributes DEF Value
<1>5. x \in Row /\ x.active = r.active /\ x.currency = r.currency
  BY <1>1
<1> QED
  BY <1>4, <1>5 DEF x

LEMMA DebitedWorth ==
    ASSUME NEW r \in Row, NEW n \in Nat
    PROVE  /\ Debited(r, n) \in Row /\ Debited(r, n).active = r.active
           /\ Debited(r, n).currency = r.currency
           /\ Value(Debited(r, n)) = Value(r) - Worth(r.currency) * n
<1> DEFINE x == Debited(r, n)
           m == r.balance - n
<1>0. m \in Int /\ x = [r EXCEPT !.balance = m, !.stale = FALSE]
  BY DEF Debited, Row
<1>1. x \in Row /\ x.active = r.active /\ x.currency = r.currency
      /\ x.balance = r.balance - n
  <2> HIDE DEF x, m
  <2>1. x \in Row /\ x.active = r.active /\ x.currency = r.currency /\ x.balance = m
    BY <1>0 DEF Row
  <2> QED
    BY <2>1 DEF m
<1>2. r # Null /\ x # Null /\ r.balance \in Int /\ Worth(r.currency) \in Int
  BY <1>1, NullIsNoRow, WorthType DEF Row
<1> HIDE DEF x
<1>3. Value(x) = Worth(r.currency) * (r.balance - n)
  BY <1>1, <1>2 DEF Value
<1>4. Value(x) = Value(r) - Worth(r.currency) * n
  BY <1>2, <1>3, Distributes DEF Value
<1>5. x \in Row /\ x.active = r.active /\ x.currency = r.currency
  BY <1>1
<1> QED
  BY <1>4, <1>5 DEF x

LEMMA ValueType ==
    ASSUME NEW r \in Row \cup {Null}
    PROVE  Value(r) \in Int /\ (r # Null /\ Sound(r) => Value(r) \in Nat)
<1>1. CASE r = Null
  BY <1>1 DEF Value
<1>2. CASE r # Null
  <2>1. r.balance \in Int /\ Worth(r.currency) \in Nat
    BY <1>2, WorthType DEF Row
  <2>2. \A k \in Nat, n \in Int : k * n \in Int /\ (n >= 0 => k * n \in Nat)
    OBVIOUS
  <2> QED
    BY <1>2, <2>1, <2>2 DEF Value, Sound
<1> QED
  BY <1>1, <1>2

\* A rate pays out what is asked for.
LEMMA RatePays ==
    ASSUME Exact, NEW b \in Bodies, b.op \in MoneyOps, b.amount \in Nat,
           NEW c \in Spellings, NEW d \in Spellings, EqualFold(b.currency, c),
           NEW same \in BOOLEAN, same => EqualFold(c, d),
           same \/ HasRate(c, d)
    PROVE  /\ Worth(c) = Worth(b.currency)
           /\ Worth(d) * Convert(b.amount, RateFor(same, c, d))
                = Worth(b.currency) * b.amount
<1>1. Worth(c) = Worth(b.currency) /\ (same => Worth(d) = Worth(c))
  BY DEF Worth, EqualFold
<1>2. CASE same
  <2>1. Convert(b.amount, RateFor(same, c, d)) = b.amount
    <3>1. \A n \in Nat : (n * 1) \div 1 = n
      OBVIOUS
    <3> QED
      BY <1>2, <3>1 DEF RateFor, DefaultRate, Convert
  <2> QED
    BY <1>1, <1>2, <2>1
<1>3. CASE ~same
  <2>1. RateFor(same, c, d) = GetRate(b.currency, d)
    BY <1>1, <1>3 DEF RateFor, GetRate
  <2>2. HasRate(b.currency, d)
    BY <1>3 DEF HasRate, EqualFold
  <2> QED
    BY <1>1, <2>1, <2>2 DEF Exact
<1> QED
  BY <1>2, <1>3

(***************************************************************************)
(* What a request has done to the wallets it holds, and what it is about   *)
(* to do.                                                                  *)
(***************************************************************************)
\* what p asks to be moved
Sum(p) == Worth(call[p].currency) * call[p].amount

\* The wallets a request has in hand keep their state, and their currency
\* unless they are exchanged; those of a money request are in use.
HoldOK(p) ==
    \A w \in Wallets : lock[w] = p =>
        /\ AccountOf(rows[w]).state # "absent"
        /\ AccountOf(latest[w]).state = AccountOf(rows[w]).state
        /\ call[p].op \in MoneyOps => AccountOf(rows[w]).state = "open"
        /\ ~Revalues(call[p]) => EqualFold(latest[w].currency, rows[w].currency)

\* what p has moved to w so far
Moved(p, w) ==
    CASE call[p].op \notin MoneyOps -> 0
      [] call[p].op \in MoneyOps /\ pc[p] = "credit" ->
            IF call[p].from = w THEN 0 - Sum(p) ELSE 0
      [] OTHER -> Effect(call[p], w)

EffectOK(p) ==
    pc[p] \in {"credit", "publish", "commit"} =>
        \A w \in Wallets :
            IF lock[w] = p
            THEN AccountOf(latest[w]).worth = AccountOf(rows[w]).worth + Moved(p, w)
            ELSE Moved(p, w) = 0

\* at rate x the amount p asks for is worth what it asks for, in w
Pays(p, w, x) ==
    /\ rows[w] # Null
    /\ Worth(rows[w].currency) * Convert(call[p].amount, x) = Sum(p)

\* rate x exchanges the currency of w for the one p asks for
Exchanges(p, w, x) ==
    LET old == Worth(rows[w].currency)
        new == Worth(NewCurrency(p))
    IN  /\ rows[w] # Null
        /\ ~Revalues(call[p]) => EqualFold(NewCurrency(p), rows[w].currency)
        /\ \/ x = DefaultRate /\ new = old
           \/ x = [num |-> old, den |-> new]

Fits(p, x) ==
    /\ call[p].op \in {"deposit", "transfer"} => Pays(p, call[p].to, x)
    /\ call[p].op = "withdraw" => Pays(p, call[p].from, x)
    /\ call[p].op = "transfer" =>
          /\ rows[call[p].from] # Null
          /\ Worth(rows[call[p].from].currency) = Worth(call[p].currency)
    /\ call[p].op = "update" => Exchanges(p, call[p].wallet, x)

RateOK(p) == pc[p] \in {"write", "credit"} => Fits(p, rate[p])

\* it saw the currency the wallet has
Saw(view, w) == rows[w] # Null /\ EqualFold(view.currency, rows[w].currency)

SeenOK(p) ==
    /\ pc[p] \in {"readTo", "quote"} /\ call[p].op \in {"transfer", "withdraw"}
          => Saw(seen[p].first, call[p].from)
    /\ pc[p] = "quote" /\ call[p].op = "deposit" => Saw(seen[p].first, call[p].to)
    /\ pc[p] = "quote" /\ call[p].op = "transfer" => Saw(seen[p].second, call[p].to)
    /\ pc[p] = "quote" /\ call[p].op = "update" => Saw(seen[p].first, call[p].wallet)

BankOK(p) == HoldOK(p) /\ EffectOK(p) /\ RateOK(p) /\ SeenOK(p)

\* the archiver only takes empty wallets out of use
SweepOK ==
    \A w \in Wallets : lock[w] = Archiver =>
        LET a == AccountOf(rows[w]) IN
        /\ latest[w].currency = rows[w].currency
        /\ \/ AccountOf(latest[w]) = a
           \/ /\ a.state = "open" /\ a.worth = 0
              /\ AccountOf(latest[w]) = [a EXCEPT !.state = "closed"]

\* one request after the other, where that is the bound
Turns == Concurrency <= 1 => \A p, q \in Requests : Busy(p) /\ Busy(q) => p = q

BankInv == (\A p \in Requests : BankOK(p)) /\ SweepOK /\ Turns

\* What a wallet is worth can be had in every currency it may get.
UnitsOK ==
    \A b \in Bodies : Revalues(b) =>
        \A w \in Wallets : Divides(Worth(b.currency), Value(rows[w]))

\* A request that writes in a transaction moves money or is an update, and
\* names the wallets of its operation.
LEMMA Mover ==
    ASSUME IInv, NEW p \in Requests, Busy(p),
           pc[p] \in {"readTo", "quote", "write", "credit", "publish", "commit"}
    PROVE  /\ call[p] \in Bodies /\ call[p].op \in MoneyOps \cup {"update"}
           /\ call[p].op \in MoneyOps =>
                 /\ call[p].amount \in Nat /\ call[p].currency \in Spellings
                 /\ Sum(p) \in Nat
           /\ call[p].op = "deposit" => call[p].to \in Wallets /\ call[p].from = Null
           /\ call[p].op = "withdraw" => call[p].from \in Wallets /\ call[p].to = Null
           /\ call[p].op = "transfer" => call[p].to \in Wallets /\ call[p].from \in Wallets
           /\ call[p].op = "update" => call[p].wallet \in Wallets
           /\ pc[p] \in {"readTo", "credit"} => call[p].op = "transfer"
           /\ pc[p] = "publish" => call[p].op \in MoneyOps
<1>1. call[p] \in Bodies /\ pc[p] \in StagesOf(call[p].op)
  BY DEF IInv, StagesOK, Busy
<1>2. call[p].op \in MoneyOps \cup {"update"}
  BY <1>1, BodyShape DEF StagesOf, WalletOps
<1>3. call[p].op \in MoneyOps => ValidTransaction(call[p]) /\ call[p] \in MoneyBody
  BY <1>1, BodyShape DEF IInv, StagesOK
<1>4. call[p].op \in MoneyOps =>
         /\ call[p].amount \in Nat /\ call[p].currency \in Spellings
         /\ call[p].to \in Wallets \cup {Null} /\ call[p].from \in Wallets \cup {Null}
  BY <1>3 DEF MoneyBody, ValidTransaction
<1>5. call[p].op \in MoneyOps => Sum(p) \in Nat
  <2>1. call[p].op \in MoneyOps => Worth(call[p].currency) \in Nat
    BY <1>4, WorthType
  <2> QED
    BY <1>4, <2>1 DEF Sum
<1>6. /\ pc[p] \in {"readTo", "credit"} => call[p].op = "transfer"
      /\ pc[p] = "publish" => call[p].op \in MoneyOps
  BY <1>1, <1>2 DEF StagesOf, MoneyOps
<1>7. call[p].op = "update" => call[p].wallet \in Wallets
  BY <1>1, BodyShape DEF WalletBody, WalletOps
<1>8. /\ call[p].op = "deposit" => call[p].to \in Wallets /\ call[p].from = Null
      /\ call[p].op = "withdraw" => call[p].from \in Wallets /\ call[p].to = Null
      /\ call[p].op = "transfer" => call[p].to \in Wallets /\ call[p].from \in Wallets
  BY <1>3, <1>4 DEF ValidTransaction, MoneyOps
<1> QED
  BY <1>1, <1>2, <1>4, <1>5, <1>6, <1>7, <1>8

(***************************************************************************)
(* What a step leaves as it is.                                            *)
(***************************************************************************)
\* the wallets q holds, their state, worth and currency
Frozen(q) ==
    \A w \in Wallets :
        /\ lock'[w] = q <=> lock[w] = q
        /\ lock[w] = q => /\ AccountOf(rows'[w]) = AccountOf(rows[w])
                          /\ AccountOf(latest'[w]) = AccountOf(latest[w])
                          /\ rows'[w].currency = rows[w].currency
                          /\ latest'[w].currency = latest[w].currency

\* no wallet goes, and none is exchanged
CurrenciesKept ==
    \A w \in Wallets : rows[w] # Null =>
        rows'[w] # Null /\ EqualFold(rows'[w].currency, rows[w].currency)

\* Of a request that has not read or is done nothing needs to be known.
LEMMA Uninvolved ==
    ASSUME IInv', NEW q \in Requests,
           pc'[q] \notin {"readTo", "quote", "write", "credit", "publish", "commit"}
    PROVE  BankOK(q)'
BY DEF IInv, BankOK, HoldOK, EffectOK, RateOK, SeenOK, WritersHoldTheirRows

\* A request that does not move keeps what is known of it while its wallets
\* are frozen and the others keep their currency.
LEMMA HolderKeeps ==
    ASSUME IInv, CurrenciesKept, NEW q \in Requests, BankOK(q), Frozen(q),
           pc'[q] = pc[q], call'[q] = call[q], rate'[q] = rate[q], seen'[q] = seen[q]
    PROVE  BankOK(q)'
<1>1. HoldOK(q)'
  BY DEF BankOK, HoldOK, Frozen, Revalues, EqualFold
<1>2. ASSUME NEW w \in Wallets
      PROVE  Moved(q, w)' = Moved(q, w)
  BY DEF Moved, Sum, Effect
<1>3. EffectOK(q)'
  BY <1>2 DEF BankOK, EffectOK, Frozen
<1>4. ASSUME NEW w \in Wallets, rows[w] # Null
      PROVE  /\ rows'[w] # Null /\ EqualFold(rows'[w].currency, rows[w].currency)
             /\ Worth(rows'[w].currency) = Worth(rows[w].currency)
  BY <1>4 DEF CurrenciesKept, EqualFold, Worth
<1>5. RateOK(q)'
  <2> SUFFICES ASSUME pc[q] \in {"write", "credit"} PROVE Fits(q, rate[q])'
    BY DEF RateOK
  <2>1. ASSUME NEW w \in Wallets, Pays(q, w, rate[q]) PROVE Pays(q, w, rate[q])'
    BY <1>4, <2>1 DEF Pays, Sum
  <2>2. ASSUME NEW w \in Wallets, Exchanges(q, w, rate[q])
        PROVE  Exchanges(q, w, rate[q])'
    <3>1. NewCurrency(q)' = NewCurrency(q) /\ (Revalues(call[q])' <=> Revalues(call[q]))
      BY DEF NewCurrency, Revalues
    <3>2. rows[w] # Null
      BY <2>2 DEF Exchanges
    <3> QED
      BY <1>4, <2>2, <3>1, <3>2 DEF Exchanges, EqualFold
  <2>3. Busy(q)
    BY DEF Busy
  <2>4. Fits(q, rate[q])
    BY DEF BankOK, RateOK
  <2> QED
    BY <1>4, <2>1, <2>2, <2>3, <2>4, Mover DEF Fits
<1>6. SeenOK(q)'
  <2> SUFFICES ASSUME pc[q] \in {"readTo", "quote"} PROVE SeenOK(q)'
    BY DEF SeenOK
  <2>1. ASSUME NEW w \in Wallets, NEW v, Saw(v, w) PROVE rows'[w] # Null /\ EqualFold(v.currency, rows'[w].currency)
    BY <1>4, <2>1 DEF Saw, EqualFold
  <2>2. Busy(q)
    BY DEF Busy
  <2> QED
    BY <2>1, <2>2, Mover DEF BankOK, SeenOK, Saw
<1> QED
  BY <1>1, <1>3, <1>5, <1>6 DEF BankOK

\* So does the archiver.
LEMMA SweepKeeps ==
    ASSUME SweepOK, Frozen(Archiver)
    PROVE  SweepOK'
BY DEF SweepOK, Frozen

\* Steps that leave rows, versions and locks alone freeze everything.
LEMMA UntouchedFrozen ==
    ASSUME UNCHANGED <<rows, latest, lock>>, NEW q
    PROVE  Frozen(q)
BY DEF Frozen

\* A COMMIT or ROLLBACK of p freezes what others hold.
LEMMA EndFrozen ==
    ASSUME NEW p \in Procs, NEW q \in Procs, p # q, Install(p) \/ Discard(p)
    PROVE  Frozen(q)
BY StoreAssumption DEF Frozen, Install, Discard, Visible, Release, Procs

\* So does an UPDATE of p, which has waited for the row.
LEMMA WriteFrozen ==
    ASSUME IInv, NEW p \in Procs, NEW q \in Procs, p # q, NEW w \in Wallets, NEW r,
           Write(p, w, r), lock[w] \in {Free, p}, UNCHANGED rows
    PROVE  Frozen(q)
<1>1. q # Free
  BY StoreAssumption DEF Procs
<1> QED
  BY <1>1 DEF Frozen, Write, IInv, TypeOK, StoreTypeOK

\* Time changes the worth of nothing.
LEMMA AgeFrozen ==
    ASSUME IInv, Age, NEW q
    PROVE  /\ Frozen(q) /\ CurrenciesKept
           /\ \A w \in Wallets : AccountOf(rows'[w]) = AccountOf(rows[w])
<1> DEFINE Aged(r) == IF r = Null THEN Null ELSE [r EXCEPT !.stale = TRUE]
<1>1. ASSUME NEW r \in Row \cup {Null}
      PROVE  AccountOf(Aged(r)) = AccountOf(r) /\ Aged(r).currency = r.currency
  <2>1. CASE r = Null
    BY <2>1
  <2>2. CASE r # Null
    <3>1. Aged(r) = [r EXCEPT !.stale = TRUE] /\ r \in Row
      BY <2>2
    <3> HIDE DEF Aged
    <3>2. /\ Aged(r) \in Row /\ Aged(r).active = r.active
          /\ Aged(r).currency = r.currency /\ Aged(r).balance = r.balance
      BY <3>1 DEF Row
    <3> QED
      BY <3>1, <3>2, SameAccount
  <2> QED
    BY <2>1, <2>2
<1>2. /\ rows \in [Wallets -> Row \cup {Null}]
      /\ latest \in [Wallets -> Row \cup {Null}]
  BY DEF IInv, TypeOK, StoreTypeOK
<1>3. ASSUME NEW w \in Wallets
      PROVE  /\ rows'[w] = Aged(rows[w]) /\ latest'[w] = Aged(latest[w])
             /\ lock' = lock
  BY DEF Age
<1>4. \A r \in Row : Aged(r) # Null
  <2>1. \A r \in Row : Aged(r) \in Row
    BY DEF Row
  <2> QED
    BY <2>1, NullIsNoRow
<1> HIDE DEF Aged
<1>5. CurrenciesKept
  BY <1>1, <1>2, <1>3, <1>4 DEF CurrenciesKept, EqualFold
<1> QED
  BY <1>1, <1>2, <1>3, <1>5 DEF Frozen

(***************************************************************************)
(* Every step keeps BankInv.                                               *)
(***************************************************************************)
\* only p goes on
Alone(p) ==
    \A q \in Requests \ {p} :
        pc'[q] = pc[q] /\ call'[q] = call[q] /\ rate'[q] = rate[q] /\ seen'[q] = seen[q]

\* A request at work does not begin: it is still the only one if it was.
LEMMA TurnsKeep ==
    ASSUME Turns, NEW p \in Requests, Busy(p), Alone(p)
    PROVE  Turns'
<1>1. \A q \in Requests : Busy(q)' => Busy(q)
  BY DEF Busy, Alone
<1> QED
  BY <1>1 DEF Turns

\* A step of a request: beside one that exchanges a wallet there is no other.
LEMMA TurnKeeps ==
    ASSUME IInv, IInv', Orderly, BankInv, NEW p \in Requests, Busy(p), Alone(p),
           CurrenciesKept \/ Revalues(call[p]),
           \A q \in Procs \ {p} : Frozen(q), BankOK(p)'
    PROVE  BankInv'
<1>1. ASSUME NEW q \in Requests \ {p}
      PROVE  BankOK(q)'
  <2>1. CASE CurrenciesKept
    <3>1. q \in Procs \ {p}
      BY DEF Procs
    <3> QED
      BY <2>1, <3>1, HolderKeeps DEF BankInv, Alone
  <2>2. CASE Revalues(call[p])
    <3>1. call[p] \in Bodies
      BY DEF IInv, StagesOK, Busy
    <3>2. Concurrency <= 1
      BY <2>2, <3>1 DEF Orderly
    <3>3. pc'[q] \in {"idle", "done"}
      BY <3>2 DEF BankInv, Turns, Alone, Busy
    <3> QED
      BY <3>3, Uninvolved
  <2> QED
    BY <2>1, <2>2
<1>2. SweepOK'
  <2>1. Archiver \in Procs \ {p}
    BY StoreAssumption DEF Procs
  <2> QED
    BY <2>1, SweepKeeps DEF BankInv
<1> QED
  BY <1>1, <1>2, TurnsKeep DEF BankInv

LEMMA AbortBank ==
    ASSUME IInv, IInv', Orderly, BankInv, NEW p \in Requests, Busy(p),
           NEW e, Abort(p, e)
    PROVE  BankInv'
<1>1. pc'[p] = "done" /\ Alone(p) /\ UNCHANGED rows
  BY DEF Abort, Finish, Discard, Alone, IInv, TypeOK
<1>2. BankOK(p)'
  BY <1>1, Uninvolved
<1>3. \A q \in Procs \ {p} : Frozen(q)
  BY EndFrozen DEF Abort, Procs
<1>4. CurrenciesKept
  BY <1>1 DEF CurrenciesKept, EqualFold
<1> QED
  BY <1>1, <1>2, <1>3, <1>4, TurnKeeps

LEMMA CommitBank ==
    ASSUME IInv, IInv', Orderly, BankInv, NEW p \in Requests, NEW ack, Commit(p, ack)
    PROVE  BankInv'
<1>1. pc'[p] = "done" /\ Alone(p) /\ Busy(p)
  BY DEF Commit, Finish, Alone, Busy, IInv, TypeOK
<1>2. BankOK(p)'
  BY <1>1, Uninvolved
<1>3. \A q \in Procs \ {p} : Frozen(q)
  BY EndFrozen DEF Commit, Procs
<1>4. CASE ~Revalues(call[p])
  <2>1. ASSUME NEW w \in Wallets, rows[w] # Null
        PROVE  rows'[w] # Null /\ EqualFold(rows'[w].currency, rows[w].currency)
    <3>1. rows'[w] = Visible(p, w) /\ HoldOK(p)
      BY DEF Commit, Install, BankInv, BankOK
    <3> QED
      BY <1>4, <2>1, <3>1, AccountParts DEF HoldOK, Visible, EqualFold
  <2> QED
    BY <1>1, <1>2, <1>3, <2>1, TurnKeeps DEF CurrenciesKept
<1>5. CASE Revalues(call[p])
  BY <1>1, <1>2, <1>3, <1>5, TurnKeeps
<1> QED
  BY <1>4, <1>5

\* A statement on the pool: nobody holds the row it writes.
LEMMA PoolBank ==
    ASSUME IInv, IInv', Orderly, BankInv, NEW p \in Requests, Busy(p), Alone(p),
           pc'[p] \in {"verify", "done"}, UNCHANGED lock, CurrenciesKept,
           \/ UNCHANGED <<rows, latest>>
           \/ \E w \in Wallets : \E r : WriteThrough(w, r) /\ \A q \in Requests : lock[w] # q
    PROVE  BankInv'
<1>1. BankOK(p)'
  BY Uninvolved
<1>2. CASE UNCHANGED <<rows, latest>>
  <2>1. \A q \in Procs \ {p} : Frozen(q)
    BY <1>2, UntouchedFrozen
  <2> QED
    BY <1>1, <2>1, TurnKeeps
<1>3. ASSUME NEW w \in Wallets, NEW r, WriteThrough(w, r), \A q \in Requests : lock[w] # q
      PROVE  BankInv'
  <2>1. /\ rows' = [rows EXCEPT ![w] = r] /\ latest' = [latest EXCEPT ![w] = r]
        /\ rows \in [Wallets -> Row \cup {Null}]
        /\ latest \in [Wallets -> Row \cup {Null}]
    BY <1>3 DEF WriteThrough, IInv, TypeOK, StoreTypeOK
  <2>2. ASSUME NEW q \in Requests
        PROVE  Frozen(q)
    BY <1>3, <2>1 DEF Frozen
  <2>3. \A q \in Requests : BankOK(q)'
    BY <1>1, <2>2, HolderKeeps DEF BankInv, Alone
  <2>4. SweepOK'
    BY <2>1 DEF SweepOK, BankInv
  <2> QED
    BY <2>3, <2>4, TurnsKeep DEF BankInv
<1> QED
  BY <1>2, <1>3

\* An INSERT finds no row, a deletion one whose lock is free.
LEMMA InsertBank ==
    ASSUME IInv, IInv', Orderly, BankInv, NEW p \in Requests, NEW ack, Insert(p, ack)
    PROVE  BankInv'
<1> DEFINE w == call[p].wallet
<1>1. pc'[p] \in {"verify", "done"} /\ Busy(p) /\ Alone(p) /\ UNCHANGED lock
  BY DEF Insert, Finish, Goto, Alone, Busy, IInv, TypeOK
<1>2. w \in Wallets
  <2>1. call[p] \in Bodies /\ call[p].op = "create"
    BY BodyShape DEF Insert, IInv, StagesOK, StagesOf, Busy, MoneyOps, WalletOps
  <2> QED
    BY <2>1, BodyShape DEF WalletBody, WalletOps
<1>3. rows[w] = Null => \A q \in Requests : lock[w] # q
  BY <1>2 DEF BankInv, BankOK, HoldOK, AccountOf
<1>4. CurrenciesKept
  <2>1. CASE rows' = rows
    BY <2>1 DEF CurrenciesKept, EqualFold
  <2>2. ASSUME NEW r, rows[w] = Null, rows' = [rows EXCEPT ![w] = r]
        PROVE  CurrenciesKept
    <3>1. \A v \in Wallets : rows[v] # Null => rows'[v] = rows[v]
      BY <2>2
    <3> QED
      BY <3>1 DEF CurrenciesKept, EqualFold
  <2> QED
    BY <2>1, <2>2 DEF Insert, WriteThrough
<1> QED
  BY <1>1, <1>2, <1>3, <1>4, PoolBank DEF Insert

LEMMA RemoveBank ==
    ASSUME IInv, IInv', Orderly, BankInv, NEW p \in Requests, NEW ack, Remove(p, ack)
    PROVE  BankInv'
<1> DEFINE w == Target(p)
<1>1. pc'[p] = "done" /\ Busy(p) /\ Alone(p) /\ UNCHANGED lock
  BY DEF Remove, Finish, Alone, Busy, IInv, TypeOK
<1>2. w \in Wallets
  BY TargetType DEF Remove, IInv
<1>3. Hits(p) => \A q \in Requests : lock[w] # q
  <2>1. Hits(p) => lock[w] \in {Free, p}
    BY DEF Remove, Waits
  <2>2. lock[w] # p
    BY <1>2 DEF Remove, IInv, WritersHoldTheirRows
  <2> QED
    BY <2>1, <2>2, StoreAssumption
<1>4. CurrenciesKept
  <2>1. CASE rows' = rows
    BY <2>1 DEF CurrenciesKept, EqualFold
  <2>2. CASE rows' = [rows EXCEPT ![w] = Removed(rows[w])]
    <3>1. rows \in [Wallets -> Row \cup {Null}]
      BY DEF IInv, TypeOK, StoreTypeOK
    <3>2. \A r \in Row : Removed(r) # Null /\ Removed(r).currency = r.currency
      <4>1. \A r \in Row : Removed(r) \in Row /\ Removed(r).currency = r.currency
        BY DEF Removed, Row
      <4> QED
        BY <4>1, NullIsNoRow
    <3> HIDE DEF w
    <3>3. ASSUME NEW v \in Wallets, rows[v] # Null
          PROVE  rows'[v] # Null /\ rows'[v].currency = rows[v].currency
      <4>1. CASE v = w
        BY <2>2, <3>1, <3>2, <3>3, <4>1
      <4>2. CASE v # w
        BY <2>2, <3>3, <4>2
      <4> QED
        BY <4>1, <4>2
    <3> QED
      BY <3>3 DEF CurrenciesKept, EqualFold
  <2> QED
    BY <2>1, <2>2 DEF Remove, WriteThrough
<1> QED
  BY <1>1, <1>2, <1>3, <1>4, PoolBank DEF Remove

\* A step that writes nothing and leads to a place where nothing is known.
LEMMA QuietBank ==
    ASSUME IInv, IInv', Orderly, BankInv, NEW p \in Requests, Busy(p), Alone(p),
           UNCHANGED <<rows, latest, lock>>,
           pc'[p] \notin {"readTo", "quote", "write", "credit", "publish", "commit"}
    PROVE  BankInv'
<1>1. BankOK(p)'
  BY Uninvolved
<1>2. \A q \in Procs \ {p} : Frozen(q)
  BY UntouchedFrozen
<1> QED
  BY <1>1, <1>2, TurnKeeps DEF CurrenciesKept, EqualFold

\* A request comes when there is room for it.
LEMMA ReceiveBank ==
    ASSUME IInv, IInv', BankInv, NEW p \in Requests, Receive(p)
    PROVE  BankInv'
<1>1. /\ pc'[p] \in {"insert", "read", "done"} /\ Alone(p)
      /\ UNCHANGED <<rows, latest, lock>>
  BY DEF Receive, Goto, Alone, IInv, TypeOK
<1>2. CurrenciesKept
  BY <1>1 DEF CurrenciesKept, EqualFold
<1>3. ASSUME NEW q \in Requests
      PROVE  BankOK(q)'
  <2>1. CASE q = p
    BY <1>1, <2>1, Uninvolved
  <2>2. CASE q # p
    BY <1>1, <1>2, <2>2, UntouchedFrozen, HolderKeeps DEF BankInv, Alone
  <2> QED
    BY <2>1, <2>2
<1>4. SweepOK'
  BY <1>1, UntouchedFrozen, SweepKeeps DEF BankInv
<1>5. Turns'
  <2> SUFFICES ASSUME Concurrency <= 1
               PROVE  \A q \in Requests \ {p} : ~Busy(q)'
    BY DEF Turns
  <2>1. Cardinality(InFlight) < Concurrency
    BY DEF Receive
  <2>2. ASSUME NEW q \in Requests, Busy(q)
        PROVE  FALSE
    <3>1. InFlight = {q}
      BY <2>2 DEF InFlight, BankInv, Turns
    <3>2. Cardinality(InFlight) = 1
      BY <3>1, FS_Singleton
    <3>3. Concurrency \in Nat /\ 1 < Concurrency
      BY <2>1, <3>2, ServiceAssumption
    <3> QED
      BY <3>3
  <2>3. ASSUME NEW q \in Requests \ {p}
        PROVE  ~Busy(q)'
    <3>1. pc'[q] = pc[q]
      BY <1>1 DEF Alone
    <3>2. ~Busy(q)
      BY <2>2
    <3> QED
      BY <3>1, <3>2 DEF Busy
  <2> QED
    BY <2>3
<1> QED
  BY <1>3, <1>4, <1>5 DEF BankInv

\* The reads: what is seen is the committed row.
LEMMA ReadBank ==
    ASSUME IInv, IInv', Orderly, BankInv,
           NEW p \in Requests, ReadWallet(p) \/ ReadTarget(p)
    PROVE  BankInv'
<1> DEFINE w == Target(p)
<1>1. Busy(p) /\ w \in Wallets /\ pc[p] \in {"read", "readTo"} /\ call[p] \in Bodies
  BY TargetType DEF ReadWallet, ReadTarget, Busy, IInv, StagesOK
<1>2. CASE \E e : Abort(p, e)
  BY <1>1, <1>2, AbortBank
<1>3. ASSUME Hits(p), NEW s, Goto(p, s),
             \/ pc[p] = "read" /\ s = AfterRead(p)
                /\ seen' = [seen EXCEPT ![p].first = View(rows[w])]
             \/ pc[p] = "readTo" /\ s = "quote"
                /\ seen' = [seen EXCEPT ![p].second = View(rows[w])],
             UNCHANGED <<rows, latest, lock, call, rate>>
      PROVE  BankInv'
  <2>1. rows[w] # Null /\ View(rows[w]).currency = rows[w].currency
    BY <1>1, <1>3, ReadsCommitted, VisibleSound, MatchesLive DEF IInv, Hits, View
  <2>2. Saw(View(rows[w]), w) /\ CurrenciesKept
    BY <1>3, <2>1 DEF Saw, EqualFold, CurrenciesKept
  <2>3. pc'[p] = s /\ Alone(p) /\ seen \in [Requests -> [first : Views, second : Views]]
    BY <1>3 DEF Goto, Alone, IInv, TypeOK
  <2>4. CASE s = "remove"
    BY <1>1, <1>3, <2>3, <2>4, QuietBank
  <2>5. CASE s # "remove"
    <3>1. s \in {"readTo", "quote"}
      BY <1>3, <2>5 DEF AfterRead
    <3>2. /\ call[p].op \in MoneyOps \cup {"update"}
          /\ pc[p] = "readTo" => call[p].op = "transfer"
          /\ s = "readTo" => call[p].op = "transfer"
      BY <1>1, <1>3, <2>5, BodyShape, Mover
         DEF AfterRead, MoneyOps, WalletOps, IInv, StagesOK, StagesOf
    <3>3. HoldOK(p)' /\ EffectOK(p)' /\ RateOK(p)'
      BY <2>3, <3>1 DEF IInv, HoldOK, EffectOK, RateOK, WritersHoldTheirRows
    <3>4. CASE pc[p] = "read"
      <4>1. seen'[p].first = View(rows[w]) /\ s = AfterRead(p)
        BY <1>3, <2>3, <3>4
      <4>2. w = CASE call[p].op = "deposit" -> call[p].to
                   [] call[p].op = "update" -> call[p].wallet
                   [] OTHER -> call[p].from
        BY <3>2, <3>4 DEF Target, MoneyOps, WalletOps
      <4>3. SeenOK(p)'
        BY <1>3, <2>2, <2>3, <3>2, <4>1, <4>2 DEF SeenOK, Saw, AfterRead, MoneyOps
      <4> QED
        BY <1>1, <1>3, <2>2, <2>3, <3>3, <4>3, UntouchedFrozen, TurnKeeps DEF BankOK
    <3>5. CASE pc[p] = "readTo"
      <4>1. /\ seen'[p].second = View(rows[w]) /\ seen'[p].first = seen[p].first
            /\ s = "quote"
        BY <1>3, <2>3, <3>5
      <4>2. w = call[p].to
        BY <3>2, <3>5 DEF Target, WalletOps
      <4>3. SeenOK(p)
        BY DEF BankInv, BankOK
      <4>4. SeenOK(p)'
        BY <1>3, <2>2, <2>3, <3>2, <3>5, <4>1, <4>2, <4>3 DEF SeenOK, Saw
      <4> QED
        BY <1>1, <1>3, <2>2, <2>3, <3>3, <4>4, UntouchedFrozen, TurnKeeps DEF BankOK
    <3> QED
      BY <1>1, <3>4, <3>5
  <2> QED
    BY <2>4, <2>5
<1> QED
  BY <1>1, <1>2, <1>3 DEF ReadWallet, ReadTarget

\* The decision: the rate fits.
LEMMA QuoteBank ==
    ASSUME IInv, IInv', Orderly, BankInv, NEW p \in Requests,
           pc[p] = "quote", NEW same, NEW c, NEW d, NEW enough,
           Quote(p, same, c, d, enough),
           same \/ HasRate(c, d) => Fits(p, RateFor(same, c, d))
    PROVE  BankInv'
<1>1. Busy(p)
  BY DEF Busy
<1>2. CASE \E e : Abort(p, e)
  BY <1>1, <1>2, AbortBank
<1>3. CASE /\ same \/ HasRate(c, d)
           /\ rate' = [rate EXCEPT ![p] = RateFor(same, c, d)]
           /\ Goto(p, "write")
           /\ UNCHANGED <<rows, latest, lock, transactions, call, seen, applied, arch>>
  <2>1. pc'[p] = "write" /\ rate'[p] = RateFor(same, c, d) /\ Alone(p)
    BY <1>3 DEF Goto, Alone, IInv, TypeOK
  <2>2. HoldOK(p)' /\ EffectOK(p)' /\ SeenOK(p)'
    BY <2>1 DEF IInv, HoldOK, EffectOK, SeenOK, WritersHoldTheirRows
  <2>3. RateOK(p)'
    <3> DEFINE x == RateFor(same, c, d)
    <3>1. Fits(p, x) /\ rate'[p] = x /\ UNCHANGED <<rows, call, seen>>
      BY <1>3, <2>1
    <3> HIDE DEF x
    <3>2. Fits(p, rate[p])'
      BY <3>1 DEF Fits, Pays, Exchanges, Sum, Revalues, NewCurrency
    <3> QED
      BY <3>2 DEF RateOK
  <2>4. CurrenciesKept
    BY <1>3 DEF CurrenciesKept, EqualFold
  <2> QED
    BY <1>1, <1>3, <2>1, <2>2, <2>3, <2>4, UntouchedFrozen, TurnKeeps DEF BankOK
<1> QED
  BY <1>2, <1>3 DEF Quote

\* An update exchanges at the rate between what it saw and what it asks for.
LEMMA QuoteUpdateFits ==
    ASSUME IInv, AnswersInv, BankInv, NEW p \in Requests,
           pc[p] = "quote", call[p].op = "update",
           NEW old, old = seen[p].first.currency, NEW new, new = NewCurrency(p),
           NEW same, same <=> old = Upper[new], same \/ HasRate(old, new)
    PROVE  Fits(p, RateFor(same, old, new))
<1> DEFINE b == call[p]
           w == b.wallet
<1>1. /\ Busy(p) /\ b \in Bodies /\ w \in Wallets /\ b.currency \in Spellings
      /\ ~b.malformed
  <2>1. Busy(p) /\ b \in Bodies /\ w \in Wallets
    BY Mover DEF Busy
  <2>2. AnswerOK(p)
    BY DEF AnswersInv, RequestOK
  <2> QED
    BY <2>1, <2>2, BodyShape DEF AnswerOK
<1>2. old \in Spellings /\ new \in Spellings
  BY <1>1 DEF IInv, TypeOK, Views, NewCurrency
<1>3. rows[w] # Null /\ EqualFold(old, rows[w].currency)
  BY DEF BankInv, BankOK, SeenOK, Saw
<1>4. same => EqualFold(new, old)
  BY <1>2, CurrencyAssumption DEF EqualFold
<1>5. ~Revalues(b) => EqualFold(new, rows[w].currency)
  <2>1. CASE b.currency = ""
    BY <1>3, <2>1 DEF NewCurrency
  <2>2. CASE b.currency # "" /\ Upper[b.currency] \notin DOMAIN Price
    <3>1. same
      BY <2>2 DEF HasRate, NewCurrency
    <3> QED
      BY <1>3, <1>4, <3>1 DEF EqualFold
  <2> QED
    BY <1>1, <2>1, <2>2 DEF Revalues
<1>6. Worth(rows[w].currency) = Worth(old) /\ (same => Worth(new) = Worth(old))
  BY <1>3, <1>4 DEF EqualFold, Worth
<1>7. Exchanges(p, w, RateFor(same, old, new))
  BY <1>3, <1>5, <1>6 DEF Exchanges, RateFor, GetRate
<1> QED
  BY <1>7 DEF Fits

LEMMA QuotesBank ==
    ASSUME IInv, IInv', AnswersInv, Orderly, Exact, BankInv, NEW p \in Requests,
           \/ QuoteUpdate(p) \/ QuoteDeposit(p)
           \/ QuoteWithdraw(p) \/ QuoteTransfer(p)
    PROVE  BankInv'
<1> DEFINE b == call[p]
           c == b.currency
           d == seen[p].first.currency
           e == seen[p].second.currency
<1>1. pc[p] = "quote" /\ Busy(p)
  BY DEF QuoteUpdate, QuoteDeposit, QuoteWithdraw, QuoteTransfer, Busy
<1>2. /\ b \in Bodies /\ c \in Spellings
      /\ b.op \in MoneyOps => b.amount \in Nat
  BY <1>1, Mover, BodyShape
<1>3. d \in Spellings /\ e \in Spellings
  BY DEF IInv, TypeOK, Views
<1>4. SeenOK(p)
  BY DEF BankInv, BankOK
<1>5. CASE QuoteDeposit(p)
  <2>1. b.op = "deposit" /\ b.to \in Wallets /\ Saw(seen[p].first, b.to) /\ b.amount \in Nat
    BY <1>1, <1>2, <1>4, <1>5, Mover DEF QuoteDeposit, SeenOK, MoneyOps
  <2>2. rows[b.to] # Null /\ Worth(rows[b.to].currency) = Worth(d)
    BY <2>1 DEF Saw, EqualFold, Worth
  <2>3. EqualFold(c, d) \/ HasRate(c, d) =>
           Worth(d) * Convert(b.amount, RateFor(EqualFold(c, d), c, d)) = Sum(p)
    BY <1>2, <1>3, <2>1, RatePays DEF Sum, EqualFold, MoneyOps
  <2>4. PICK enough : Quote(p, EqualFold(c, d), c, d, enough)
    BY <1>5 DEF QuoteDeposit
  <2>5. EqualFold(c, d) \/ HasRate(c, d) => Fits(p, RateFor(EqualFold(c, d), c, d))
    BY <2>1, <2>2, <2>3 DEF Fits, Pays
  <2> HIDE DEF c, d, e
  <2> QED
    BY <1>1, <2>4, <2>5, QuoteBank
<1>6. CASE QuoteWithdraw(p)
  <2>1. b.op = "withdraw" /\ b.from \in Wallets /\ Saw(seen[p].first, b.from) /\ b.amount \in Nat
    BY <1>1, <1>2, <1>4, <1>6, Mover DEF QuoteWithdraw, SeenOK, MoneyOps
  <2>2. rows[b.from] # Null /\ Worth(rows[b.from].currency) = Worth(d)
    BY <2>1 DEF Saw, EqualFold, Worth
  <2>3. EqualFold(c, d) \/ HasRate(c, d) =>
           Worth(d) * Convert(b.amount, RateFor(EqualFold(c, d), c, d)) = Sum(p)
    BY <1>2, <1>3, <2>1, RatePays DEF Sum, EqualFold, MoneyOps
  <2>4. PICK enough : Quote(p, EqualFold(c, d), c, d, enough)
    BY <1>6 DEF QuoteWithdraw
  <2>5. EqualFold(c, d) \/ HasRate(c, d) => Fits(p, RateFor(EqualFold(c, d), c, d))
    BY <2>1, <2>2, <2>3 DEF Fits, Pays
  <2> HIDE DEF c, d, e
  <2> QED
    BY <1>1, <2>4, <2>5, QuoteBank
<1>7. CASE QuoteTransfer(p)
  <2>1. /\ b.op = "transfer" /\ b.from \in Wallets /\ b.to \in Wallets
        /\ Saw(seen[p].first, b.from) /\ Saw(seen[p].second, b.to) /\ b.amount \in Nat
    BY <1>1, <1>2, <1>4, <1>7, Mover DEF QuoteTransfer, SeenOK, MoneyOps
  <2>2. /\ rows[b.from] # Null /\ Worth(rows[b.from].currency) = Worth(d)
        /\ rows[b.to] # Null /\ Worth(rows[b.to].currency) = Worth(e)
    BY <2>1 DEF Saw, EqualFold, Worth
  <2>3. CASE Abort(p, "wrongCurrency")
    BY <1>1, <2>3, AbortBank
  <2>4. ASSUME EqualFold(c, d), NEW enough, Quote(p, d = e, d, e, enough)
        PROVE  BankInv'
    <3>1. /\ Worth(d) = Worth(c)
          /\ d = e \/ HasRate(d, e) =>
               Worth(e) * Convert(b.amount, RateFor(d = e, d, e)) = Sum(p)
      <4>1. Worth(d) = Worth(c)
        BY <2>4 DEF EqualFold, Worth
      <4>2. (d = e) \in BOOLEAN /\ (d = e => EqualFold(d, e)) /\ b.op \in MoneyOps
        BY <2>1 DEF EqualFold, MoneyOps
      <4> HIDE DEF c, d, e
      <4>3. d = e \/ HasRate(d, e) =>
               Worth(e) * Convert(b.amount, RateFor(d = e, d, e)) = Worth(c) * b.amount
        BY <1>2, <1>3, <2>1, <2>4, <4>2, RatePays DEF c
      <4> QED
        BY <4>1, <4>3 DEF Sum, c
    <3> DEFINE same == d = e
    <3>2. /\ same \/ HasRate(d, e) => Fits(p, RateFor(same, d, e))
          /\ Quote(p, same, d, e, enough)
      BY <2>1, <2>2, <2>4, <3>1 DEF Fits, Pays
    <3> HIDE DEF c, d, e, same
    <3> QED
      BY <1>1, <3>2, QuoteBank
  <2> QED
    BY <1>7, <2>3, <2>4 DEF QuoteTransfer
<1>8. CASE QuoteUpdate(p)
  <2> DEFINE new == NewCurrency(p)
             same == d = Upper[new]
  <2>1. b.op = "update" /\ Quote(p, same, d, new, TRUE)
    BY <1>8 DEF QuoteUpdate
  <2>2. same \/ HasRate(d, new) => Fits(p, RateFor(same, d, new))
    <3>1. d = seen[p].first.currency /\ new = NewCurrency(p) /\ (same <=> d = Upper[new])
      OBVIOUS
    <3> HIDE DEF d, new, same
    <3> QED
      BY <1>1, <2>1, <3>1, QuoteUpdateFits
  <2> HIDE DEF d, new, same
  <2> QED
    BY <1>1, <2>1, <2>2, QuoteBank
<1> QED
  BY <1>5, <1>6, <1>7, <1>8

\* Sending touches no wallet.
LEMMA PublishBank ==
    ASSUME IInv, IInv', Orderly, BankInv, NEW p \in Requests, Publish(p)
    PROVE  BankInv'
<1>1. /\ pc[p] = "publish" /\ pc'[p] = "commit" /\ Busy(p) /\ Alone(p)
      /\ UNCHANGED <<rows, latest, lock, call>>
  BY DEF Publish, Goto, Alone, Busy, IInv, TypeOK
<1>2. BankOK(p) /\ CurrenciesKept
  BY <1>1 DEF BankInv, CurrenciesKept, EqualFold
<1>3. \A w \in Wallets : Moved(p, w)' = Moved(p, w)
  BY <1>1 DEF Moved, Effect, Sum
<1>4. HoldOK(p)'
  BY <1>1, <1>2 DEF BankOK, HoldOK, Revalues
<1>5. BankOK(p)'
  BY <1>1, <1>2, <1>3, <1>4 DEF BankOK, EffectOK, RateOK, SeenOK
<1> QED
  BY <1>1, <1>2, <1>5, UntouchedFrozen, TurnKeeps

\* An UPDATE of a money request: the row it finds is in use, and so is the
\* version it writes, which is worth m more than the one it found.
LEMMA StoreBank ==
    ASSUME IInv, IInv', Orderly, BankInv, NEW p \in Requests, call[p].op \in MoneyOps,
           pc[p] \in {"write", "credit"}, NEW r, NEW s \in {"credit", "publish"},
           Update(p, r, s), NEW w \in Wallets, w = Target(p), NEW m \in Int,
           Hits(p) /\ CheckHolds(r) =>
              /\ InUse(r) /\ InUse(Newest(p)) /\ Value(r) = Value(Newest(p)) + m
              /\ r.currency = Newest(p).currency,
           \A v \in Wallets :
              /\ pc[p] = "write" => (IF s = "credit" /\ call[p].from = v THEN 0 - Sum(p)
                                     ELSE IF s = "credit" THEN 0 ELSE Effect(call[p], v))
                                    = (IF v = w THEN m ELSE 0)
              /\ pc[p] = "credit" => s = "publish" /\ Effect(call[p], v)
                                    = Moved(p, v) + (IF v = w THEN m ELSE 0)
    PROVE  BankInv'
<1>1. CASE \E e : Abort(p, e)
  BY <1>1, AbortBank DEF Busy
<1>2. CASE /\ ~Waits(p) /\ Hits(p) /\ CheckHolds(r)
           /\ Write(p, w, r) /\ Goto(p, s)
           /\ UNCHANGED <<rows, call, seen, rate>>
  <2>1. /\ pc'[p] = s /\ Alone(p) /\ lock[w] \in {Free, p}
        /\ latest' = [latest EXCEPT ![w] = r] /\ latest'[w] = r
        /\ lock' = [lock EXCEPT ![w] = p] /\ lock'[w] = p
    BY <1>2 DEF Goto, Alone, Waits, Write, IInv, TypeOK, StoreTypeOK
  <2>2. \A q \in Procs \ {p} : Frozen(q)
    <3>1. p \in Procs
      BY DEF Procs
    <3> QED
      BY <1>2, <2>1, <3>1, WriteFrozen
  <2>3. BankOK(p)
    BY DEF BankInv
  <2>4. InUse(rows[w]) /\ EqualFold(r.currency, rows[w].currency)
    <3>1. CASE lock[w] = p
      <4>1. ~Revalues(call[p])
        BY DEF Revalues, MoneyOps
      <4> QED
        BY <1>2, <2>3, <3>1, <4>1, AccountParts
           DEF BankOK, HoldOK, Newest, Visible, EqualFold
    <3>2. CASE lock[w] # p
      BY <1>2, <3>2 DEF Newest, Visible, EqualFold
    <3> QED
      BY <3>1, <3>2
  <2>5. HoldOK(p)'
    <3> SUFFICES ASSUME NEW v \in Wallets, lock'[v] = p
                 PROVE  /\ AccountOf(rows[v]).state = "open"
                        /\ AccountOf(latest'[v]).state = "open"
                        /\ EqualFold(latest'[v].currency, rows[v].currency)
      BY <1>2 DEF HoldOK
    <3>1. CASE v = w
      BY <1>2, <2>1, <2>4, <3>1, AccountParts
    <3>2. CASE v # w
      <4>1. lock[v] = p /\ latest'[v] = latest[v]
        BY <2>1, <3>2 DEF IInv, TypeOK, StoreTypeOK
      <4> QED
        BY <2>3, <4>1 DEF BankOK, HoldOK, Revalues, MoneyOps
    <3> QED
      BY <3>1, <3>2
  <2>6. \A v \in Wallets : Value(rows[v]) \in Int /\ Value(latest[v]) \in Int
    BY ValueType DEF IInv, TypeOK, StoreTypeOK
  <2>7. ASSUME NEW v \in Wallets
        PROVE  /\ IF lock[v] = p
                  THEN pc[p] = "credit" /\ Value(latest[v]) = Value(rows[v]) + Moved(p, v)
                  ELSE pc[p] = "credit" => Moved(p, v) = 0
               /\ pc[p] = "credit" => Moved(p, v) \in Int
    <3>1. lock[v] = p => pc[p] = "credit"
      BY DEF IInv, WritersHoldTheirRows
    <3>2. pc[p] = "credit" => IF lock[v] = p
                              THEN Value(latest[v]) = Value(rows[v]) + Moved(p, v)
                              ELSE Moved(p, v) = 0
      BY <2>3, AccountParts DEF BankOK, EffectOK
    <3>3. pc[p] = "credit" => Moved(p, v) \in Int
      <4>1. pc[p] = "credit" => Sum(p) \in Int
        BY Mover DEF Busy
      <4> QED
        BY <4>1 DEF Moved
    <3> QED
      BY <3>1, <3>2, <3>3
  <2>8. ASSUME NEW v \in Wallets
        PROVE  IF lock'[v] = p
               THEN Value(latest'[v]) = Value(rows[v]) + Moved(p, v)'
               ELSE Moved(p, v)' = 0
    <3>1. Moved(p, v)' = IF s = "credit" /\ call[p].from = v THEN 0 - Sum(p)
                         ELSE IF s = "credit" THEN 0 ELSE Effect(call[p], v)
      BY <1>2, <2>1 DEF Moved, Sum
    <3>2. CASE v = w
      <4>1. Value(latest'[v]) = Value(Newest(p)) + m
        BY <1>2, <2>1, <3>2
      <4>2. Newest(p) = IF lock[w] = p THEN latest[w] ELSE rows[w]
        BY DEF Newest, Visible
      <4>3. CASE pc[p] = "write"
        <5>1. Moved(p, v)' = m /\ Newest(p) = rows[w]
          BY <2>7, <3>1, <3>2, <4>2, <4>3
        <5> QED
          BY <2>1, <3>2, <4>1, <5>1
      <4>4. CASE pc[p] = "credit"
        <5>1. Moved(p, v)' = Moved(p, v) + m
          BY <3>1, <3>2, <4>4
        <5>2. Value(Newest(p)) = Value(rows[w]) + Moved(p, w)
          <6>1. CASE lock[w] = p
            BY <2>7, <4>2, <6>1
          <6>2. CASE lock[w] # p
            BY <2>6, <2>7, <4>2, <4>4, <6>2
          <6> QED
            BY <6>1, <6>2
        <5> QED
          BY <2>1, <2>6, <2>7, <3>2, <4>1, <4>4, <5>1, <5>2
      <4> QED
        BY <4>3, <4>4
    <3>3. CASE v # w
      <4>1. (lock'[v] = p <=> lock[v] = p) /\ latest'[v] = latest[v]
        BY <2>1, <3>3 DEF IInv, TypeOK, StoreTypeOK
      <4>2. CASE pc[p] = "write"
        BY <2>7, <3>1, <3>3, <4>1, <4>2
      <4>3. CASE pc[p] = "credit"
        <5>1. Moved(p, v)' = Moved(p, v)
          <6>1. Moved(p, v)' = Moved(p, v) + 0
            BY <3>1, <3>3, <4>3
          <6> QED
            BY <2>7, <4>3, <6>1
        <5> QED
          BY <2>7, <4>1, <4>3, <5>1
      <4> QED
        BY <4>2, <4>3
    <3> QED
      BY <3>2, <3>3
  <2>9. EffectOK(p)'
    BY <1>2, <2>8, AccountParts DEF EffectOK
  <2>10. RateOK(p)' /\ SeenOK(p)'
    <3>1. SeenOK(p)'
      BY <2>1 DEF SeenOK
    <3>2. RateOK(p)'
      BY <1>2, <2>1, <2>3 DEF RateOK, BankOK, Fits, Pays, Sum, MoneyOps
    <3> QED
      BY <3>1, <3>2
  <2>11. Busy(p) /\ CurrenciesKept
    BY <1>2 DEF Busy, CurrenciesKept, EqualFold
  <2> QED
    BY <2>1, <2>2, <2>5, <2>9, <2>10, <2>11, TurnKeeps DEF BankOK
<1> QED
  BY <1>1, <1>2 DEF Update

\* What can be had in units of k is what its number of units is worth.
LEMMA WholeUnits ==
    ASSUME NEW k \in Nat \ {0}, NEW n \in Int, Divides(k, n)
    PROVE  k * (n \div k) = n
<1>1. PICK m \in Int : n = k * m
  BY DEF Divides
<1>2. (k * m) \div k = m
  OBVIOUS
<1> QED
  BY <1>1, <1>2

\* An exchange keeps what a wallet is worth.
LEMMA ConvertedWorth ==
    ASSUME NEW r \in Row, NEW c \in Spellings, NEW x,
           Divides(Worth(c), Value(r)),
           \/ x = DefaultRate /\ Worth(c) = Worth(r.currency)
           \/ x = [num |-> Worth(r.currency), den |-> Worth(c)]
    PROVE  /\ Converted(r, c, x) \in Row /\ Converted(r, c, x).active = r.active
           /\ EqualFold(Converted(r, c, x).currency, c)
           /\ Value(Converted(r, c, x)) = Value(r)
<1> DEFINE s == Converted(r, c, x)
           n == Convert(r.balance, x)
           u == Upper[c]
<1>1. /\ r # Null /\ r.balance \in Int /\ Value(r) = Worth(r.currency) * r.balance
      /\ Worth(r.currency) \in Nat \ {0} /\ Worth(c) \in Nat \ {0}
      /\ u \in Spellings /\ Upper[u] = Upper[c]
  BY NullIsNoRow, WorthType, CurrencyAssumption DEF Row, Value
<1>2. n \in Int /\ Worth(c) * n = Value(r)
  <2>1. CASE x = DefaultRate /\ Worth(c) = Worth(r.currency)
    <3>1. \A k \in Int : (k * 1) \div 1 = k
      OBVIOUS
    <3>2. n = r.balance
      BY <1>1, <2>1, <3>1 DEF Convert, DefaultRate
    <3> QED
      BY <1>1, <2>1, <3>2
  <2>2. CASE x = [num |-> Worth(r.currency), den |-> Worth(c)]
    <3>1. \A k \in Int, m \in Int : k * m = m * k /\ k * m \in Int
      OBVIOUS
    <3>2. n = Value(r) \div Worth(c) /\ Value(r) \in Int
      BY <1>1, <2>2, <3>1 DEF Convert
    <3>3. Worth(c) * n = Value(r)
      BY <1>1, <3>2, WholeUnits
    <3>4. \A k \in Int, m \in Nat \ {0} : k \div m \in Int
      OBVIOUS
    <3> QED
      BY <1>1, <3>2, <3>3, <3>4
  <2> QED
    BY <2>1, <2>2
<1>3. /\ s \in Row /\ s.active = r.active /\ s.currency = u /\ s.balance = n
  <2>1. s = [r EXCEPT !.currency = u, !.balance = n, !.stale = FALSE]
    BY DEF Converted
  <2> HIDE DEF s, u, n
  <2> QED
    BY <1>1, <1>2, <2>1 DEF Row
<1>4. s # Null /\ Worth(u) = Worth(c)
  BY <1>1, <1>3, NullIsNoRow DEF Worth
<1> HIDE DEF s, u, n
<1>5. Value(s) = Value(r) /\ EqualFold(s.currency, c)
  BY <1>1, <1>2, <1>3, <1>4 DEF Value, EqualFold
<1> QED
  BY <1>3, <1>5 DEF s

\* The UPDATE of a currency change.
LEMMA StoreUpdateBank ==
    ASSUME IInv, IInv', Orderly, BankInv, UnitsOK, NEW p \in Requests, StoreUpdate(p)
    PROVE  BankInv'
<1> DEFINE b == call[p]
           w == Target(p)
           c == NewCurrency(p)
           r == Converted(rows[w], c, rate[p])
<1>1. /\ pc[p] = "write" /\ Busy(p) /\ b.op = "update" /\ b \in Bodies
      /\ w = b.wallet /\ w \in Wallets /\ c \in Spellings
  <2>1. pc[p] = "write" /\ Busy(p) /\ b.op = "update"
    BY DEF StoreUpdate, Busy
  <2>2. b \in Bodies /\ b.wallet \in Wallets /\ b.currency \in Spellings
    BY <2>1, Mover, BodyShape
  <2> QED
    BY <2>1, <2>2 DEF Target, WalletOps, NewCurrency, IInv, TypeOK, Views
<1>2. Newest(p) = rows[w]
  BY <1>1, ReadsCommitted DEF Newest
<1>3. Exchanges(p, w, rate[p])
  BY <1>1 DEF BankInv, BankOK, RateOK, Fits
<1>4. rows[w] \in Row /\ rows[w] # Null
  BY <1>1, <1>3 DEF Exchanges, IInv, TypeOK, StoreTypeOK
<1>5. Divides(Worth(c), Value(rows[w]))
  <2>1. CASE Revalues(b)
    BY <1>1, <2>1 DEF UnitsOK, Revalues, NewCurrency
  <2>2. CASE ~Revalues(b)
    <3>1. Worth(c) = Worth(rows[w].currency)
      BY <1>3, <2>2 DEF Exchanges, EqualFold, Worth
    <3> QED
      BY <1>4, <3>1 DEF Divides, Value, Row
  <2> QED
    BY <2>1, <2>2
<1>6. /\ r \in Row /\ r.active = rows[w].active /\ EqualFold(r.currency, c)
      /\ Value(r) = Value(rows[w])
  <2>1. \/ rate[p] = DefaultRate /\ Worth(c) = Worth(rows[w].currency)
        \/ rate[p] = [num |-> Worth(rows[w].currency), den |-> Worth(c)]
    BY <1>3 DEF Exchanges
  <2> HIDE DEF c, w
  <2> QED
    BY <1>1, <1>4, <1>5, <2>1, ConvertedWorth
<1>7. AccountOf(r) = AccountOf(rows[w])
  BY <1>4, <1>6, NullIsNoRow DEF AccountOf
<1>8. ~Revalues(b) => EqualFold(r.currency, rows[w].currency)
  BY <1>3, <1>6 DEF Exchanges, EqualFold
<1>9. Update(p, r, "commit")
  BY <1>2 DEF StoreUpdate
<1> HIDE DEF r
<1>10. CASE \E e : Abort(p, e)
  BY <1>1, <1>10, AbortBank
<1>11. CASE /\ ~Waits(p) /\ Hits(p)
            /\ Write(p, w, r) /\ Goto(p, "commit")
            /\ UNCHANGED <<rows, call, seen, rate>>
  <2>1. /\ pc'[p] = "commit" /\ Alone(p) /\ lock[w] \in {Free, p}
        /\ latest' = [latest EXCEPT ![w] = r] /\ latest'[w] = r
        /\ lock' = [lock EXCEPT ![w] = p]
    BY <1>1, <1>11 DEF Goto, Alone, Waits, Write, IInv, TypeOK, StoreTypeOK
  <2>2. \A q \in Procs \ {p} : Frozen(q)
    <3>1. p \in Procs
      BY DEF Procs
    <3> QED
      BY <1>1, <1>11, <2>1, <3>1, WriteFrozen
  <2>3. \A v \in Wallets : lock'[v] = p <=> v = w
    <3>1. \A v \in Wallets : lock[v] # p
      BY <1>1 DEF IInv, WritersHoldTheirRows
    <3> QED
      BY <1>1, <2>1, <3>1 DEF IInv, TypeOK, StoreTypeOK
  <2>4. HoldOK(p)'
    <3> SUFFICES ASSUME NEW v \in Wallets, lock'[v] = p
                 PROVE  /\ AccountOf(rows[v]).state # "absent"
                        /\ AccountOf(latest'[v]).state = AccountOf(rows[v]).state
                        /\ b.op \notin MoneyOps
                        /\ ~Revalues(b) => EqualFold(latest'[v].currency, rows[v].currency)
      BY <1>11 DEF HoldOK, Revalues
    <3> QED
      BY <1>1, <1>4, <1>7, <1>8, <2>1, <2>3, AccountParts DEF MoneyOps
  <2>5. EffectOK(p)'
    <3>1. \A v \in Wallets : Moved(p, v)' = 0
      BY <1>1, <1>11 DEF Moved, MoneyOps
    <3>2. Value(rows[w]) \in Int
      BY <1>4, ValueType
    <3> QED
      BY <1>7, <1>11, <2>1, <2>3, <3>1, <3>2, AccountParts DEF EffectOK
  <2>6. RateOK(p)' /\ SeenOK(p)'
    BY <2>1 DEF RateOK, SeenOK
  <2>7. CurrenciesKept
    BY <1>11 DEF CurrenciesKept, EqualFold
  <2> QED
    BY <1>1, <2>1, <2>2, <2>4, <2>5, <2>6, <2>7, TurnKeeps DEF BankOK
<1> QED
  BY <1>9, <1>10, <1>11 DEF Update

LEMMA StoresBank ==
    ASSUME IInv, IInv', Orderly, BankInv, VersionsAgree, UnitsOK, NEW p \in Requests,
           \/ StoreUpdate(p) \/ StoreDeposit(p) \/ StoreWithdraw(p)
           \/ StoreDebit(p) \/ StoreCredit(p)
    PROVE  BankInv'
<1>0. CASE StoreUpdate(p)
  BY <1>0, StoreUpdateBank
<1> SUFFICES ASSUME StoreDeposit(p) \/ StoreWithdraw(p) \/ StoreDebit(p) \/ StoreCredit(p)
             PROVE  BankInv'
  BY <1>0
<1> DEFINE b == call[p]
           w == Target(p)
           n == Newest(p)
           x == Convert(b.amount, rate[p])
<1>1. pc[p] \in {"write", "credit"} /\ Busy(p)
  BY DEF StoreDeposit, StoreWithdraw, StoreDebit, StoreCredit, Busy
<1>2. /\ b.op \in MoneyOps /\ b.amount \in Nat /\ Sum(p) \in Nat
      /\ b.op = "deposit" => b.to \in Wallets /\ b.from = Null
      /\ b.op = "withdraw" => b.from \in Wallets /\ b.to = Null
      /\ b.op = "transfer" => b.to \in Wallets /\ b.from \in Wallets
      /\ pc[p] = "credit" => b.op = "transfer"
      /\ Null \notin Wallets
  <2>1. b.op \in MoneyOps
    BY <1>1, Mover DEF StoreDeposit, StoreWithdraw, StoreDebit, StoreCredit, MoneyOps
  <2> QED
    BY <1>1, <2>1, Mover, NullIsNoRow
<1>3. w \in Wallets
  BY <1>1, TargetType DEF IInv
<1>4. x \in Nat
  BY <1>2, ConvertType DEF IInv, TypeOK
<1>5. Hits(p) => /\ n \in Row /\ InUse(n)
                 /\ Worth(n.currency) = Worth(rows[w].currency)
  <2>1. Hits(p) => n \in Row /\ n # Null
    BY <1>3, VisibleSound, MatchesLive DEF IInv, Hits, Newest
  <2>2. Hits(p) => n.active
    BY <1>1, <1>2 DEF Hits, Newest, Matches, Spendable, MoneyOps
  <2>3. Worth(n.currency) = Worth(rows[w].currency)
    <3>1. CASE lock[w] = p
      <4>1. HoldOK(p) /\ ~Revalues(b) /\ n = latest[w]
        BY <1>2, <3>1 DEF BankInv, BankOK, Newest, Visible, Revalues, MoneyOps
      <4> QED
        BY <1>3, <3>1, <4>1 DEF HoldOK, EqualFold, Worth
    <3>2. CASE lock[w] # p
      BY <3>2 DEF Newest, Visible
    <3> QED
      BY <3>1, <3>2
  <2> QED
    BY <2>1, <2>2, <2>3 DEF InUse
<1>6. Fits(p, rate[p])
  BY <1>1 DEF BankInv, BankOK, RateOK
<1>7. ASSUME NEW k \in Nat, Hits(p)
      PROVE  /\ InUse(Credited(n, k)) /\ InUse(Debited(n, k))
             /\ Value(Credited(n, k)) = Value(n) + Worth(n.currency) * k
             /\ Value(Debited(n, k)) = Value(n) - Worth(n.currency) * k
             /\ Credited(n, k).currency = n.currency
             /\ Debited(n, k).currency = n.currency
  BY <1>5, <1>7, CreditedWorth, DebitedWorth, NullIsNoRow DEF InUse
<1>8. Hits(p) => Value(n) \in Int
  BY <1>5, ValueType
<1> DEFINE m == Sum(p)
           minus == 0 - Sum(p)
<1>9. m \in Int /\ minus \in Int
  BY <1>2
<1>10. CASE StoreDeposit(p)
  <2>1. /\ b.op = "deposit" /\ pc[p] = "write" /\ w = b.to
        /\ Update(p, Credited(n, x), "publish")
    BY <1>10 DEF StoreDeposit, Target, WalletOps
  <2>2. Pays(p, w, rate[p])
    BY <1>6, <2>1 DEF Fits
  <2>3. Hits(p) => /\ InUse(Credited(n, x)) /\ InUse(n)
                   /\ Value(Credited(n, x)) = Value(n) + m
                   /\ Credited(n, x).currency = n.currency
    BY <1>4, <1>5, <1>7, <2>2 DEF Pays
  <2>4. \A v \in Wallets : Effect(b, v) = IF v = w THEN m ELSE 0
    BY <1>2, <2>1 DEF Effect, Sum
  <2> DEFINE r == Credited(n, x)
  <2> HIDE DEF r, x, n, w, m, b
  <2> QED
    BY <1>1, <1>2, <1>3, <1>9, <2>1, <2>3, <2>4, StoreBank DEF w, r, n, b
<1>11. CASE StoreWithdraw(p)
  <2>1. /\ b.op = "withdraw" /\ pc[p] = "write" /\ w = b.from
        /\ Update(p, Debited(n, x), "publish")
    BY <1>11 DEF StoreWithdraw, Target, WalletOps
  <2>2. Pays(p, w, rate[p])
    BY <1>6, <2>1 DEF Fits
  <2>3. Hits(p) => /\ InUse(Debited(n, x)) /\ InUse(n)
                   /\ Value(Debited(n, x)) = Value(n) + minus
                   /\ Debited(n, x).currency = n.currency
    BY <1>2, <1>4, <1>5, <1>7, <1>8, <2>2 DEF Pays
  <2>4. \A v \in Wallets : Effect(b, v) = IF v = w THEN minus ELSE 0
    BY <1>2, <2>1 DEF Effect, Sum
  <2> DEFINE r == Debited(n, x)
  <2> HIDE DEF r, x, n, w, minus, b
  <2> QED
    BY <1>1, <1>2, <1>3, <1>9, <2>1, <2>3, <2>4, StoreBank DEF w, r, n, b
<1>12. CASE StoreDebit(p)
  <2>1. /\ b.op = "transfer" /\ pc[p] = "write" /\ w = b.from
        /\ Update(p, Debited(n, b.amount), "credit")
    BY <1>12 DEF StoreDebit, Target, WalletOps
  <2>2. rows[w] # Null /\ Worth(rows[w].currency) = Worth(b.currency)
    BY <1>6, <2>1 DEF Fits
  <2>3. Hits(p) => /\ InUse(Debited(n, b.amount)) /\ InUse(n)
                   /\ Value(Debited(n, b.amount)) = Value(n) + minus
                   /\ Debited(n, b.amount).currency = n.currency
    BY <1>2, <1>5, <1>7, <1>8, <2>2 DEF Sum
  <2> DEFINE r == Debited(n, b.amount)
  <2>4. \A v \in Wallets : (IF b.from = v THEN minus ELSE 0) = (IF v = w THEN minus ELSE 0)
    BY <2>1
  <2> HIDE DEF r, n, w
  <2> QED
    BY <1>1, <1>2, <1>3, <1>9, <2>1, <2>3, <2>4, StoreBank DEF w, r, n
<1>13. CASE StoreCredit(p)
  <2>1. /\ b.op = "transfer" /\ pc[p] = "credit" /\ w = b.to
        /\ Update(p, Credited(n, x), "publish")
    BY <1>2, <1>13 DEF StoreCredit, Target, WalletOps
  <2>2. Pays(p, w, rate[p])
    BY <1>6, <2>1 DEF Fits
  <2>3. Hits(p) => /\ InUse(Credited(n, x)) /\ InUse(n)
                   /\ Value(Credited(n, x)) = Value(n) + m
                   /\ Credited(n, x).currency = n.currency
    BY <1>4, <1>5, <1>7, <2>2 DEF Pays
  <2>4. \A v \in Wallets : Effect(b, v) = Moved(p, v) + (IF v = w THEN m ELSE 0)
    BY <1>2, <2>1 DEF Effect, Moved, Sum
  <2> DEFINE r == Credited(n, x)
  <2> HIDE DEF r, x, n, w, m, b
  <2> QED
    BY <1>1, <1>2, <1>3, <1>9, <2>1, <2>3, <2>4, StoreBank DEF w, r, n, b
<1> QED
  BY <1>10, <1>11, <1>12, <1>13

\* Steps of the archiver and of time.
LEMMA NobodyBank ==
    ASSUME IInv, BankInv, CurrenciesKept, UNCHANGED requestVars,
           \A q \in Requests : Frozen(q), SweepOK'
    PROVE  BankInv'
<1>1. Turns'
  BY DEF BankInv, Turns, Busy, requestVars
<1>2. \A q \in Requests : BankOK(q)'
  BY HolderKeeps DEF BankInv, requestVars
<1> QED
  BY <1>1, <1>2 DEF BankInv

LEMMA ArchiveRowBank ==
    ASSUME IInv, BankInv, ArchiveRow
    PROVE  BankInv'
<1> DEFINE w == arch.at
           r == latest[w]
           x == IF Archivable(r) THEN Archived(r) ELSE r
<1>1. /\ w \in Wallets /\ lock[w] = Free /\ Write(Archiver, w, x)
      /\ UNCHANGED <<rows, requestVars>>
      /\ latest' = [latest EXCEPT ![w] = x] /\ latest'[w] = x
      /\ lock' = [lock EXCEPT ![w] = Archiver]
  BY DEF ArchiveRow, Write, IInv, ArchiveOK, TypeOK, StoreTypeOK
<1>2. \A q \in Requests : Frozen(q)
  <2>1. Archiver \in Procs /\ Archiver \notin Requests /\ Requests \subseteq Procs
    BY StoreAssumption DEF Procs
  <2> HIDE DEF x
  <2> QED
    BY <1>1, <2>1, WriteFrozen
<1>3. r = rows[w] /\ r \in Row \cup {Null}
  BY <1>1 DEF IInv, WritersHoldTheirRows, TypeOK, StoreTypeOK
<1>4. /\ x.currency = r.currency
      /\ \/ AccountOf(x) = AccountOf(r)
         \/ /\ AccountOf(r).state = "open" /\ AccountOf(r).worth = 0
            /\ AccountOf(x) = [AccountOf(r) EXCEPT !.state = "closed"]
  <2>1. CASE ~Archivable(r)
    BY <2>1
  <2>2. CASE Archivable(r)
    <3>1. r \in Row /\ r # Null /\ r.active /\ r.balance = 0
      BY <1>3, <2>2 DEF Archivable
    <3>2. /\ Archived(r) \in Row /\ ~Archived(r).active
          /\ Archived(r).balance = 0 /\ Archived(r).currency = r.currency
      BY <3>1 DEF Archived, Row
    <3>3. Archived(r) # Null
      BY <3>2, NullIsNoRow
    <3>4. Value(r) = 0 /\ Value(Archived(r)) = 0
      <4>1. Worth(r.currency) \in Nat
        BY <3>1, WorthType DEF Row
      <4> QED
        BY <3>1, <3>2, <3>3, <4>1 DEF Value
    <3>5. /\ AccountOf(r) = [state |-> "open", worth |-> 0]
          /\ AccountOf(Archived(r)) = [state |-> "closed", worth |-> 0]
      BY <3>1, <3>2, <3>3, <3>4 DEF AccountOf
    <3> QED
      BY <2>2, <3>2, <3>5
  <2> QED
    BY <2>1, <2>2
<1>5. SweepOK'
  <2> SUFFICES ASSUME NEW v \in Wallets, lock'[v] = Archiver
               PROVE  LET a == AccountOf(rows[v]) IN
                      /\ latest'[v].currency = rows[v].currency
                      /\ \/ AccountOf(latest'[v]) = a
                         \/ /\ a.state = "open" /\ a.worth = 0
                            /\ AccountOf(latest'[v]) = [a EXCEPT !.state = "closed"]
    BY <1>1 DEF SweepOK
  <2> HIDE DEF x
  <2>1. CASE v = w
    BY <1>1, <1>3, <1>4, <2>1
  <2>2. CASE v # w
    <3>1. lock[v] = Archiver /\ latest'[v] = latest[v]
      BY <1>1, <2>2 DEF IInv, TypeOK, StoreTypeOK
    <3> QED
      BY <3>1 DEF BankInv, SweepOK
  <2> QED
    BY <2>1, <2>2
<1> QED
  BY <1>1, <1>2, <1>5, NobodyBank DEF CurrenciesKept, EqualFold

LEMMA ArchiveEndBank ==
    ASSUME IInv, BankInv, UNCHANGED requestVars, Install(Archiver) \/ Discard(Archiver)
    PROVE  BankInv'
<1>1. \A q \in Requests : Frozen(q)
  BY EndFrozen, StoreAssumption DEF Procs
<1>2. SweepOK'
  BY StoreAssumption DEF SweepOK, Install, Discard, Release
<1>3. CASE Install(Archiver)
  <2>1. ASSUME NEW w \in Wallets, rows[w] # Null
        PROVE  rows'[w] # Null /\ rows'[w].currency = rows[w].currency
    <3>1. rows'[w] = Visible(Archiver, w)
      BY <1>3 DEF Install
    <3>2. CASE lock[w] = Archiver
      <4> DEFINE a == AccountOf(rows[w])
                 z == AccountOf(latest[w])
      <4>1. /\ rows'[w] = latest[w] /\ latest[w].currency = rows[w].currency
            /\ z = a \/ z = [a EXCEPT !.state = "closed"]
        BY <3>1, <3>2 DEF BankInv, SweepOK, Visible
      <4>2. a.state # "absent" /\ [a EXCEPT !.state = "closed"].state = "closed"
        BY <2>1, AccountParts DEF AccountOf
      <4>3. z.state # "absent"
        <5> HIDE DEF a, z
        <5> QED
          BY <4>1, <4>2
      <4>4. latest[w] # Null
        BY <4>3, AccountParts
      <4> QED
        BY <4>1, <4>4
    <3>3. CASE lock[w] # Archiver
      BY <2>1, <3>1, <3>3 DEF Visible
    <3> QED
      BY <3>2, <3>3
  <2> QED
    BY <1>1, <1>2, <2>1, NobodyBank DEF CurrenciesKept, EqualFold
<1>4. CASE Discard(Archiver)
  BY <1>1, <1>2, <1>4, NobodyBank DEF CurrenciesKept, EqualFold, Discard
<1> QED
  BY <1>3, <1>4

LEMMA CrashBank ==
    ASSUME IInv', Crash
    PROVE  BankInv'
<1>1. ASSUME NEW q \in Requests
      PROVE  ~Busy(q)' /\ pc'[q] \in {"idle", "done"}
  BY DEF Crash, Busy
<1>2. \A q \in Requests : BankOK(q)'
  BY <1>1, Uninvolved
<1>3. SweepOK'
  BY StoreAssumption DEF Crash, SweepOK
<1>4. Turns'
  BY <1>1 DEF Turns
<1> QED
  BY <1>2, <1>3, <1>4 DEF BankInv

LEMMA BankStep ==
    ASSUME IInv, AnswersInv, Orderly, Exact, BankInv, UnitsOK, [Next]_vars
    PROVE  BankInv'
<1>1. IInv'
  BY NextIInv
<1>2. ASSUME NEW p \in Requests, Receive(p)
      PROVE  BankInv'
  BY <1>1, <1>2, ReceiveBank
<1>3. ASSUME NEW p \in Requests, Verify(p)
      PROVE  BankInv'
  <2>1. pc'[p] = "done" /\ Busy(p) /\ Alone(p) /\ UNCHANGED <<rows, latest, lock>>
    BY <1>3 DEF Verify, Finish, Alone, Busy, IInv, TypeOK
  <2> QED
    BY <1>1, <2>1, QuietBank
<1>4. ASSUME NEW p \in Requests, Step(p)
      PROVE  BankInv'
  <2>1. CASE Insert(p, TRUE) \/ Remove(p, TRUE) \/ Commit(p, TRUE) \/ Publish(p)
    BY <1>1, <2>1, InsertBank, RemoveBank, CommitBank, PublishBank
  <2>2. CASE Verify(p) \/ ReadWallet(p) \/ ReadTarget(p)
    BY <1>1, <1>3, <2>2, ReadBank
  <2>3. CASE \/ QuoteUpdate(p) \/ QuoteDeposit(p)
             \/ QuoteWithdraw(p) \/ QuoteTransfer(p)
    BY <1>1, <2>3, QuotesBank
  <2>4. CASE \/ StoreUpdate(p) \/ StoreDeposit(p) \/ StoreWithdraw(p)
             \/ StoreDebit(p) \/ StoreCredit(p)
    BY <1>1, <2>4, StoresBank DEF AnswersInv
  <2> QED
    BY <1>4, <2>1, <2>2, <2>3, <2>4 DEF Step
<1>5. ASSUME NEW p \in Requests, Failure(p)
      PROVE  BankInv'
  <2>1. CASE Insert(p, FALSE) \/ Remove(p, FALSE) \/ Commit(p, FALSE)
    BY <1>1, <2>1, InsertBank, RemoveBank, CommitBank
  <2>2. CASE PublishFails(p) \/ Fail(p)
    BY <1>1, <2>2, AbortBank DEF PublishFails, Fail, Busy
  <2> QED
    BY <1>5, <2>1, <2>2 DEF Failure
<1>6. CASE ArchiveAborts
  BY <1>1, <1>6, ArchiveEndBank DEF ArchiveAborts
<1>7. ASSUME NEW p \in Procs, Victim(p)
      PROVE  BankInv'
  <2>1. CASE p = Archiver
    BY <1>6, <1>7, <2>1 DEF Victim
  <2>2. CASE p # Archiver
    <3>1. p \in Requests /\ Blocked(p) /\ Abort(p, "internal")
      BY <1>7, <2>2 DEF Victim, Deadlocked, Procs
    <3>2. Busy(p)
      BY <2>2, <3>1 DEF Blocked, Waits, Busy
    <3> QED
      BY <1>1, <3>1, <3>2, AbortBank
  <2> QED
    BY <2>1, <2>2
<1>8. CASE Age
  <2>1. (\A q : Frozen(q)) /\ CurrenciesKept
    BY <1>8, AgeFrozen
  <2> QED
    BY <1>1, <1>8, <2>1, NobodyBank, SweepKeeps DEF Age, BankInv
<1>9. CASE ArchiveStart \/ UNCHANGED vars
  <2>1. UNCHANGED <<rows, latest, lock, requestVars>>
    BY <1>9 DEF ArchiveStart, storeVars, vars, requestVars
  <2>2. (\A q : Frozen(q)) /\ CurrenciesKept
    BY <2>1, UntouchedFrozen DEF CurrenciesKept, EqualFold
  <2> QED
    BY <1>1, <2>1, <2>2, NobodyBank, SweepKeeps DEF BankInv
<1>10. CASE ArchiveRow
  BY <1>1, <1>10, ArchiveRowBank
<1>11. ASSUME NEW ack \in BOOLEAN, ArchiveCommit(ack)
       PROVE  BankInv'
  BY <1>1, <1>11, ArchiveEndBank DEF ArchiveCommit
<1>12. CASE Crash
  BY <1>1, <1>12, CrashBank
<1> QED
  BY <1>2, <1>4, <1>5, <1>6, <1>7, <1>8, <1>9, <1>10, <1>11, <1>12
     DEF Next, Archive, ArchiveFails, Finished

LEMMA BankInitial == Init => BankInv
<1> SUFFICES ASSUME Init PROVE BankInv
  OBVIOUS
<1>1. \A p \in Requests : BankOK(p)
  BY StoreAssumption DEF Init, BankOK, HoldOK, EffectOK, RateOK, SeenOK
<1>2. SweepOK
  BY StoreAssumption DEF Init, SweepOK
<1>3. Turns
  BY DEF Init, Turns, Busy
<1> QED
  BY <1>1, <1>2, <1>3 DEF BankInv

(***************************************************************************)
(* The steps of the service as steps of the bank.                          *)
(***************************************************************************)
accounts == [w \in Wallets |-> AccountOf(rows[w])]
orders == [p \in Requests |-> IF call[p] = Null THEN Null ELSE OrderOf(call[p])]
fates == [p \in Requests |-> FateOf(p)]
replies == [p \in Requests |-> ReplyOf(p)]

\* only the fate of p changes
Fated(p) ==
    /\ \A q \in Requests \ {p} :
         /\ pc'[q] = pc[q] /\ outcome'[q] = outcome[q]
         /\ (q \in applied') <=> (q \in applied)
    /\ UNCHANGED call

LEMMA FateOthers ==
    ASSUME NEW p \in Requests, Fated(p)
    PROVE  /\ fates' = [fates EXCEPT ![p] = FateOf(p)']
           /\ replies' = [replies EXCEPT ![p] = ReplyOf(p)']
           /\ UNCHANGED orders
<1>1. ASSUME NEW q \in Requests \ {p}
      PROVE  FateOf(q)' = FateOf(q) /\ ReplyOf(q)' = ReplyOf(q)
  BY DEF FateOf, ReplyOf, Fated
<1> QED
  BY <1>1 DEF fates, replies, orders, Fated

\* A request at work has not been carried out, and its client not answered.
LEMMA AskedFate ==
    ASSUME AnswersInv, NEW p \in Requests, Busy(p), pc[p] # "verify"
    PROVE  FateOf(p) = "asked" /\ ReplyOf(p) = "none" /\ p \notin applied
BY DEF AnswersInv, RequestOK, AnswerOK, Busy, FateOf, ReplyOf

LEMMA Stutters ==
    ASSUME UNCHANGED <<accounts, orders, fates, replies>>
    PROVE  UNCHANGED TheBank!vars
BY DEF accounts, orders, fates, replies, TheBank!vars

LEMMA GoesOn ==
    ASSUME AnswersInv, NEW p \in Requests, Fated(p), UNCHANGED accounts,
           Busy(p), pc[p] # "verify", outcome'[p] = outcome[p],
           pc'[p] \notin {"idle", "done"}, p \notin applied'
    PROVE  UNCHANGED TheBank!vars
<1>1. FateOf(p)' = FateOf(p) /\ ReplyOf(p)' = ReplyOf(p)
  BY AskedFate DEF AnswersInv, RequestOK, AnswerOK, Busy, FateOf, ReplyOf
<1>2. UNCHANGED <<fates, replies, orders>>
  BY <1>1, FateOthers DEF fates, replies
<1> QED
  BY <1>2, Stutters

LEMMA Refuses ==
    ASSUME AnswersInv, NEW p \in Requests, Fated(p), UNCHANGED accounts,
           Busy(p), pc[p] # "verify", pc'[p] = "done", p \notin applied',
           outcome'[p] \notin {"none", "lost", "ok"}
    PROVE  TheBank!Refuse(p)
<1>1. FateOf(p)' = "refused" /\ ReplyOf(p)' = "error"
  BY DEF FateOf, ReplyOf
<1> QED
  BY <1>1, AskedFate, FateOthers DEF fates, replies, orders, accounts, TheBank!Refuse

LEMMA CarriesOut ==
    ASSUME AnswersInv, NEW p \in Requests, Fated(p),
           Busy(p), pc[p] # "verify", p \in applied' \/ outcome'[p] = "ok",
           pc'[p] # "idle"
    PROVE  TheBank!Done(p)
<1>1. FateOf(p)' = "done" /\ ReplyOf(p)' \in {"none", "ok", "error"}
  BY DEF FateOf, ReplyOf
<1> QED
  BY <1>1, AskedFate, FateOthers DEF fates, replies, orders, TheBank!Done

\* What a step of the service is to the bank.
Mapped == TheBank!Next \/ UNCHANGED TheBank!vars

LEMMA OrderType ==
    ASSUME NEW b \in Bodies
    PROVE  OrderOf(b) \in {OrderOf(c) : c \in Bodies} \cap TheBank!Order
<1>1. CASE b.op \in MoneyOps
  <2>1. b.amount \in Int /\ b.currency \in Spellings
    BY <1>1, BodyShape DEF MoneyBody
  <2>2. Worth(b.currency) \in Int
    BY <2>1, WorthType
  <2>3. \A k \in Int, n \in Int : k * n \in Int
    OBVIOUS
  <2>4. \A w \in Wallets : Effect(b, w) \in Int
    <3> DEFINE v == Worth(b.currency) * b.amount
    <3>1. v \in Int
      BY <2>1, <2>2, <2>3
    <3> HIDE DEF v
    <3>2. \A w \in Wallets :
             Effect(b, w) = (IF b.to = w THEN v ELSE 0) - (IF b.from = w THEN v ELSE 0)
      BY DEF Effect, v
    <3> QED
      BY <3>1, <3>2
  <2>5. [w \in Wallets |-> Effect(b, w)] \in [Wallets -> Int]
    BY <2>4
  <2> QED
    BY <1>1, <2>5 DEF OrderOf, TheBank!Order
<1>2. CASE b.op \notin MoneyOps
  <2>1. b.wallet \in Wallets
    BY <1>2, BodyShape DEF WalletBody
  <2> QED
    BY <1>2, <2>1 DEF OrderOf, TheBank!Order
<1> QED
  BY <1>1, <1>2

LEMMA ReceiveMaps ==
    ASSUME IInv, AnswersInv, NEW p \in Requests, Receive(p)
    PROVE  TheBank!Ask(p)
<1>1. PICK b \in Bodies :
         /\ call' = [call EXCEPT ![p] = b]
         /\ IF Validated(b) = "ok"
            THEN Goto(p, IF b.op = "create" THEN "insert" ELSE "read")
            ELSE /\ pc' = [pc EXCEPT ![p] = "done"]
                 /\ outcome' = [outcome EXCEPT ![p] = Validated(b)]
  BY DEF Receive
<1>2. /\ pc[p] = "idle" /\ outcome[p] = "none" /\ p \notin applied
      /\ UNCHANGED <<rows, applied>>
  BY DEF Receive, AnswersInv, RequestOK, AnswerOK
<1>3. UNCHANGED accounts
  BY <1>2 DEF accounts
<1>4. orders' = [orders EXCEPT ![p] = OrderOf(b)]
  <2>1. b # Null
    BY ServiceAssumption
  <2>2. call'[p] = b /\ \A q \in Requests \ {p} : call'[q] = call[q]
    BY <1>1 DEF IInv, TypeOK
  <2> QED
    BY <2>1, <2>2 DEF orders
<1>5. ASSUME NEW q \in Requests \ {p}
      PROVE  FateOf(q)' = FateOf(q) /\ ReplyOf(q)' = ReplyOf(q)
  BY <1>1, <1>2 DEF Goto, FateOf, ReplyOf, IInv, TypeOK
<1>6. FateOf(p) = "new" /\ ReplyOf(p) = "none"
  BY <1>2 DEF FateOf, ReplyOf
<1>7. CASE Validated(b) = "ok"
  <2>1. pc'[p] \in {"insert", "read"} /\ outcome' = outcome
    BY <1>1, <1>7 DEF Goto, IInv, TypeOK
  <2>2. FateOf(p)' = "asked" /\ ReplyOf(p)' = "none"
    BY <1>2, <2>1 DEF FateOf, ReplyOf
  <2>3. fates' = [fates EXCEPT ![p] = "asked"] /\ UNCHANGED replies
    BY <1>5, <1>6, <2>2 DEF fates, replies
  <2> QED
    BY <1>3, <1>4, <1>6, <2>3, OrderType
       DEF fates, replies, orders, accounts, TheBank!Ask
<1>8. CASE Validated(b) # "ok"
  <2>1. /\ pc'[p] = "done" /\ outcome'[p] = Validated(b)
        /\ Validated(b) \in {"invalid", "wrongUser"}
    BY <1>1, <1>8 DEF Validated, IInv, TypeOK
  <2>2. FateOf(p)' = "refused" /\ ReplyOf(p)' = "error"
    BY <1>2, <2>1 DEF FateOf, ReplyOf
  <2>3. /\ fates' = [fates EXCEPT ![p] = "refused"]
        /\ replies' = [replies EXCEPT ![p] = "error"]
    BY <1>5, <2>2 DEF fates, replies
  <2> QED
    BY <1>3, <1>4, <1>6, <2>3, OrderType
       DEF fates, replies, orders, accounts, TheBank!Ask
<1> QED
  BY <1>7, <1>8

LEMMA AbortMaps ==
    ASSUME IInv, AnswersInv, NEW p \in Requests, Busy(p), pc[p] # "verify",
           NEW e \in Outcomes \ {"none", "lost", "ok"}, Abort(p, e)
    PROVE  TheBank!Refuse(p)
<1>1. /\ Fated(p) /\ pc'[p] = "done" /\ outcome'[p] = e /\ UNCHANGED <<rows, applied>>
  BY DEF Abort, Finish, Discard, Fated, IInv, TypeOK
<1>2. UNCHANGED accounts
  BY <1>1 DEF accounts
<1> QED
  BY <1>1, <1>2, AskedFate, Refuses

\* The creation is carried out by its INSERT, which may be its last step.
LEMMA InsertMaps ==
    ASSUME IInv, AnswersInv, NEW p \in Requests, NEW ack \in BOOLEAN,
           Insert(p, ack)
    PROVE  TheBank!Open(p) \/ TheBank!Refuse(p)
<1> DEFINE b == call[p]
           w == b.wallet
           r == NewWallet(b.user, b.currency)
<1>1. Busy(p) /\ pc[p] = "insert" /\ b.op = "create" /\ b \in Bodies
  BY BodyShape DEF Insert, Busy, IInv, StagesOK, StagesOf, MoneyOps, WalletOps
<1>2. w \in Wallets /\ b.currency \in Spellings /\ b # Null
  BY <1>1, BodyShape, ServiceAssumption DEF WalletBody, WalletOps
<1>3. Fated(p)
  BY DEF Insert, Goto, Finish, Fated, IInv, TypeOK
<1>4. CASE b.user \in KnownUsers /\ rows[w] = Null
  <2>1. p \in applied' /\ pc'[p] # "idle" /\ WriteThrough(w, r)
    BY <1>4 DEF Insert, Goto, Finish, IInv, TypeOK
  <2>2. TheBank!Done(p)
    BY <1>1, <1>3, <2>1, CarriesOut
  <2>3. AccountOf(r) = [state |-> "open", worth |-> 0]
    <3>1. r # Null /\ r.active /\ r.balance = 0 /\ r.currency = b.currency
      <4>1. r \in Row
        BY <1>1, <1>2, BodyShape DEF NewWallet, Row
      <4> QED
        BY <4>1, NullIsNoRow DEF NewWallet
    <3>2. Value(r) = 0
      BY <1>2, <3>1, WorthType DEF Value
    <3> QED
      BY <3>1, <3>2 DEF AccountOf
  <2>4. rows' = [rows EXCEPT ![w] = r] /\ rows \in [Wallets -> Row \cup {Null}]
    BY <2>1 DEF WriteThrough, IInv, TypeOK, StoreTypeOK
  <2>5. accounts' = [accounts EXCEPT ![w] = [state |-> "open", worth |-> 0]]
    BY <1>2, <2>3, <2>4 DEF accounts
  <2>6. accounts[w].state = "absent"
    BY <1>2, <1>4, AccountParts DEF accounts
  <2>7. orders[p].do = "open" /\ orders[p].on = w
    BY <1>1, <1>2 DEF orders, OrderOf, MoneyOps
  <2> HIDE DEF w, r, b
  <2> QED
    BY <2>2, <2>5, <2>6, <2>7 DEF accounts, orders, TheBank!Open
<1>5. CASE ~(b.user \in KnownUsers /\ rows[w] = Null)
  <2>1. /\ pc'[p] = "done" /\ outcome'[p] \in {"duplicateKey", "foreignKey"}
        /\ UNCHANGED <<rows, applied>>
    BY <1>5 DEF Insert, Finish, IInv, TypeOK
  <2>2. UNCHANGED accounts /\ p \notin applied'
    BY <1>1, <2>1, AskedFate DEF accounts
  <2> QED
    BY <1>1, <1>3, <2>1, <2>2, Refuses
<1> QED
  BY <1>4, <1>5

LEMMA VerifyMaps ==
    ASSUME IInv, AnswersInv, NEW p \in Requests, pc[p] = "verify",
           NEW e \in {"ok", "internal"}, Finish(p, e), UNCHANGED <<rows, applied>>
    PROVE  TheBank!Reply(p)
<1>1. p \in applied /\ outcome[p] = "none"
  BY DEF AnswersInv, RequestOK, AnswerOK
<1>2. Fated(p) /\ pc'[p] = "done" /\ outcome'[p] = e
  BY DEF Finish, Fated, IInv, TypeOK
<1>3. /\ FateOf(p) = "done" /\ FateOf(p)' = "done"
      /\ ReplyOf(p) = "none" /\ ReplyOf(p)' \in {"ok", "error"}
  BY <1>1, <1>2 DEF FateOf, ReplyOf
<1>4. UNCHANGED accounts /\ UNCHANGED fates
  BY <1>2, <1>3, FateOthers DEF accounts, fates
<1> QED
  BY <1>2, <1>3, <1>4, FateOthers DEF fates, replies, orders, accounts, TheBank!Reply

\* A deletion closes the account, or finds it closed.
LEMMA Closes ==
    ASSUME NEW p \in Requests, NEW w \in Wallets, TheBank!Done(p),
           orders[p].do = "close", orders[p].on = w, accounts[w].state # "absent",
           accounts' = [accounts EXCEPT ![w].state = "closed"]
    PROVE  TheBank!Close(p)
<1> DEFINE a == accounts
           o == orders[p]
<1>1. a' = [a EXCEPT ![o.on].state = "closed"] /\ a[o.on].state # "absent"
  OBVIOUS
<1>2. TheBank!Close(p) <=>
         /\ TheBank!Done(p) /\ o.do = "close"
         /\ a[o.on].state # "absent"
         /\ a' = [a EXCEPT ![o.on].state = "closed"]
  BY Zenon DEF accounts, orders, TheBank!Close
<1> QED
  BY <1>1, <1>2

LEMMA RemoveMaps ==
    ASSUME IInv, AnswersInv, NEW p \in Requests, NEW ack \in BOOLEAN,
           Remove(p, ack)
    PROVE  TheBank!Close(p) \/ TheBank!Refuse(p)
<1> DEFINE b == call[p]
           w == b.wallet
<1>1. Busy(p) /\ pc[p] = "remove" /\ b.op = "delete" /\ b \in Bodies
  BY BodyShape DEF Remove, Busy, IInv, StagesOK, StagesOf, MoneyOps, WalletOps
<1>2. Target(p) = w /\ w \in Wallets /\ Visible(p, w) = rows[w] /\ b # Null
  <2>1. Target(p) = w /\ w \in Wallets /\ b # Null
    BY <1>1, NamedWallets, ServiceAssumption DEF Target, WalletOps, Busy
  <2> QED
    BY <1>1, <2>1, ReadsCommitted
<1>3. Owned(p, w) /\ rows[w] \in Row /\ rows[w] # Null /\ Sound(rows[w])
  BY <1>1, <1>2 DEF AnswersInv, RequestOK, DeleteOK, Owned, IInv, TypeOK,
     StoreTypeOK, VersionsOK
<1>4. Fated(p)
  BY DEF Remove, Finish, Fated, IInv, TypeOK
<1>5. pc'[p] = "done" /\ outcome'[p] = IF ack THEN "ok" ELSE "internal"
  BY DEF Remove, Finish, IInv, TypeOK
<1>6. orders[p].do = "close" /\ orders[p].on = w
  BY <1>1, <1>2 DEF orders, OrderOf, MoneyOps
<1>7. accounts[w].state # "absent"
  BY <1>2, <1>3, AccountParts DEF accounts
<1>8. CASE Hits(p)
  <2>1. p \in applied' /\ WriteThrough(w, Removed(rows[w]))
    BY <1>2, <1>8 DEF Remove
  <2>2. TheBank!Done(p)
    BY <1>1, <1>4, <1>5, <2>1, CarriesOut
  <2> DEFINE x == Removed(rows[w])
  <2>3. /\ x \in Row /\ ~x.active /\ x.balance = rows[w].balance
        /\ x.currency = rows[w].currency
    BY <1>3 DEF Removed, Row
  <2>4. rows' = [rows EXCEPT ![w] = x] /\ rows \in [Wallets -> Row \cup {Null}]
    BY <2>1 DEF WriteThrough, IInv, TypeOK, StoreTypeOK
  <2> HIDE DEF x
  <2>5. AccountOf(x) = [AccountOf(rows[w]) EXCEPT !.state = "closed"]
    BY <1>3, <2>3, NullIsNoRow DEF AccountOf, Value
  <2>6. accounts' = [accounts EXCEPT ![w].state = "closed"]
    BY <1>2, <2>4, <2>5 DEF accounts
  <2> QED
    BY <1>2, <1>6, <1>7, <2>2, <2>6, Closes
<1>9. CASE ~Hits(p)
  <2>1. UNCHANGED <<rows, applied>>
    BY <1>9 DEF Remove
  <2>2. UNCHANGED accounts
    BY <2>1 DEF accounts
  <2>3. CASE ack
    <3>1. TheBank!Done(p)
      BY <1>1, <1>4, <1>5, <2>3, CarriesOut
    <3>2. ~rows[w].active
      BY <1>1, <1>2, <1>3, <1>9 DEF Hits, Matches, Removable, Present, Owned, Sound
    <3>3. AccountOf(rows[w]) = [AccountOf(rows[w]) EXCEPT !.state = "closed"]
      BY <1>3, <3>2 DEF AccountOf
    <3>4. accounts' = [accounts EXCEPT ![w].state = "closed"]
      BY <1>2, <2>1, <3>3 DEF accounts
    <3> QED
      BY <1>2, <1>6, <1>7, <3>1, <3>4, Closes
  <2>4. CASE ~ack
    BY <1>1, <1>4, <1>5, <2>1, <2>2, <2>4, AskedFate, Refuses
  <2> QED
    BY <2>3, <2>4
<1> QED
  BY <1>8, <1>9

\* Reads, decisions, UPDATEs and the send are not seen, unless the request is
\* refused there.
LEMMA GotoMaps ==
    ASSUME IInv, AnswersInv, NEW p \in Requests, Busy(p), pc[p] # "verify",
           NEW s \in Stages \ {"idle", "done"}, Goto(p, s),
           UNCHANGED <<rows, call, applied>>
    PROVE  Mapped
<1>1. Fated(p) /\ pc'[p] = s /\ outcome' = outcome
  BY DEF Goto, Fated, IInv, TypeOK
<1>2. UNCHANGED accounts /\ p \notin applied'
  BY AskedFate DEF accounts
<1> QED
  BY <1>1, <1>2, GoesOn DEF Mapped

LEMMA RefusalMaps ==
    ASSUME IInv, AnswersInv, NEW p \in Requests, Busy(p), pc[p] # "verify",
           NEW e \in Outcomes \ {"none", "lost", "ok"}, Abort(p, e)
    PROVE  Mapped
BY AbortMaps DEF Mapped, TheBank!Next

LEMMA WorkMaps ==
    ASSUME IInv, AnswersInv, NEW p \in Requests,
           \/ ReadWallet(p) \/ ReadTarget(p) \/ Publish(p)
           \/ QuoteUpdate(p) \/ QuoteDeposit(p) \/ QuoteWithdraw(p) \/ QuoteTransfer(p)
           \/ StoreUpdate(p) \/ StoreDeposit(p) \/ StoreWithdraw(p)
           \/ StoreDebit(p) \/ StoreCredit(p)
    PROVE  Mapped
<1> DEFINE Work == {"read", "readTo", "quote", "write", "credit", "publish"}
<1>1. pc[p] \in Work /\ Busy(p) /\ pc[p] # "verify"
  BY DEF ReadWallet, ReadTarget, Publish, QuoteUpdate, QuoteDeposit, QuoteWithdraw,
     QuoteTransfer, StoreUpdate, StoreDeposit, StoreWithdraw, StoreDebit,
     StoreCredit, Busy
<1>2. CASE \E e \in {"walletNotFound", "nonZeroBalance", "wrongCurrency",
                     "insufficientFunds", "balanceCheck"} : Abort(p, e)
  BY <1>1, <1>2, RefusalMaps DEF Outcomes
<1>3. CASE \E s \in {"readTo", "remove", "quote", "write", "credit", "publish", "commit"} :
              Goto(p, s) /\ UNCHANGED <<rows, call, applied>>
  BY <1>1, <1>3, GotoMaps DEF Stages
<1>4. CASE ReadWallet(p) \/ ReadTarget(p) \/ Publish(p)
  BY <1>2, <1>3, <1>4 DEF ReadWallet, ReadTarget, Publish, AfterRead
<1>5. ASSUME NEW same, NEW c, NEW d, NEW enough, Quote(p, same, c, d, enough)
      PROVE  Mapped
  BY <1>2, <1>3, <1>5 DEF Quote
<1>6. CASE QuoteUpdate(p) \/ QuoteDeposit(p) \/ QuoteWithdraw(p) \/ QuoteTransfer(p)
  BY <1>2, <1>5, <1>6 DEF QuoteUpdate, QuoteDeposit, QuoteWithdraw, QuoteTransfer
<1>7. ASSUME NEW r, NEW s \in {"credit", "publish", "commit"}, Update(p, r, s)
      PROVE  Mapped
  BY <1>2, <1>3, <1>7 DEF Update
<1>8. CASE \/ StoreUpdate(p) \/ StoreDeposit(p) \/ StoreWithdraw(p)
           \/ StoreDebit(p) \/ StoreCredit(p)
  BY <1>7, <1>8 DEF StoreUpdate, StoreDeposit, StoreWithdraw, StoreDebit, StoreCredit
<1> QED
  BY <1>4, <1>6, <1>8

\* The COMMIT moves what was asked for, between accounts that are open.
LEMMA MovesWorth ==
    ASSUME NEW p \in Requests, TheBank!Done(p), orders[p].do = "move",
           \A w \in Wallets : orders[p].effect[w] # 0 => accounts[w].state = "open",
           accounts' = [w \in Wallets |->
                          [accounts[w] EXCEPT !.worth = @ + orders[p].effect[w]]],
           accounts' \in [Wallets -> TheBank!Account]
    PROVE  TheBank!Move(p)
<1> DEFINE a == accounts
           o == orders[p]
<1>1. TheBank!Move(p) <=>
         /\ TheBank!Done(p) /\ o.do = "move"
         /\ \A w \in Wallets : o.effect[w] # 0 => a[w].state = "open"
         /\ a' = [w \in Wallets |-> [a[w] EXCEPT !.worth = @ + o.effect[w]]]
         /\ a' \in [Wallets -> TheBank!Account]
  BY Zenon DEF accounts, orders, TheBank!Move
<1> QED
  BY <1>1

LEMMA MoveMaps ==
    ASSUME IInv, AnswersInv, BankInv, NEW p \in Requests, call[p].op \in MoneyOps,
           NEW ack \in BOOLEAN, Commit(p, ack)
    PROVE  TheBank!Move(p)
<1> DEFINE b == call[p]
<1>1. /\ pc[p] = "commit" /\ Busy(p) /\ b \in Bodies /\ b.op \in MoneyOps
      /\ Sum(p) \in Nat /\ b # Null
  BY Mover, ServiceAssumption DEF Commit, Busy
<1>2. Fated(p) /\ pc'[p] = "done" /\ p \in applied'
  BY DEF Commit, Finish, Fated, IInv, TypeOK
<1>3. TheBank!Done(p)
  BY <1>1, <1>2, CarriesOut
<1>4. orders[p].do = "move" /\ \A w \in Wallets : orders[p].effect[w] = Effect(b, w)
  BY <1>1 DEF orders, OrderOf
<1>5. ASSUME NEW w \in Wallets
      PROVE  /\ Effect(b, w) # 0 => AccountOf(rows[w]).state = "open"
             /\ AccountOf(rows'[w])
                  = [AccountOf(rows[w]) EXCEPT !.worth = @ + Effect(b, w)]
             /\ AccountOf(rows'[w]) \in TheBank!Account
  <2>1. rows'[w] = Visible(p, w) /\ BankOK(p)
    BY DEF Commit, Install, BankInv
  <2>2. Moved(p, w) = Effect(b, w)
    BY <1>1 DEF Moved
  <2>3. /\ rows[w] \in Row \cup {Null} /\ Visible(p, w) \in Row \cup {Null}
        /\ Visible(p, w) # Null => Sound(Visible(p, w))
    BY VisibleSound DEF IInv, TypeOK, StoreTypeOK
  <2>4. Value(rows[w]) \in Int
    BY <2>3, ValueType
  <2>5. AccountOf(rows'[w]) \in TheBank!Account
    <3>1. Value(rows'[w]) \in Nat
      BY <2>1, <2>3, ValueType DEF Value
    <3> QED
      BY <3>1 DEF AccountOf, TheBank!Account
  <2>6. CASE lock[w] = p
    <3>1. rows'[w] = latest[w]
      BY <2>1, <2>6 DEF Visible
    <3>2. /\ AccountOf(rows[w]).state = "open" /\ AccountOf(rows'[w]).state = "open"
          /\ Value(rows'[w]) = Value(rows[w]) + Effect(b, w)
      BY <1>1, <2>1, <2>2, <2>6, <3>1, AccountParts
         DEF BankOK, HoldOK, EffectOK
    <3>3. /\ AccountOf(rows[w]) = [state |-> "open", worth |-> Value(rows[w])]
          /\ AccountOf(rows'[w]) = [state |-> "open", worth |-> Value(rows'[w])]
      BY <3>2 DEF AccountOf
    <3> QED
      BY <2>5, <3>2, <3>3
  <2>7. CASE lock[w] # p
    <3>1. rows'[w] = rows[w] /\ Effect(b, w) = 0
      BY <1>1, <2>1, <2>2, <2>7 DEF Visible, BankOK, EffectOK
    <3>2. AccountOf(rows[w]) = [AccountOf(rows[w]) EXCEPT !.worth = @ + 0]
      BY <2>4 DEF AccountOf
    <3> QED
      BY <2>5, <3>1, <3>2
  <2> QED
    BY <2>6, <2>7
<1> QED
  BY <1>3, <1>4, <1>5, MovesWorth DEF accounts

\* The COMMIT of an update leaves the accounts as they are.
LEMMA UpdateCommitKeeps ==
    ASSUME IInv, BankInv, NEW p \in Requests, call[p].op \notin MoneyOps,
           NEW ack, Commit(p, ack), NEW w \in Wallets
    PROVE  AccountOf(rows'[w]) = AccountOf(rows[w])
<1>1. rows'[w] = Visible(p, w) /\ BankOK(p) /\ pc[p] = "commit"
  BY DEF Commit, Install, BankInv
<1>2. CASE lock[w] = p
  <2>1. Value(rows[w]) \in Int
    BY ValueType DEF IInv, TypeOK, StoreTypeOK
  <2>2. /\ rows'[w] = latest[w] /\ Value(latest[w]) = Value(rows[w])
        /\ AccountOf(latest[w]).state = AccountOf(rows[w]).state
    BY <1>1, <1>2, <2>1, AccountParts DEF BankOK, HoldOK, EffectOK, Moved, Visible
  <2>3. \A r : AccountOf(r) = [state |-> AccountOf(r).state, worth |-> Value(r)]
    BY DEF AccountOf
  <2>4. AccountOf(latest[w]) = AccountOf(rows[w])
    BY <2>2, <2>3
  <2> QED
    BY <2>2, <2>4
<1>3. CASE lock[w] # p
  BY <1>1, <1>3 DEF Visible
<1> QED
  BY <1>2, <1>3

LEMMA CommitMaps ==
    ASSUME IInv, AnswersInv, BankInv, NEW p \in Requests,
           NEW ack \in BOOLEAN, Commit(p, ack)
    PROVE  Mapped
<1>1. CASE call[p].op \in MoneyOps
  BY <1>1, MoveMaps DEF Mapped, TheBank!Next
<1>2. CASE call[p].op \notin MoneyOps
  <2>1. /\ Busy(p) /\ pc[p] = "commit" /\ call[p] \in Bodies
        /\ call[p].op = "update" /\ call[p] # Null
    BY <1>2, Mover, ServiceAssumption DEF Commit, Busy
  <2>2. Fated(p) /\ pc'[p] = "done" /\ p \in applied'
    BY DEF Commit, Finish, Fated, IInv, TypeOK
  <2>3. TheBank!Done(p)
    BY <2>1, <2>2, CarriesOut
  <2>4. orders[p].do = "other" /\ UNCHANGED accounts
    BY <1>2, <2>1, UpdateCommitKeeps DEF orders, OrderOf, accounts
  <2>5. TheBank!Other(p)
    BY <2>3, <2>4 DEF orders, accounts, TheBank!Other
  <2> QED
    BY <2>5 DEF Mapped, TheBank!Next
<1> QED
  BY <1>1, <1>2

\* A crash drops what was not carried out, and answers nobody.
LEMMA CrashMaps ==
    ASSUME IInv, AnswersInv, Crash
    PROVE  TheBank!Drop
<1> DEFINE S == {p \in Requests : fates[p] = "asked"}
<1>1. ASSUME NEW q \in Requests
      PROVE  /\ FateOf(q)' = IF q \in S THEN "refused" ELSE FateOf(q)
             /\ ReplyOf(q)' = ReplyOf(q)
  <2>1. RequestOK(q)
    BY DEF AnswersInv
  <2>2. q \in S <=> FateOf(q) = "asked"
    BY DEF fates
  <2>3. /\ pc'[q] = IF Busy(q) THEN "done" ELSE pc[q]
        /\ outcome'[q] = IF Busy(q) THEN "lost" ELSE outcome[q]
        /\ applied' = applied
    BY DEF Crash
  <2> HIDE DEF S
  <2>4. CASE Busy(q)
    BY <2>1, <2>2, <2>3, <2>4 DEF RequestOK, AnswerOK, FateOf, ReplyOf, Busy
  <2>5. CASE ~Busy(q)
    <3>1. FateOf(q) # "asked"
      BY <2>5 DEF FateOf, Busy
    <3> QED
      BY <2>2, <2>3, <2>5, <3>1 DEF FateOf, ReplyOf
  <2> QED
    BY <2>4, <2>5
<1>2. fates' = [r \in Requests |-> IF r \in S THEN "refused" ELSE fates[r]]
  BY <1>1 DEF fates
<1>3. UNCHANGED <<replies, orders, accounts>>
  BY <1>1 DEF replies, orders, accounts, Crash
<1>4. S \in SUBSET {r \in Requests : fates[r] = "asked"}
  OBVIOUS
<1> HIDE DEF S
<1>5. \E T \in SUBSET {r \in Requests : fates[r] = "asked"} :
         fates' = [r \in Requests |-> IF r \in T THEN "refused" ELSE fates[r]]
  BY <1>2, <1>4
<1>6. TheBank!Drop <=>
         /\ \E T \in SUBSET {r \in Requests : fates[r] = "asked"} :
              fates' = [r \in Requests |-> IF r \in T THEN "refused" ELSE fates[r]]
         /\ UNCHANGED <<accounts, orders, replies>>
  BY Zenon DEF fates, replies, orders, accounts, TheBank!Drop
<1> QED
  BY <1>3, <1>5, <1>6

\* The end of an archiving statement closes empty accounts.
LEMMA ArchiveCommitMaps ==
    ASSUME IInv, BankInv, NEW ack \in BOOLEAN, ArchiveCommit(ack)
    PROVE  TheBank!Sweep
<1> DEFINE Empty == {w \in Wallets : accounts[w].state = "open" /\ accounts[w].worth = 0}
           S == {w \in Empty : AccountOf(rows'[w]) # AccountOf(rows[w])}
<1>1. UNCHANGED <<orders, fates, replies>>
  BY DEF ArchiveCommit, requestVars, orders, fates, replies, FateOf, ReplyOf
<1>2. ASSUME NEW w \in Wallets
      PROVE  AccountOf(rows'[w]) = IF w \in S THEN [AccountOf(rows[w]) EXCEPT !.state = "closed"]
                                             ELSE AccountOf(rows[w])
  <2>1. rows'[w] = Visible(Archiver, w)
    BY DEF ArchiveCommit, Install
  <2>2. w \in S <=> /\ AccountOf(rows[w]).state = "open" /\ AccountOf(rows[w]).worth = 0
                    /\ AccountOf(rows'[w]) # AccountOf(rows[w])
    BY DEF accounts
  <2> HIDE DEF S
  <2>3. CASE lock[w] = Archiver
    BY <2>1, <2>2, <2>3 DEF BankInv, SweepOK, Visible
  <2>4. CASE lock[w] # Archiver
    BY <2>1, <2>2, <2>4 DEF Visible
  <2> QED
    BY <2>3, <2>4
<1>3. S \in SUBSET Empty
  OBVIOUS
<1> HIDE DEF S
<1>4. accounts' = [w \in Wallets |-> IF w \in S THEN [accounts[w] EXCEPT !.state = "closed"]
                                               ELSE accounts[w]]
  BY <1>2 DEF accounts
<1>5. \E T \in SUBSET {w \in Wallets : accounts[w].state = "open" /\ accounts[w].worth = 0} :
         accounts' = [w \in Wallets |-> IF w \in T THEN [accounts[w] EXCEPT !.state = "closed"]
                                                  ELSE accounts[w]]
  BY <1>3, <1>4
<1>6. TheBank!Sweep <=>
         /\ \E T \in SUBSET {w \in Wallets : accounts[w].state = "open" /\ accounts[w].worth = 0} :
              accounts' = [w \in Wallets |-> IF w \in T
                                             THEN [accounts[w] EXCEPT !.state = "closed"]
                                             ELSE accounts[w]]
         /\ UNCHANGED <<orders, fates, replies>>
  BY Zenon DEF fates, replies, orders, accounts, TheBank!Sweep
<1> QED
  BY <1>1, <1>5, <1>6

\* Steps of the archiver that commit nothing, and time, are not seen.
LEMMA HiddenMaps ==
    ASSUME UNCHANGED <<pc, call, outcome, applied>>, UNCHANGED accounts
    PROVE  Mapped
<1>1. UNCHANGED <<orders, fates, replies>>
  BY DEF orders, fates, replies, FateOf, ReplyOf
<1> QED
  BY <1>1, Stutters DEF Mapped

\* An error or a deadlock in a request's way refuses it, or is the answer to
\* the creation of a wallet that was created.
LEMMA FailureMaps ==
    ASSUME IInv, AnswersInv, NEW p \in Requests, Busy(p), NEW e \in {"ok", "internal"},
           Abort(p, e), e = "ok" => pc[p] = "verify"
    PROVE  Mapped
<1>1. CASE pc[p] = "verify"
  BY <1>1, VerifyMaps DEF Abort, Discard, Mapped, TheBank!Next
<1>2. CASE pc[p] # "verify"
  BY <1>2, RefusalMaps DEF Outcomes
<1> QED
  BY <1>1, <1>2

\* Every step of the service is a step of the bank, or changes nothing there.
LEMMA NextMaps ==
    ASSUME IInv, AnswersInv, BankInv, [Next]_vars
    PROVE  Mapped
<1>1. ASSUME NEW p \in Requests, NEW ack \in BOOLEAN,
             Insert(p, ack) \/ Remove(p, ack) \/ Commit(p, ack)
      PROVE  Mapped
  BY <1>1, InsertMaps, RemoveMaps, CommitMaps DEF Mapped, TheBank!Next
<1>2. ASSUME NEW p \in Requests, Receive(p)
      PROVE  Mapped
  BY <1>2, ReceiveMaps DEF Mapped, TheBank!Next
<1>3. ASSUME NEW p \in Requests, Verify(p)
      PROVE  Mapped
  BY <1>3, VerifyMaps DEF Verify, Mapped, TheBank!Next
<1>4. ASSUME NEW p \in Requests, Step(p)
      PROVE  Mapped
  BY <1>1, <1>3, <1>4, WorkMaps DEF Step
<1>5. ASSUME NEW p \in Requests, Failure(p)
      PROVE  Mapped
  <2>1. CASE Insert(p, FALSE) \/ Remove(p, FALSE) \/ Commit(p, FALSE)
    BY <1>1, <2>1
  <2>2. CASE PublishFails(p)
    BY <2>2, FailureMaps DEF PublishFails, Busy
  <2>3. CASE Fail(p)
    BY <2>3, FailureMaps DEF Fail
  <2> QED
    BY <1>5, <2>1, <2>2, <2>3 DEF Failure
<1>6. CASE ArchiveAborts
  BY <1>6, HiddenMaps DEF ArchiveAborts, Discard, requestVars, accounts
<1>7. ASSUME NEW p \in Procs, Victim(p)
      PROVE  Mapped
  <2>1. CASE p = Archiver
    BY <1>6, <1>7, <2>1 DEF Victim
  <2>2. CASE p # Archiver
    <3>1. p \in Requests /\ Blocked(p) /\ Abort(p, "internal")
      BY <1>7, <2>2 DEF Victim, Deadlocked, Procs
    <3>2. Busy(p)
      BY <2>2, <3>1 DEF Blocked, Waits, Busy
    <3> QED
      BY <3>1, <3>2, FailureMaps
  <2> QED
    BY <2>1, <2>2
<1>8. CASE Age
  <2>1. UNCHANGED accounts
    BY <1>8, AgeFrozen DEF accounts
  <2> QED
    BY <1>8, <2>1, HiddenMaps DEF Age, requestVars
<1>9. CASE ArchiveStart \/ ArchiveRow \/ UNCHANGED vars
  BY <1>9, HiddenMaps DEF ArchiveStart, ArchiveRow, storeVars, requestVars, vars, accounts
<1>10. ASSUME NEW ack \in BOOLEAN, ArchiveCommit(ack)
       PROVE  Mapped
  BY <1>10, ArchiveCommitMaps DEF Mapped, TheBank!Next
<1>11. CASE Crash
  BY <1>11, CrashMaps DEF Mapped, TheBank!Next
<1> QED
  BY <1>2, <1>4, <1>5, <1>6, <1>7, <1>8, <1>9, <1>10, <1>11
     DEF Next, Archive, ArchiveFails, Finished

LEMMA InitMaps ==
    ASSUME Init
    PROVE  TheBank!Init
BY DEF Init, FateOf, ReplyOf, TheBank!Init

(***************************************************************************)
(* What the steps of the service do to the worth of the wallets.           *)
(***************************************************************************)
\* the worth of every wallet, and the table, stay
Quiet ==
    /\ transactions' = transactions
    /\ \A w \in Wallets : Value(rows'[w]) = Value(rows[w])

\* the table gets the row of p, and every wallet what this row says
Books(p) ==
    /\ call[p] \in Bodies /\ call[p].op \in MoneyOps
    /\ TxRecord(p) \in TxRow \ transactions
    /\ transactions' = transactions \cup {TxRecord(p)}
    /\ \A w \in Wallets :
          Value(rows'[w]) = Value(rows[w]) + Effect(TxRecord(p), w)

\* A statement on the pool that writes a row of the same worth.
LEMMA WriteThroughQuiet ==
    ASSUME IInv, NEW w \in Wallets, NEW r, Value(r) = Value(rows[w]),
           rows' = [rows EXCEPT ![w] = r], transactions' = transactions
    PROVE  Quiet
<1>1. rows \in [Wallets -> Row \cup {Null}]
  BY DEF IInv, TypeOK, StoreTypeOK
<1>2. ASSUME NEW v \in Wallets
      PROVE  Value(rows'[v]) = Value(rows[v])
  <2>1. CASE v = w
    BY <1>1, <2>1
  <2>2. CASE v # w
    BY <1>1, <2>2
  <2> QED
    BY <2>1, <2>2
<1> QED
  BY <1>2 DEF Quiet

\* A new wallet is worth nothing, as the wallet id was before.
LEMMA InsertQuiet ==
    ASSUME IInv, NEW p \in Requests, NEW ack \in BOOLEAN, Insert(p, ack)
    PROVE  Quiet
<1> DEFINE b == call[p]
           w == b.wallet
           r == NewWallet(b.user, b.currency)
<1>1. /\ w \in Wallets /\ b.currency \in Spellings /\ b.user \in Users
  <2>1. Busy(p) /\ b.op = "create" /\ b \in Bodies
    BY BodyShape DEF Insert, Busy, IInv, StagesOK, StagesOf, MoneyOps, WalletOps
  <2> QED
    BY <2>1, BodyShape DEF WalletBody, WalletOps
<1>2. CASE b.user \in KnownUsers /\ rows[w] = Null
  <2>1. Value(r) = 0
    <3>1. Worth(b.currency) \in Nat /\ r.currency = b.currency /\ r.balance = 0
      BY <1>1, WorthType DEF NewWallet
    <3>2. \A k \in Nat : k * 0 = 0
      OBVIOUS
    <3> QED
      BY <3>1, <3>2 DEF Value
  <2>2. Value(rows[w]) = 0
    BY <1>2 DEF Value
  <2>3. rows' = [rows EXCEPT ![w] = r] /\ transactions' = transactions
    BY <1>2 DEF Insert, WriteThrough
  <2> QED
    BY <1>1, <2>1, <2>2, <2>3, WriteThroughQuiet
<1>3. CASE ~(b.user \in KnownUsers /\ rows[w] = Null)
  BY <1>3 DEF Insert, Quiet
<1> QED
  BY <1>2, <1>3

\* A deletion leaves the balance as it is.
LEMMA RemoveQuiet ==
    ASSUME IInv, NEW p \in Requests, NEW ack \in BOOLEAN, Remove(p, ack)
    PROVE  Quiet
<1> DEFINE w == Target(p)
<1>1. w \in Wallets /\ Visible(p, w) = rows[w] /\ rows[w] \in Row \cup {Null}
  <2>1. Busy(p) /\ pc[p] = "remove"
    BY DEF Remove, Busy
  <2>2. w \in Wallets
    BY <2>1, TargetType DEF IInv, TypeOK
  <2> QED
    BY <2>1, <2>2, ReadsCommitted DEF IInv, TypeOK, StoreTypeOK
<1>2. CASE Hits(p)
  <2>1. rows[w] # Null /\ rows[w] \in Row
    BY <1>1, <1>2 DEF Hits, Matches, Removable, Present, Remove
  <2> DEFINE x == Removed(rows[w])
  <2>2. x \in Row /\ x.balance = rows[w].balance /\ x.currency = rows[w].currency
    BY <2>1 DEF Removed, Row
  <2>3. rows' = [rows EXCEPT ![w] = x] /\ transactions' = transactions
    BY <1>2 DEF Remove, WriteThrough
  <2> HIDE DEF x, w
  <2>4. Value(x) = Value(rows[w])
    BY <2>1, <2>2, NullIsNoRow DEF Value
  <2> QED
    BY <1>1, <2>3, <2>4, WriteThroughQuiet
<1>3. CASE ~Hits(p)
  BY <1>3 DEF Remove, Quiet
<1> QED
  BY <1>2, <1>3

\* The archiver takes empty wallets out of use.
LEMMA ArchiveCommitQuiet ==
    ASSUME BankInv, NEW ack \in BOOLEAN, ArchiveCommit(ack)
    PROVE  Quiet
<1>1. ASSUME NEW w \in Wallets
      PROVE  Value(rows'[w]) = Value(rows[w])
  <2>1. rows'[w] = Visible(Archiver, w)
    BY DEF ArchiveCommit, Install
  <2>2. CASE lock[w] = Archiver
    <3> DEFINE a == AccountOf(rows[w])
    <3>1. [a EXCEPT !.state = "closed"].worth = a.worth
      BY DEF AccountOf
    <3>2. AccountOf(latest[w]).worth = a.worth
      BY <2>2, <3>1 DEF BankInv, SweepOK
    <3> QED
      BY <2>1, <2>2, <3>2, AccountParts DEF Visible
  <2>3. CASE lock[w] # Archiver
    BY <2>1, <2>3 DEF Visible
  <2> QED
    BY <2>2, <2>3
<1> QED
  BY <1>1 DEF ArchiveCommit, Quiet

\* The COMMIT of a money request enters it in the table and in the balances.
LEMMA CommitBooks ==
    ASSUME IInv, AnswersInv, BankInv, NEW p \in Requests, call[p].op \in MoneyOps,
           NEW ack \in BOOLEAN, Commit(p, ack)
    PROVE  Books(p)
<1> DEFINE b == call[p]
<1>1. pc[p] = "commit" /\ Busy(p) /\ b \in Bodies /\ b.op \in MoneyOps
  BY Mover DEF Commit, Busy
<1>2. TxRecord(p) \in TxRow
  BY <1>1, TxRecordType
<1>3. TxRecord(p) \notin transactions
  BY <1>1 DEF AnswersInv, TransactionsOK, TxRecord
<1>4. ASSUME NEW w \in Wallets
      PROVE  Value(rows'[w]) = Value(rows[w]) + Effect(b, w)
  <2>1. rows'[w] = Visible(p, w) /\ BankOK(p)
    BY DEF Commit, Install, BankInv
  <2>2. Moved(p, w) = Effect(b, w)
    BY <1>1 DEF Moved
  <2>3. Value(rows[w]) \in Int
    BY ValueType DEF IInv, TypeOK, StoreTypeOK
  <2>4. CASE lock[w] = p
    BY <1>1, <2>1, <2>2, <2>4, AccountParts DEF BankOK, EffectOK, Visible
  <2>5. CASE lock[w] # p
    <3>1. rows'[w] = rows[w] /\ Effect(b, w) = 0
      BY <1>1, <2>1, <2>2, <2>5 DEF Visible, BankOK, EffectOK
    <3> QED
      BY <2>3, <3>1
  <2> QED
    BY <2>4, <2>5
<1>5. \A w \in Wallets : Effect(TxRecord(p), w) = Effect(b, w)
  BY DEF Effect, TxRecord
<1> QED
  BY <1>1, <1>2, <1>3, <1>4, <1>5 DEF Commit, Books

\* That of an update changes neither.
LEMMA UpdateQuiet ==
    ASSUME IInv, BankInv, NEW p \in Requests, call[p].op \notin MoneyOps,
           NEW ack, Commit(p, ack)
    PROVE  Quiet
<1>1. \A w \in Wallets : Value(rows'[w]) = Value(rows[w])
  BY UpdateCommitKeeps, AccountParts
<1> QED
  BY <1>1 DEF Commit, Quiet

\* Every step of the service leaves worth and table alone, or is the COMMIT
\* of a request that moves money.
LEMMA StepBooks ==
    ASSUME IInv, AnswersInv, BankInv, [Next]_vars
    PROVE  Quiet \/ \E p \in Requests : Books(p)
<1>1. ASSUME UNCHANGED <<rows, transactions>>
      PROVE  Quiet
  BY <1>1 DEF Quiet
<1>2. ASSUME NEW p, NEW e, Abort(p, e)
      PROVE  Quiet
  BY <1>1, <1>2 DEF Abort, Discard
<1>3. ASSUME NEW p \in Requests, NEW ack \in BOOLEAN,
             Insert(p, ack) \/ Remove(p, ack) \/ Commit(p, ack)
      PROVE  Quiet \/ Books(p)
  BY <1>3, InsertQuiet, RemoveQuiet, UpdateQuiet, CommitBooks
<1>4. ASSUME NEW p \in Requests, Step(p)
      PROVE  Quiet \/ Books(p)
  <2>1. CASE Insert(p, TRUE) \/ Remove(p, TRUE) \/ Commit(p, TRUE)
    BY <1>3, <2>1
  <2>2. CASE Verify(p) \/ ReadWallet(p) \/ ReadTarget(p) \/ Publish(p)
    BY <1>1, <1>2, <2>2 DEF Verify, ReadWallet, ReadTarget, Publish
  <2>3. ASSUME NEW same, NEW c, NEW d, NEW enough, Quote(p, same, c, d, enough)
        PROVE  Quiet
    BY <1>1, <1>2, <2>3 DEF Quote
  <2>4. CASE \/ QuoteUpdate(p) \/ QuoteDeposit(p)
             \/ QuoteWithdraw(p) \/ QuoteTransfer(p)
    BY <1>2, <2>3, <2>4 DEF QuoteUpdate, QuoteDeposit, QuoteWithdraw, QuoteTransfer
  <2>5. CASE \/ StoreUpdate(p) \/ StoreDeposit(p) \/ StoreWithdraw(p)
             \/ StoreDebit(p) \/ StoreCredit(p)
    <3>1. PICK r, s : Update(p, r, s)
      BY <2>5 DEF StoreUpdate, StoreDeposit, StoreWithdraw, StoreDebit, StoreCredit
    <3> QED
      BY <1>1, <1>2, <3>1 DEF Update
  <2> QED
    BY <1>4, <2>1, <2>2, <2>4, <2>5 DEF Step
<1>5. ASSUME NEW p \in Requests, Failure(p)
      PROVE  Quiet \/ Books(p)
  BY <1>2, <1>3, <1>5 DEF Failure, PublishFails, Fail
<1>6. ASSUME NEW p \in Requests, Receive(p)
      PROVE  Quiet
  BY <1>1, <1>6 DEF Receive
<1>7. ASSUME ArchiveAborts
      PROVE  Quiet
  BY <1>1, <1>7 DEF ArchiveAborts, Discard
<1>8. ASSUME NEW p \in Procs, Victim(p)
      PROVE  Quiet
  BY <1>2, <1>7, <1>8 DEF Victim
<1>9. CASE Age
  <2>1. \A w \in Wallets : AccountOf(rows'[w]) = AccountOf(rows[w])
    BY <1>9, AgeFrozen
  <2>2. \A w \in Wallets : Value(rows'[w]) = Value(rows[w])
    BY <2>1, AccountParts
  <2>3. transactions' = transactions
    BY <1>9 DEF Age
  <2> QED
    BY <2>2, <2>3 DEF Quiet
<1>10. CASE ArchiveStart \/ ArchiveRow \/ Crash \/ UNCHANGED vars
  BY <1>1, <1>10 DEF ArchiveStart, ArchiveRow, Crash, storeVars, vars
<1>11. ASSUME NEW ack \in BOOLEAN, ArchiveCommit(ack)
       PROVE  Quiet
  BY <1>11, ArchiveCommitQuiet
<1> QED
  BY <1>4, <1>5, <1>6, <1>7, <1>8, <1>9, <1>10, <1>11
     DEF Next, Archive, ArchiveFails, Finished

\* Sums of multiples of k are multiples of k.
LEMMA DividesSum ==
    ASSUME NEW k \in Int, NEW m, NEW n, Divides(k, m), Divides(k, n)
    PROVE  Divides(k, m + n) /\ Divides(k, m - n)
<1>1. PICK x \in Int : m = k * x
  BY DEF Divides
<1>2. PICK y \in Int : n = k * y
  BY DEF Divides
<1>3. m + n = k * (x + y) /\ m - n = k * (x - y)
  BY <1>1, <1>2, Distributes
<1>4. x + y \in Int /\ x - y \in Int
  OBVIOUS
<1> QED
  BY <1>3, <1>4 DEF Divides

LEMMA UnitsStep ==
    ASSUME IInv, AnswersInv, Exact, BankInv, UnitsOK, [Next]_vars
    PROVE  UnitsOK'
<1>1. CASE Quiet
  BY <1>1 DEF Quiet, UnitsOK
<1>2. ASSUME NEW p \in Requests, Books(p)
      PROVE  UnitsOK'
  <2> SUFFICES ASSUME NEW b \in Bodies, Revalues(b), NEW w \in Wallets
               PROVE  Divides(Worth(b.currency), Value(rows'[w]))
    BY DEF UnitsOK
  <2> DEFINE k == Worth(b.currency)
             m == call[p]
             t == TxRecord(p)
             v == Worth(m.currency) * m.amount
  <2>1. k \in Int /\ \A n : n = 0 => Divides(k, n)
    <3>1. k \in Int
      BY BodyShape, WorthType
    <3> HIDE DEF k
    <3> QED
      BY <3>1 DEF Divides
  <2>2. Divides(k, v)
    BY <1>2 DEF Books, Exact
  <2>3. Divides(k, Effect(t, w))
    <3> DEFINE x == IF m.to = w THEN v ELSE 0
               y == IF m.from = w THEN v ELSE 0
    <3>1. Effect(t, w) = x - y
      BY DEF Effect, TxRecord
    <3> HIDE DEF k, v
    <3>2. Divides(k, x) /\ Divides(k, y)
      BY <2>1, <2>2
    <3> HIDE DEF x, y
    <3> QED
      BY <2>1, <3>1, <3>2, DividesSum
  <2>4. Divides(k, Value(rows[w]))
    BY DEF UnitsOK
  <2>5. Value(rows'[w]) = Value(rows[w]) + Effect(t, w)
    BY <1>2 DEF Books
  <2> HIDE DEF k, t
  <2>6. Divides(k, Value(rows'[w]))
    BY <2>1, <2>3, <2>4, <2>5, DividesSum
  <2> QED
    BY <2>6 DEF k
<1> QED
  BY <1>1, <1>2, StepBooks

(***************************************************************************)
(* The theorems.                                                           *)
(***************************************************************************)
\* What is known of the requests in flight, of the archiver and of the worth
\* of the wallets holds in every state.
THEOREM BankInductive ==
    ASSUME Orderly, Exact
    PROVE  Spec => [](IInv /\ AnswersInv /\ BankInv /\ UnitsOK)
<1>1. Init => BankInv /\ UnitsOK
  <2>1. Init => UnitsOK
    BY DEF Init, UnitsOK, Exact
  <2> QED
    BY <2>1, BankInitial
<1>2. IInv /\ AnswersInv /\ BankInv /\ UnitsOK /\ [Next]_vars => BankInv' /\ UnitsOK'
  BY BankStep, UnitsStep
<1> QED
  BY <1>1, <1>2, AnswersInductive, PTL DEF Spec

\* The service implements the bank: each request takes effect once, as a
\* whole and before its answer, or never; money moves only as it was asked
\* to, a currency change keeps what a wallet is worth, and only the archiver
\* takes wallets out of use unasked, empty ones.
THEOREM ServiceIsABank ==
    ASSUME Orderly, Exact
    PROVE  Spec => ImplementsBank
<1>1. Init => TheBank!Init
  BY InitMaps
<1>2. IInv /\ AnswersInv /\ BankInv /\ [Next]_vars => [TheBank!Next]_(TheBank!vars)
  BY NextMaps DEF Mapped
<1> QED
  BY <1>1, <1>2, BankInductive, PTL DEF Spec, ImplementsBank, TheBank!Spec

\* what the transactions of S brought to and took from w
Total(S, w) == MapThenSumSet(LAMBDA t : Effect(t, w), S)

(***************************************************************************)
(* Sums over finite sets of transactions.                                  *)
(***************************************************************************)
\* f is the sum of every part of S, whatever the order of its elements
Sums(f, S, w) ==
    /\ f \in [SUBSET S -> Int]
    /\ f[{}] = 0
    /\ \A T \in SUBSET S : \A t \in T : f[T] = f[T \ {t}] + Effect(t, w)

\* f is the function the fold over S computes
Iterates(f, S, w) ==
    f = [T \in SUBSET S |->
            IF T = {} THEN 0
            ELSE LET t == CHOOSE x \in T : TRUE
                 IN  Effect(t, w) + f[T \ {t}]]

\* A transaction brings a wallet an integer.
LEMMA EffectType ==
    ASSUME NEW t \in TxRow, NEW w \in Wallets
    PROVE  Effect(t, w) \in Int
<1>1. Worth(t.currency) \in Nat /\ t.amount \in Nat
  BY WorthType DEF TxRow
<1>2. \A k \in Nat, n \in Nat : k * n \in Int
  OBVIOUS
<1>3. Worth(t.currency) * t.amount \in Int
  BY <1>1, <1>2
<1> QED
  BY <1>3 DEF Effect

\* Of some subsets of a finite set one is least.
LEMMA LeastSubset ==
    ASSUME NEW S, IsFiniteSet(S), NEW D \in SUBSET SUBSET S, D # {}
    PROVE  \E T \in D : \A U \in D : U \subseteq T => U = T
<1>1. IsWellFoundedOn(StrictSubsetOrdering(S), SUBSET S)
  BY FS_StrictSubsetOrderingWellFounded, FS_FiniteSubsetsOfFinite
<1>2. PICK T \in D : \A U \in D : <<U, T>> \notin StrictSubsetOrdering(S)
  BY <1>1, WFMin
<1>3. ASSUME NEW U \in D, U \subseteq T, U # T
      PROVE  FALSE
  <2>1. <<U, T>> \in (SUBSET S) \X (SUBSET S)
    OBVIOUS
  <2>2. <<U, T>> \in StrictSubsetOrdering(S)
    BY <1>3, <2>1 DEF StrictSubsetOrdering
  <2> QED
    BY <1>2, <2>2
<1> QED
  BY <1>3

\* Every finite set of transactions has a sum.
LEMMA SumExists ==
    ASSUME NEW S \in SUBSET TxRow, IsFiniteSet(S), NEW w \in Wallets
    PROVE  \E f : Sums(f, S, w)
<1> DEFINE D == {T \in SUBSET S : ~ \E f : Sums(f, T, w)}
<1>1. SUFFICES ASSUME D # {}
               PROVE  FALSE
  OBVIOUS
<1>2. PICK T \in D : \A U \in D : U \subseteq T => U = T
  <2>1. D \in SUBSET SUBSET S
    OBVIOUS
  <2> HIDE DEF D
  <2> QED
    BY <1>1, <2>1, LeastSubset
<1>3. T \in SUBSET S /\ T \subseteq TxRow
  OBVIOUS
<1>4. CASE T = {}
  <2> DEFINE f == [U \in SUBSET T |-> 0]
  <2>1. Sums(f, T, w)
    BY <1>4 DEF Sums
  <2> QED
    BY <1>2, <2>1
<1>5. ASSUME NEW x \in T
      PROVE  FALSE
  <2>1. T \ {x} \in SUBSET S /\ T \ {x} # T
    BY <1>3
  <2>2. PICK f : Sums(f, T \ {x}, w)
    BY <1>2, <2>1
  <2> DEFINE g == [U \in SUBSET T |->
                      f[U \ {x}] + (IF x \in U THEN Effect(x, w) ELSE 0)]
  <2>3. Effect(x, w) \in Int
    BY <1>3, EffectType
  <2>4. \A U \in SUBSET T : U \ {x} \in SUBSET (T \ {x}) /\ f[U \ {x}] \in Int
    BY <2>2 DEF Sums
  <2>5. g \in [SUBSET T -> Int]
    <3>1. ASSUME NEW U \in SUBSET T
          PROVE  f[U \ {x}] + (IF x \in U THEN Effect(x, w) ELSE 0) \in Int
      <4>1. f[U \ {x}] \in Int
        BY <2>4
      <4> QED
        BY <2>3, <4>1
    <3> QED
      BY <3>1
  <2>6. g[{}] = 0
    <3>1. {} \in SUBSET T /\ {} \ {x} = {}
      OBVIOUS
    <3> QED
      BY <2>2, <3>1 DEF Sums
  <2>7. ASSUME NEW U \in SUBSET T, NEW t \in U
        PROVE  g[U] = g[U \ {t}] + Effect(t, w)
    <3>1. /\ g[U] = f[U \ {x}] + (IF x \in U THEN Effect(x, w) ELSE 0)
          /\ g[U \ {t}] = f[(U \ {t}) \ {x}] + (IF x \in U \ {t} THEN Effect(x, w) ELSE 0)
      OBVIOUS
    <3> HIDE DEF g
    <3>2. CASE t = x
      <4>1. (U \ {t}) \ {x} = U \ {x} /\ x \in U /\ x \notin U \ {t}
        BY <3>2
      <4>2. f[U \ {x}] \in Int
        BY <2>4
      <4>3. g[U] = f[U \ {x}] + Effect(x, w) /\ g[U \ {t}] = f[U \ {x}] + 0
        BY <3>1, <4>1
      <4> QED
        BY <2>3, <3>2, <4>2, <4>3
    <3>3. CASE t # x
      <4>1. /\ (U \ {t}) \ {x} = (U \ {x}) \ {t}
            /\ t \in U \ {x} /\ U \ {x} \in SUBSET (T \ {x})
            /\ (x \in U <=> x \in U \ {t})
        BY <3>3
      <4>2. f[U \ {x}] = f[(U \ {x}) \ {t}] + Effect(t, w)
        BY <2>2, <4>1 DEF Sums
      <4>3. Effect(t, w) \in Int /\ f[(U \ {x}) \ {t}] \in Int
        <5>1. t \in TxRow /\ U \ {t} \in SUBSET T
          BY <1>3
        <5>2. f[(U \ {t}) \ {x}] \in Int
          BY <2>4, <5>1
        <5> QED
          BY <4>1, <5>1, <5>2, EffectType
      <4> DEFINE e == IF x \in U THEN Effect(x, w) ELSE 0
                 m == f[(U \ {x}) \ {t}]
      <4>4. e \in Int /\ g[U] = f[U \ {x}] + e /\ g[U \ {t}] = m + e
        BY <2>3, <3>1, <4>1
      <4> HIDE DEF e
      <4> QED
        BY <4>2, <4>3, <4>4
    <3> QED
      BY <3>2, <3>3
  <2>8. Sums(g, T, w)
    <3> HIDE DEF g
    <3> QED
      BY <2>5, <2>6, <2>7 DEF Sums
  <2> QED
    BY <1>2, <2>8
<1> QED
  BY <1>4, <1>5

\* The fold over the whole set is what some function of its kind yields.
LEMMA TotalUnfolds ==
    ASSUME NEW S, NEW w, NEW f, Iterates(f, S, w)
    PROVE  \E g : Iterates(g, S, w) /\ Total(S, w) = g[S]
<1> DEFINE g == CHOOSE h : Iterates(h, S, w)
<1>1. Total(S, w) = g[S]
  BY DEF Total, MapThenSumSet, MapThenFoldSet, Iterates
<1>2. Iterates(g, S, w)
  OBVIOUS
<1> QED
  BY <1>1, <1>2

\* The fold yields the sum.
LEMMA TotalIsSum ==
    ASSUME NEW S \in SUBSET TxRow, IsFiniteSet(S), NEW w \in Wallets,
           NEW f, Sums(f, S, w)
    PROVE  Total(S, w) = f[S]
<1>1. \A T \in SUBSET S : T # {} =>
         LET t == CHOOSE x \in T : TRUE IN
         /\ t \in T /\ t \in TxRow
         /\ T \ {t} \in SUBSET S /\ T \ {t} # T
         /\ Effect(t, w) \in Int /\ f[T \ {t}] \in Int
         /\ f[T] = Effect(t, w) + f[T \ {t}]
  <2> SUFFICES ASSUME NEW T \in SUBSET S, T # {},
                      NEW t, t = CHOOSE x \in T : TRUE
               PROVE  /\ t \in T /\ t \in TxRow
                      /\ T \ {t} \in SUBSET S /\ T \ {t} # T
                      /\ Effect(t, w) \in Int /\ f[T \ {t}] \in Int
                      /\ f[T] = Effect(t, w) + f[T \ {t}]
    OBVIOUS
  <2>1. t \in T /\ t \in TxRow /\ T \ {t} \in SUBSET S
    OBVIOUS
  <2>2. Effect(t, w) \in Int /\ f[T \ {t}] \in Int
    BY <2>1, EffectType DEF Sums
  <2>3. f[T] = f[T \ {t}] + Effect(t, w)
    BY <2>1 DEF Sums
  <2>4. f[T] = Effect(t, w) + f[T \ {t}]
    BY <2>2, <2>3
  <2> QED
    BY <2>1, <2>2, <2>4
<1>2. Iterates(f, S, w)
  <2>1. ASSUME NEW T \in SUBSET S
        PROVE  f[T] = IF T = {} THEN 0
                      ELSE LET t == CHOOSE x \in T : TRUE
                           IN  Effect(t, w) + f[T \ {t}]
    BY <1>1 DEF Sums
  <2> QED
    BY <2>1 DEF Iterates, Sums
<1>3. PICK g : Iterates(g, S, w) /\ Total(S, w) = g[S]
  BY <1>2, TotalUnfolds
<1>4. g = [T \in SUBSET S |->
              IF T = {} THEN 0
              ELSE LET t == CHOOSE x \in T : TRUE
                   IN  Effect(t, w) + g[T \ {t}]]
  BY <1>3 DEF Iterates
<1> DEFINE D == {T \in SUBSET S : g[T] # f[T]}
<1>5. ASSUME D # {}
      PROVE  FALSE
  <2>1. PICK T \in D : \A U \in D : U \subseteq T => U = T
    <3>1. D \in SUBSET SUBSET S
      OBVIOUS
    <3> HIDE DEF D
    <3> QED
      BY <1>5, <3>1, LeastSubset
  <2>2. CASE T = {}
    BY <1>4, <2>2 DEF Sums
  <2>3. CASE T # {}
    <3> DEFINE t == CHOOSE x \in T : TRUE
    <3>1. T \ {t} \in SUBSET S /\ T \ {t} # T /\ f[T] = Effect(t, w) + f[T \ {t}]
      BY <1>1, <2>3
    <3>2. g[T] = Effect(t, w) + g[T \ {t}]
      BY <1>4, <2>3
    <3>3. g[T \ {t}] = f[T \ {t}]
      BY <2>1, <3>1
    <3> QED
      BY <3>1, <3>2, <3>3
  <2> QED
    BY <2>2, <2>3
<1> QED
  BY <1>3, <1>5

\* No transactions bring nothing.
LEMMA TotalOfNone ==
    ASSUME NEW w \in Wallets
    PROVE  Total({}, w) = 0
<1>1. {} \in SUBSET TxRow /\ IsFiniteSet({})
  BY FS_EmptySet
<1>2. PICK f : Sums(f, {}, w)
  BY <1>1, SumExists
<1> QED
  BY <1>1, <1>2, TotalIsSum DEF Sums

\* A new transaction adds its effect, and only its effect, to the sum.
LEMMA TotalAdds ==
    ASSUME NEW S \in SUBSET TxRow, IsFiniteSet(S), NEW t \in TxRow, t \notin S,
           NEW w \in Wallets
    PROVE  /\ Total(S, w) \in Int
           /\ Total(S \cup {t}, w) = Total(S, w) + Effect(t, w)
<1> DEFINE T == S \cup {t}
<1>1. T \in SUBSET TxRow /\ IsFiniteSet(T) /\ S \in SUBSET T /\ T \ {t} = S
  BY FS_AddElement
<1> HIDE DEF T
<1>2. PICK f : Sums(f, T, w)
  BY <1>1, SumExists
<1> DEFINE g == [U \in SUBSET S |-> f[U]]
<1>3. Sums(g, S, w)
  BY <1>1, <1>2 DEF Sums
<1>4. Total(S, w) = f[S] /\ f[S] \in Int
  <2>1. g[S] = f[S]
    OBVIOUS
  <2> HIDE DEF g
  <2>2. Total(S, w) = g[S]
    BY <1>3, TotalIsSum
  <2> QED
    BY <1>1, <1>2, <2>1, <2>2 DEF Sums
<1>5. Total(T, w) = f[T] /\ f[T] = f[S] + Effect(t, w)
  <2>1. t \in T
    BY DEF T
  <2> QED
    BY <1>1, <1>2, <2>1, TotalIsSum DEF Sums
<1> QED
  BY <1>4, <1>5 DEF T

(***************************************************************************)
(* The theorems.                                                           *)
(***************************************************************************)
\* The table is finite and explains the balances.
LedgerInv ==
    /\ IsFiniteSet(transactions)
    /\ \A w \in Wallets : Value(rows[w]) = Value(Seed[w]) + Total(transactions, w)

LEMMA LedgerInitial == Init => LedgerInv
<1> SUFFICES ASSUME Init
             PROVE  LedgerInv
  OBVIOUS
<1>1. ASSUME NEW w \in Wallets
      PROVE  Value(rows[w]) = Value(Seed[w]) + Total({}, w)
  <2>1. rows[w] = Seed[w] /\ Value(Seed[w]) \in Int
    BY ServiceAssumption, ValueType DEF Init
  <2> QED
    BY <2>1, TotalOfNone
<1>2. transactions = {} /\ IsFiniteSet({})
  BY FS_EmptySet DEF Init
<1> QED
  BY <1>1, <1>2 DEF LedgerInv

LEMMA LedgerStep ==
    ASSUME IInv, AnswersInv, BankInv, LedgerInv, [Next]_vars
    PROVE  LedgerInv'
<1>1. CASE Quiet
  BY <1>1 DEF Quiet, LedgerInv
<1>2. ASSUME NEW p \in Requests, Books(p)
      PROVE  LedgerInv'
  <2> DEFINE t == TxRecord(p)
  <2>1. /\ t \in TxRow \ transactions /\ transactions \in SUBSET TxRow
        /\ IsFiniteSet(transactions) /\ transactions' = transactions \cup {t}
    BY <1>2 DEF Books, LedgerInv, IInv, TypeOK, StoreTypeOK
  <2>2. ASSUME NEW w \in Wallets
        PROVE  Value(rows'[w]) = Value(Seed[w]) + Total(transactions', w)
    <3> HIDE DEF t
    <3>1. /\ Total(transactions, w) \in Int
          /\ Total(transactions', w) = Total(transactions, w) + Effect(t, w)
      BY <2>1, TotalAdds
    <3>2. Value(rows'[w]) = Value(rows[w]) + Effect(t, w)
      BY <1>2 DEF Books, t
    <3>3. Value(Seed[w]) \in Int /\ Effect(t, w) \in Int
      BY <2>1, ServiceAssumption, ValueType, EffectType
    <3> QED
      BY <3>1, <3>2, <3>3 DEF LedgerInv
  <2>3. IsFiniteSet(transactions')
    BY <2>1, FS_AddElement
  <2> QED
    BY <2>2, <2>3 DEF LedgerInv
<1> QED
  BY <1>1, <1>2, StepBooks

\* At every moment each wallet is worth what it was worth at the start plus
\* what the rows of table transactions say was brought to it and taken from
\* it: no interleaving of requests, failures, crashes and archiving loses,
\* doubles or halves a movement of money, or moves money without a row.
THEOREM LedgerIsComplete ==
    ASSUME Orderly, Exact
    PROVE  Spec => []LedgerExplainsBalance
<1>1. Init => LedgerInv
  BY LedgerInitial
<1>2. IInv /\ AnswersInv /\ BankInv /\ LedgerInv /\ [Next]_vars => LedgerInv'
  BY LedgerStep
<1>3. LedgerInv => LedgerExplainsBalance
  BY DEF LedgerInv, LedgerExplainsBalance, Total
<1> QED
  BY <1>1, <1>2, <1>3, BankInductive, PTL DEF Spec

\* A step that enters no transaction leaves every wallet what it is worth:
\* the exchange of an update takes and adds nothing.
THEOREM UpdatesKeepValue ==
    ASSUME Orderly, Exact
    PROVE  Spec => CurrencyChangeKeepsValue
<1>1. IInv /\ AnswersInv /\ BankInv /\ [Next]_vars =>
         [\A w \in Wallets :
             rows[w] # Null /\ transactions' = transactions
                 => Value(rows'[w]) = Value(rows[w])]_vars
  <2> SUFFICES ASSUME IInv, AnswersInv, BankInv, [Next]_vars,
                      transactions' = transactions, NEW w \in Wallets
               PROVE  Value(rows'[w]) = Value(rows[w])
    OBVIOUS
  <2>1. Quiet
    BY StepBooks DEF Books
  <2> QED
    BY <2>1 DEF Quiet
<1> QED
  BY <1>1, BankInductive, PTL DEF Spec, CurrencyChangeKeepsValue
=============================================================================
