------------------------ MODULE WalletServiceProofs -------------------------
(***************************************************************************)
(* The safety invariants of WalletService, proved for every instance.      *)
(***************************************************************************)
EXTENDS WalletService, TLAPS

(***************************************************************************)
(* The inductive invariant.                                                *)
(***************************************************************************)
StagesOf(op) ==
    CASE op = "create" -> {"insert", "verify"}
      [] op = "update" -> {"read", "quote", "write", "commit"}
      [] op = "delete" -> {"read", "remove"}
      [] op = "transfer" -> {"read", "readTo", "quote", "write", "credit",
                             "publish", "commit"}
      [] OTHER -> {"read", "quote", "write", "publish", "commit"}

\* A handler at work has a decoded request, which passed validation, and is
\* at a stage of its operation.
StagesOK ==
    \A p \in Requests :
        /\ pc[p] # "idle" => call[p] \in Bodies
        /\ Busy(p) => pc[p] \in StagesOf(call[p].op)
        /\ Busy(p) /\ call[p].op \in MoneyOps => ValidTransaction(call[p])

\* the archiving statement knows which row it is at, and belongs to a tick
ArchiveOK ==
    /\ arch.pc = "update" => arch.at \in Wallets
    /\ arch.pc # "idle" => arch.rounds # 0

\* what every version of a wallet satisfies
Sound(r) ==
    /\ r.balance >= 0
    /\ ~r.active /\ ~r.deleted => r.balance = 0
    /\ r.deleted => ~r.active

VersionsOK ==
    \A w \in Wallets :
        /\ rows[w] # Null => Sound(rows[w])
        /\ latest[w] # Null => Sound(latest[w])

\* no transaction has written a wallet that is deleted
DeletedUntouched ==
    \A w \in Wallets : rows[w] # Null /\ rows[w].deleted => latest[w] = rows[w]

\* a transaction about to commit has been sent
AnnouncedFirst ==
    \A p \in Requests :
        pc[p] = "commit" /\ call[p].op \in MoneyOps => p \in announced

IInv == /\ TypeOK
        /\ StagesOK
        /\ ArchiveOK
        /\ VersionsOK
        /\ DeletedUntouched
        /\ WritersHoldTheirRows
        /\ AnnouncedFirst
        /\ CommittedIsAnnounced

(***************************************************************************)
(* Facts about requests, rates and rows.                                   *)
(***************************************************************************)
\* A decoded body has the fields of its operation.
LEMMA BodyShape ==
    ASSUME NEW b \in Bodies
    PROVE  /\ b.op \in MoneyOps \cup WalletOps
           /\ b.op \in MoneyOps => b \in MoneyBody
           /\ b.op \in WalletOps => b \in WalletBody
           /\ b.user \in Users /\ b.currency \in Spellings
  BY ServiceAssumption DEF MoneyBody, WalletBody, MoneyOps, WalletOps

\* A rate is a fraction of positive numbers (xrgrpcserver.GetRate).
LEMMA RateType ==
    ASSUME NEW c \in Spellings, NEW d \in Spellings, NEW same \in BOOLEAN
    PROVE  RateFor(same, c, d) \in Rates
<1>1. Worth(c) \in Nat \ {0} /\ Worth(d) \in Nat \ {0}
  BY CurrencyAssumption DEF Worth
<1> QED
  BY <1>1 DEF RateFor, Rates, DefaultRate, GetRate

\* Converting keeps a natural number natural, and zero zero.
LEMMA ConvertType ==
    ASSUME NEW n \in Nat, NEW r \in Rates
    PROVE  /\ Convert(n, r) \in Nat
           /\ n = 0 => Convert(n, r) = 0
<1>1. n * r.num \in Nat /\ (n = 0 => n * r.num = 0)
  BY DEF Rates
<1>2. r.den \in Nat /\ r.den > 0
  BY DEF Rates
<1>3. \A m \in Nat, d \in Nat : d > 0 => m \div d \in Nat /\ (m = 0 => m \div d = 0)
  OBVIOUS
<1> QED
  BY <1>1, <1>2, <1>3 DEF Convert

\* The cleared result of the reads has the type of a result.
LEMMA NoViewType ==
    [first |-> NoView, second |-> NoView] \in [first : Views, second : Views]
<1>1. "" \in Spellings
  BY ServiceAssumption
<1>2. NoView \in Views
  <2>1. 0 \in Int
    OBVIOUS
  <2> QED
    BY <1>1, <2>1, Zenon DEF NoView, Views
<1> QED
  BY <1>2, Zenon

\* The statement a handler runs next names a wallet id.
LEMMA TargetType ==
    ASSUME TypeOK, StagesOK, NEW p \in Requests,
           pc[p] \in {"verify", "read", "readTo", "write", "credit", "remove"}
    PROVE  Target(p) \in Wallets
<1> DEFINE b == call[p]
<1>1. b \in Bodies /\ pc[p] \in StagesOf(b.op)
  BY DEF StagesOK, Busy
<1>2. /\ b.op \in MoneyOps \cup WalletOps
      /\ b.op \in MoneyOps => b \in MoneyBody /\ ValidTransaction(b)
      /\ b.op \in WalletOps => b \in WalletBody
  BY <1>1, BodyShape DEF StagesOK, Busy
<1>3. CASE b.op \in WalletOps
  BY <1>1, <1>2, <1>3 DEF Target, WalletBody, WalletOps, StagesOf
<1>4. CASE b.op \in MoneyOps
  <2>1. b.op = "transfer" => b.to \in Wallets /\ b.from \in Wallets
    BY <1>2, <1>4 DEF MoneyBody, ValidTransaction, MoneyOps
  <2>2. b.op = "deposit" => b.to \in Wallets
    BY <1>2, <1>4 DEF MoneyBody, ValidTransaction, MoneyOps
  <2>3. b.op = "withdraw" => b.from \in Wallets /\ pc[p] \notin {"readTo", "credit"}
    BY <1>1, <1>2, <1>4 DEF MoneyBody, ValidTransaction, MoneyOps, StagesOf
  <2> QED
    BY <1>4, <2>1, <2>2, <2>3 DEF Target, MoneyOps, WalletOps
<1> QED
  BY <1>2, <1>3, <1>4

\* Every version a statement can see is a row, and sound.
LEMMA VisibleSound ==
    ASSUME TypeOK, VersionsOK, NEW p, NEW w \in Wallets
    PROVE  /\ Visible(p, w) \in Row \cup {Null}
           /\ Visible(p, w) # Null => Sound(Visible(p, w))
  BY DEF TypeOK, StoreTypeOK, VersionsOK, Visible

\* A row a WHERE clause selects exists, belongs to the user and is not
\* deleted, though some clauses only ask for active = true.
LEMMA MatchesLive ==
    ASSUME NEW p, NEW r, r # Null => Sound(r), Matches(p, r)
    PROVE  /\ r # Null
           /\ r.owner = call[p].user
           /\ r.deleted \in BOOLEAN => ~r.deleted
  BY DEF Matches, Present, Spendable, Removable, Sound

\* The versions the UPDATEs write, from a sound row that is not deleted.
LEMMA CreditedSound ==
    ASSUME NEW r \in Row, Sound(r), r.active, NEW m \in Nat
    PROVE  Credited(r, m) \in Row /\ Sound(Credited(r, m))
<1> DEFINE x == Credited(r, m)
           n == r.balance + m
<1>1. n \in Int /\ n >= 0 /\ r.currency \in Spellings
  BY DEF Row, Sound
<1>2. x = [r EXCEPT !.balance = n, !.stale = FALSE]
  BY DEF Credited
<1> HIDE DEF n, x
<1>3. x \in Row /\ x.balance = n /\ x.active = r.active /\ x.deleted = r.deleted
  BY <1>1, <1>2 DEF Row
<1>4. x \in Row /\ Sound(x)
  BY <1>1, <1>3 DEF Sound
<1> QED
  BY <1>4 DEF x

\* A debit that passes the constraint leaves a sound row.
LEMMA DebitedSound ==
    ASSUME NEW r \in Row, Sound(r), r.active, NEW m \in Nat,
           CheckHolds(Debited(r, m))
    PROVE  Debited(r, m) \in Row /\ Sound(Debited(r, m))
<1> DEFINE x == Debited(r, m)
           n == r.balance - m
<1>1. n \in Int /\ r.currency \in Spellings /\ x.balance >= 0
  BY DEF Row, CheckHolds
<1>2. x = [r EXCEPT !.balance = n, !.stale = FALSE]
  BY DEF Debited
<1> HIDE DEF n, x
<1>3. x \in Row /\ x.balance = n /\ x.active = r.active /\ x.deleted = r.deleted
  BY <1>1, <1>2 DEF Row
<1>4. x \in Row /\ Sound(x)
  BY <1>1, <1>3 DEF Sound
<1> QED
  BY <1>4 DEF x

\* A currency change leaves a sound row: what was empty stays empty.
LEMMA ConvertedSound ==
    ASSUME NEW r \in Row, Sound(r), ~r.deleted,
           NEW c \in Spellings, NEW rt \in Rates
    PROVE  Converted(r, c, rt) \in Row /\ Sound(Converted(r, c, rt))
<1> DEFINE x == Converted(r, c, rt)
           n == Convert(r.balance, rt)
           u == Upper[c]
<1>1. u \in Spellings
  BY CurrencyAssumption
<1>2. n \in Nat /\ (r.balance = 0 => n = 0)
  <2>1. r.balance \in Nat
    BY DEF Row, Sound
  <2> QED
    BY <2>1, ConvertType
<1>3. x = [r EXCEPT !.currency = u, !.balance = n, !.stale = FALSE]
  BY DEF Converted
<1> HIDE DEF n, u, x
<1>4. n \in Int /\ n >= 0
  BY <1>2
<1>5. x \in Row
  BY <1>1, <1>3, <1>4 DEF Row
<1>6. x.balance = n /\ x.active = r.active /\ x.deleted = r.deleted
  BY <1>3 DEF Row
<1>7. x \in Row /\ Sound(x)
  BY <1>2, <1>4, <1>5, <1>6 DEF Sound
<1> QED
  BY <1>7 DEF x

(***************************************************************************)
(* Steps of a handler that keep the invariant whatever the operation.      *)
(***************************************************************************)
\* A rollback: the versions p wrote are dropped and its locks are free.
LEMMA AbortKeeps ==
    ASSUME IInv, NEW p \in Requests, NEW e \in Outcomes, Busy(p), Abort(p, e),
           announced \subseteq announced', announced' \subseteq Requests
    PROVE  IInv'
<1> USE StoreAssumption DEF Abort, Finish, Discard, IInv
<1>1. TypeOK'
  <2>1. StoreTypeOK'
    BY DEF TypeOK, StoreTypeOK, Procs, Release
  <2>2. pc' \in [Requests -> Stages] /\ outcome' \in [Requests -> Outcomes]
    BY DEF TypeOK, Stages
  <2>3. seen' \in [Requests -> [first : Views, second : Views]]
    BY NoViewType DEF TypeOK
  <2>4. rate' \in [Requests -> Rates]
    BY DEF TypeOK, Rates, DefaultRate
  <2> QED
    BY <2>1, <2>2, <2>3, <2>4 DEF TypeOK
<1>2. StagesOK'
  BY DEF StagesOK, Busy, TypeOK
<1>3. ArchiveOK'
  BY DEF ArchiveOK
<1>4. VersionsOK' /\ DeletedUntouched'
  BY DEF VersionsOK, DeletedUntouched
<1>5. WritersHoldTheirRows'
  BY DEF WritersHoldTheirRows, Release, TypeOK
<1>6. AnnouncedFirst' /\ CommittedIsAnnounced'
  BY DEF AnnouncedFirst, CommittedIsAnnounced, TypeOK
<1> QED
  BY <1>1, <1>2, <1>3, <1>4, <1>5, <1>6

\* A step that writes nothing: the handler goes on to stage s with what it
\* has read, with a rate, or with its message sent.
LEMMA GotoKeeps ==
    ASSUME IInv, NEW p \in Requests, NEW s \in Stages \ {"idle", "done"},
           Busy(p), Goto(p, s), s \in StagesOf(call[p].op),
           UNCHANGED <<rows, latest, lock, transactions, call, applied, arch>>,
           pc[p] \in {"credit", "publish", "commit"} =>
               s \in {"credit", "publish", "commit"},
           announced \subseteq announced', announced' \subseteq Requests,
           s = "commit" => p \in announced',
           seen' \in [Requests -> [first : Views, second : Views]],
           rate' \in [Requests -> Rates]
    PROVE  IInv'
<1> USE DEF Goto, IInv
<1>1. TypeOK'
  BY DEF TypeOK, StoreTypeOK
<1>2. StagesOK'
  BY DEF StagesOK, Busy, TypeOK
<1>3. ArchiveOK' /\ VersionsOK' /\ DeletedUntouched'
  BY DEF ArchiveOK, VersionsOK, DeletedUntouched
<1>4. WritersHoldTheirRows'
  BY DEF WritersHoldTheirRows, TypeOK
<1>5. AnnouncedFirst' /\ CommittedIsAnnounced'
  BY DEF AnnouncedFirst, CommittedIsAnnounced, TypeOK
<1> QED
  BY <1>1, <1>2, <1>3, <1>4, <1>5

\* A handler that returns without a transaction open: a creation that has
\* verified, a deletion, an insertion that is turned down.  Its statement
\* replaced the version of one wallet.
LEMMA PoolKeeps ==
    ASSUME IInv, NEW p \in Requests, Busy(p),
           call[p].op \in {"create", "delete"},
           NEW w \in Wallets, NEW r \in Row, Sound(r), WriteThrough(w, r),
           \/ Goto(p, "verify") /\ call[p].op = "create" /\ UNCHANGED <<call, seen, rate>>
           \/ \E e \in Outcomes : Finish(p, e),
           applied' = applied \cup {p},
           UNCHANGED <<lock, transactions, announced, arch>>
    PROVE  IInv'
<1> USE StoreAssumption DEF IInv
<1>1. PICK s \in {"verify", "done"} :
         pc' = [pc EXCEPT ![p] = s] /\ (s = "verify" => call[p].op = "create")
  BY DEF Goto, Finish
<1>2. /\ call' = call
      /\ outcome' \in [Requests -> Outcomes]
      /\ seen' \in [Requests -> [first : Views, second : Views]]
      /\ rate' \in [Requests -> Rates]
  <2>1. CASE Goto(p, "verify") /\ UNCHANGED <<call, seen, rate>>
    BY <2>1 DEF Goto, TypeOK
  <2>2. ASSUME NEW e \in Outcomes, Finish(p, e)
        PROVE  /\ call' = call
               /\ outcome' \in [Requests -> Outcomes]
               /\ seen' \in [Requests -> [first : Views, second : Views]]
               /\ rate' \in [Requests -> Rates]
    BY <2>2, NoViewType DEF Finish, TypeOK, Rates, DefaultRate
  <2> QED
    BY <2>1, <2>2
<1>3. TypeOK'
  <2>1. StoreTypeOK'
    BY DEF WriteThrough, TypeOK, StoreTypeOK
  <2>2. pc' \in [Requests -> Stages]
    BY <1>1 DEF TypeOK, Stages
  <2> QED
    BY <1>2, <2>1, <2>2 DEF TypeOK
<1>4. StagesOK'
  BY <1>1, <1>2 DEF StagesOK, StagesOf, Busy, TypeOK, MoneyOps
<1>5. ArchiveOK'
  BY DEF ArchiveOK
<1>6. VersionsOK' /\ DeletedUntouched'
  BY DEF WriteThrough, VersionsOK, DeletedUntouched, TypeOK, StoreTypeOK
<1>7. WritersHoldTheirRows'
  <2>1. pc[p] \notin {"credit", "publish", "commit"}
    BY DEF StagesOK, StagesOf
  <2> QED
    BY <1>1, <2>1 DEF WriteThrough, WritersHoldTheirRows, TypeOK, StoreTypeOK
<1>8. AnnouncedFirst' /\ CommittedIsAnnounced'
  BY <1>1, <1>2 DEF AnnouncedFirst, CommittedIsAnnounced, TypeOK
<1> QED
  BY <1>3, <1>4, <1>5, <1>6, <1>7, <1>8

\* The same handlers when their statement changed nothing.
LEMMA ReturnKeeps ==
    ASSUME IInv, NEW p \in Requests, NEW e \in Outcomes, Busy(p),
           call[p].op \in {"create", "delete"}, Finish(p, e),
           UNCHANGED <<rows, latest, lock, transactions, announced, applied, arch>>
    PROVE  IInv'
<1> USE DEF Finish, IInv
<1>1. TypeOK'
  <2>1. pc' \in [Requests -> Stages] /\ outcome' \in [Requests -> Outcomes]
    BY DEF TypeOK, Stages
  <2>2. seen' \in [Requests -> [first : Views, second : Views]]
    BY NoViewType DEF TypeOK
  <2>3. rate' \in [Requests -> Rates]
    BY DEF TypeOK, Rates, DefaultRate
  <2> QED
    BY <2>1, <2>2, <2>3 DEF TypeOK, StoreTypeOK
<1>2. StagesOK'
  BY DEF StagesOK, Busy, TypeOK
<1>3. ArchiveOK' /\ VersionsOK' /\ DeletedUntouched'
  BY DEF ArchiveOK, VersionsOK, DeletedUntouched
<1>4. WritersHoldTheirRows'
  <2>1. pc[p] \notin {"credit", "publish", "commit"}
    BY DEF StagesOK, StagesOf
  <2> QED
    BY <2>1 DEF WritersHoldTheirRows, TypeOK
<1>5. AnnouncedFirst' /\ CommittedIsAnnounced'
  BY DEF AnnouncedFirst, CommittedIsAnnounced, TypeOK
<1> QED
  BY <1>1, <1>2, <1>3, <1>4, <1>5

\* An UPDATE inside a transaction that leads to stage s: the row it finds is
\* not deleted, and the version it writes is sound.
LEMMA UpdateKeeps ==
    ASSUME IInv, NEW p \in Requests, NEW r, NEW s,
           pc[p] \in {"write", "credit"}, Update(p, r, s),
           s \in {"credit", "publish", "commit"}, s \in StagesOf(call[p].op),
           s = "commit" => call[p].op \notin MoneyOps,
           Hits(p) /\ CheckHolds(r) => r \in Row /\ Sound(r)
    PROVE  IInv'
<1> USE StoreAssumption
<1>1. CASE \E e \in {"walletNotFound", "balanceCheck"} : Abort(p, e)
  BY <1>1, AbortKeeps DEF Update, Busy, Outcomes, IInv, TypeOK
<1>2. CASE /\ Hits(p) /\ CheckHolds(r) /\ ~Waits(p)
           /\ Write(p, Target(p), r) /\ Goto(p, s)
           /\ UNCHANGED <<rows, transactions, call, seen, rate, applied, arch>>
           /\ UNCHANGED announced
  <2> DEFINE w == Target(p)
  <2>1. w \in Wallets
    BY TargetType DEF IInv
  <2>2. lock[w] \in {Free, p}
    BY <1>2 DEF Waits
  <2>3. rows[w] # Null => ~rows[w].deleted
    <3>1. Visible(p, w) # Null /\ ~Visible(p, w).deleted
      BY <1>2, <2>1, VisibleSound, MatchesLive DEF Hits, IInv, Row
    <3> QED
      BY <2>1, <3>1 DEF Visible, IInv, DeletedUntouched
  <2> USE <1>2, <2>1, <2>2 DEF Write, Goto, IInv
  <2>4. TypeOK'
    BY DEF TypeOK, StoreTypeOK, Procs, Stages
  <2>5. StagesOK'
    BY DEF StagesOK, Busy, TypeOK
  <2>6. ArchiveOK' /\ VersionsOK'
    BY DEF ArchiveOK, VersionsOK, TypeOK, StoreTypeOK
  <2>7. DeletedUntouched'
    BY <2>3 DEF DeletedUntouched, TypeOK, StoreTypeOK
  <2>8. WritersHoldTheirRows'
    BY DEF WritersHoldTheirRows, TypeOK, StoreTypeOK
  <2>9. AnnouncedFirst' /\ CommittedIsAnnounced'
    BY DEF AnnouncedFirst, CommittedIsAnnounced, TypeOK
  <2> QED
    BY <2>4, <2>5, <2>6, <2>7, <2>8, <2>9
<1> QED
  BY <1>1, <1>2 DEF Update

(***************************************************************************)
(* The steps of a handler, one by one.                                     *)
(***************************************************************************)
\* Before its first write a handler sees only committed versions.
LEMMA ReadsCommitted ==
    ASSUME IInv, NEW p \in Requests, pc[p] \notin {"credit", "publish", "commit"},
           NEW w \in Wallets
    PROVE  Visible(p, w) = rows[w]
  BY StoreAssumption DEF IInv, WritersHoldTheirRows, Visible

\* The INSERT writes a sound version or none.
LEMMA InsertKeeps ==
    ASSUME IInv, NEW p \in Requests, NEW ack \in BOOLEAN, Insert(p, ack)
    PROVE  IInv'
<1>1. Busy(p) /\ call[p].op = "create" /\ call[p] \in Bodies
  BY BodyShape DEF Insert, IInv, StagesOK, StagesOf, Busy, MoneyOps, WalletOps
<1>2. call[p].wallet \in Wallets /\ call[p].user \in Users /\ call[p].currency \in Spellings
  BY <1>1, BodyShape DEF WalletBody, WalletOps
<1>3. CASE call[p].user \in KnownUsers /\ rows[call[p].wallet] = Null
  <2> DEFINE r == NewWallet(call[p].user, call[p].currency)
  <2>1. r \in Row /\ Sound(r)
    BY <1>2 DEF NewWallet, Row, Sound
  <2>2. /\ WriteThrough(call[p].wallet, r)
        /\ applied' = applied \cup {p}
        /\ UNCHANGED <<lock, transactions, announced, arch>>
    BY <1>3 DEF Insert
  <2>3. \/ Goto(p, "verify") /\ UNCHANGED <<call, seen, rate>>
        \/ \E e \in Outcomes : Finish(p, e)
    BY <1>3 DEF Insert, Outcomes
  <2> QED
    BY <1>1, <1>2, <2>1, <2>2, <2>3, PoolKeeps
<1>4. CASE ~(call[p].user \in KnownUsers /\ rows[call[p].wallet] = Null)
  <2>1. PICK e \in Outcomes : Finish(p, e)
    BY <1>4 DEF Insert, Outcomes
  <2> QED
    BY <1>1, <1>4, <2>1, ReturnKeeps DEF Insert
<1> QED
  BY <1>3, <1>4

\* Reading a new wallet back changes nothing.
LEMMA VerifyKeeps ==
    ASSUME IInv, NEW p \in Requests, Verify(p)
    PROVE  IInv'
<1>1. Busy(p) /\ call[p].op = "create"
  BY BodyShape DEF Verify, IInv, StagesOK, StagesOf, Busy, MoneyOps, WalletOps
<1> QED
  BY <1>1, ReturnKeeps DEF Verify, Outcomes

\* A deletion writes a sound version of the wallet it found, or none.
LEMMA RemoveKeeps ==
    ASSUME IInv, NEW p \in Requests, NEW ack \in BOOLEAN, Remove(p, ack)
    PROVE  IInv'
<1> DEFINE w == Target(p)
<1>1. Busy(p) /\ call[p].op = "delete"
  BY BodyShape DEF Remove, IInv, StagesOK, StagesOf, Busy, MoneyOps, WalletOps
<1>2. w \in Wallets
  BY TargetType DEF Remove, IInv
<1>3. PICK e \in Outcomes : Finish(p, e)
  BY DEF Remove, Outcomes
<1>4. CASE Hits(p)
  <2>1. rows[w] \in Row /\ Sound(rows[w])
    <3>1. rows[w] # Null
      BY <1>2, <1>4, ReadsCommitted DEF Remove, Hits, Matches, Removable, Present
    <3> QED
      BY <1>2, <3>1 DEF IInv, TypeOK, StoreTypeOK, VersionsOK
  <2>2. Removed(rows[w]) \in Row /\ Sound(Removed(rows[w]))
    BY <2>1 DEF Removed, Sound, Row
  <2> QED
    BY <1>1, <1>2, <1>3, <1>4, <2>2, PoolKeeps DEF Remove
<1>5. CASE ~Hits(p)
  BY <1>1, <1>3, <1>5, ReturnKeeps DEF Remove
<1> QED
  BY <1>4, <1>5

\* A read copies a committed row into the request's own variables.
LEMMA ReadKeeps ==
    ASSUME IInv, NEW p \in Requests, ReadWallet(p) \/ ReadTarget(p)
    PROVE  IInv'
<1> DEFINE w == Target(p)
<1>1. Busy(p) /\ w \in Wallets /\ pc[p] \in {"read", "readTo"}
  BY TargetType DEF ReadWallet, ReadTarget, Busy, IInv
<1>2. CASE \E e \in {"walletNotFound", "nonZeroBalance"} : Abort(p, e)
  <2>1. UNCHANGED announced /\ announced \subseteq Requests
    BY DEF ReadWallet, ReadTarget, IInv, TypeOK
  <2> QED
    BY <1>1, <1>2, <2>1, AbortKeeps DEF Outcomes
<1>3. ASSUME Hits(p), NEW s,
             pc[p] = "read" => s = AfterRead(p),
             pc[p] = "readTo" => s = "quote",
             Goto(p, s),
             seen' \in {[seen EXCEPT ![p].first = View(rows[w])],
                        [seen EXCEPT ![p].second = View(rows[w])]},
             UNCHANGED <<rows, latest, lock, transactions, call, rate, applied,
                         arch, announced>>
      PROVE  IInv'
  <2>1. View(rows[w]) \in Views
    <3>1. rows[w] \in Row
      BY <1>1, <1>3, ReadsCommitted, VisibleSound, MatchesLive DEF IInv, Hits
    <3> QED
      BY <3>1 DEF View, Views, Row
  <2>2. seen' \in [Requests -> [first : Views, second : Views]]
    <3>1. seen \in [Requests -> [first : Views, second : Views]]
      BY DEF IInv, TypeOK
    <3>2. CASE seen' = [seen EXCEPT ![p].first = View(rows[w])]
      BY <2>1, <3>1, <3>2
    <3>3. CASE seen' = [seen EXCEPT ![p].second = View(rows[w])]
      BY <2>1, <3>1, <3>3
    <3> QED
      BY <1>3, <3>2, <3>3
  <2>3. s \in StagesOf(call[p].op) /\ s \in Stages \ {"idle", "done"} /\ s # "commit"
    BY <1>1, <1>3 DEF IInv, StagesOK, StagesOf, AfterRead, Stages
  <2> QED
    BY <1>1, <1>3, <2>2, <2>3, GotoKeeps DEF IInv, TypeOK
<1> QED
  BY <1>1, <1>2, <1>3 DEF ReadWallet, ReadTarget

\* A decision about rate and funds touches no table.
LEMMA QuoteKeeps ==
    ASSUME IInv, NEW p \in Requests, pc[p] = "quote",
           NEW same \in BOOLEAN, NEW c \in Spellings, NEW d \in Spellings,
           NEW enough, Quote(p, same, c, d, enough), UNCHANGED announced
    PROVE  IInv'
<1>1. Busy(p) /\ announced \subseteq Requests
  BY DEF Busy, IInv, TypeOK
<1>2. CASE \E e \in {"wrongCurrency", "insufficientFunds"} : Abort(p, e)
  BY <1>1, <1>2, AbortKeeps DEF Outcomes
<1>3. CASE /\ rate' = [rate EXCEPT ![p] = RateFor(same, c, d)]
           /\ Goto(p, "write")
           /\ UNCHANGED <<rows, latest, lock, transactions, call, seen,
                          applied, arch>>
  <2>1. rate' \in [Requests -> Rates]
    BY <1>3, RateType DEF IInv, TypeOK
  <2>2. "write" \in StagesOf(call[p].op)
    BY <1>1 DEF IInv, StagesOK, StagesOf
  <2> QED
    BY <1>1, <1>3, <2>1, <2>2, GotoKeeps DEF Stages, IInv, TypeOK
<1> QED
  BY <1>2, <1>3 DEF Quote

\* The currency an update sets is one that occurs.
LEMMA NewCurrencyType ==
    ASSUME IInv, NEW p \in Requests, Busy(p)
    PROVE  NewCurrency(p) \in Spellings /\ seen[p].first.currency \in Spellings
  BY BodyShape DEF NewCurrency, IInv, TypeOK, StagesOK, Busy, Views

\* Each operation makes that decision about currencies that occur.
LEMMA QuotesKeep ==
    ASSUME IInv, NEW p \in Requests,
           \/ QuoteUpdate(p) \/ QuoteDeposit(p)
           \/ QuoteWithdraw(p) \/ QuoteTransfer(p)
    PROVE  IInv'
<1> DEFINE c == call[p].currency
           d == seen[p].first.currency
           e == seen[p].second.currency
<1>1. pc[p] = "quote" /\ Busy(p) /\ UNCHANGED announced
  BY DEF QuoteUpdate, QuoteDeposit, QuoteWithdraw, QuoteTransfer, Busy
<1>2. c \in Spellings /\ d \in Spellings /\ e \in Spellings
  BY <1>1, BodyShape DEF IInv, TypeOK, StagesOK, Busy, Views
<1>3. CASE QuoteUpdate(p)
  BY <1>1, <1>2, <1>3, NewCurrencyType, QuoteKeeps DEF QuoteUpdate
<1>4. CASE QuoteDeposit(p)
  BY <1>1, <1>2, <1>4, QuoteKeeps DEF QuoteDeposit, EqualFold
<1>5. CASE QuoteWithdraw(p)
  BY <1>1, <1>2, <1>5, QuoteKeeps DEF QuoteWithdraw, EqualFold
<1>6. CASE QuoteTransfer(p)
  <2>1. CASE Abort(p, "wrongCurrency")
    BY <1>1, <2>1, AbortKeeps DEF Outcomes, IInv, TypeOK
  <2>2. CASE \E enough : Quote(p, d = e, d, e, enough)
    BY <1>1, <1>2, <2>2, QuoteKeeps
  <2> QED
    BY <1>6, <2>1, <2>2 DEF QuoteTransfer
<1> QED
  BY <1>3, <1>4, <1>5, <1>6

\* The rows a transaction writes are sound when those it finds are, keep their
\* owner and stay in use or out of use; and where each operation goes on.
Writes(p, r, s) ==
    /\ pc[p] \in {"write", "credit"} /\ Update(p, r, s)
    /\ s \in {"credit", "publish", "commit"} /\ s \in StagesOf(call[p].op)
    /\ s = "commit" => call[p].op \notin MoneyOps
    /\ s = "publish" => pc[p] = "credit" \/ call[p].op \in {"deposit", "withdraw"}
    /\ s = "credit" => pc[p] = "write"
    /\ Hits(p) /\ CheckHolds(r) =>
         /\ r \in Row /\ Sound(r)
         /\ r.owner = Newest(p).owner /\ r.active = Newest(p).active
         /\ r.deleted = Newest(p).deleted
         /\ call[p].op # "update" => r.currency = Newest(p).currency

LEMMA StoreShape ==
    ASSUME IInv, NEW p \in Requests,
           \/ StoreUpdate(p) \/ StoreDeposit(p) \/ StoreWithdraw(p)
           \/ StoreDebit(p) \/ StoreCredit(p)
    PROVE  \E r, s : Writes(p, r, s)
<1> DEFINE n == Newest(p)
           b == call[p]
           amount == Convert(b.amount, rate[p])
<1>1. pc[p] \in {"write", "credit"} /\ Busy(p)
  BY DEF StoreUpdate, StoreDeposit, StoreWithdraw, StoreDebit, StoreCredit, Busy
<1>2. /\ b \in Bodies /\ pc[p] \in StagesOf(b.op) /\ rate[p] \in Rates
      /\ b.op \in MoneyOps => b.amount \in Nat \ {0}
  <2>1. b \in Bodies /\ pc[p] \in StagesOf(b.op) /\ rate[p] \in Rates
    BY <1>1 DEF IInv, StagesOK, TypeOK, Busy
  <2>2. b.op \in MoneyOps => b \in MoneyBody /\ ValidTransaction(b)
    BY <1>1, <2>1, BodyShape DEF IInv, StagesOK
  <2> QED
    BY <2>1, <2>2 DEF MoneyBody, ValidTransaction
<1>3. Hits(p) => n \in Row /\ Sound(n) /\ ~n.deleted /\ n.balance \in Nat
  <2>1. Target(p) \in Wallets
    BY <1>1, TargetType DEF IInv
  <2>2. Hits(p) => n \in Row /\ Sound(n) /\ ~n.deleted
    BY <2>1, VisibleSound, MatchesLive DEF IInv, Hits, Newest, Row
  <2> QED
    BY <2>2 DEF Row, Sound
<1>4. CASE StoreUpdate(p)
  <2> DEFINE r == Converted(n, NewCurrency(p), rate[p])
  <2>1. Hits(p) => r \in Row /\ Sound(r)
    BY <1>1, <1>2, <1>3, NewCurrencyType, ConvertedSound
  <2>2. Hits(p) => /\ r.owner = n.owner /\ r.active = n.active
                   /\ r.deleted = n.deleted
    BY <1>3 DEF Converted, Row
  <2>3. "commit" \in StagesOf(b.op) /\ b.op \notin MoneyOps /\ b.op = "update"
    BY <1>4 DEF StoreUpdate, StagesOf, MoneyOps
  <2>4. Update(p, r, "commit")
    BY <1>4 DEF StoreUpdate
  <2>5. Writes(p, r, "commit")
    BY <1>1, <2>1, <2>2, <2>3, <2>4 DEF Writes
  <2> QED
    BY <2>5
<1>5. CASE StoreDeposit(p) \/ StoreCredit(p)
  <2> DEFINE r == Credited(n, amount)
  <2>1. b.op \in {"deposit", "transfer"} /\ "publish" \in StagesOf(b.op)
    BY <1>2, <1>5, BodyShape DEF StoreDeposit, StoreCredit, StagesOf, MoneyOps, WalletOps
  <2>2. amount \in Nat
    BY <1>2, <2>1, ConvertType DEF MoneyOps
  <2>3. Hits(p) => r \in Row /\ Sound(r)
    <3>1. Hits(p) => n.active
      BY <1>1, <1>5, <2>1 DEF StoreDeposit, StoreCredit, Hits, Newest, Matches, Spendable
    <3> QED
      BY <1>3, <2>2, <3>1, CreditedSound
  <2>4. Hits(p) => /\ r.owner = n.owner /\ r.active = n.active
                   /\ r.deleted = n.deleted /\ r.currency = n.currency
    BY <1>3 DEF Credited, Row
  <2>5. Update(p, r, "publish") /\ (pc[p] = "credit" \/ b.op = "deposit")
    BY <1>5 DEF StoreDeposit, StoreCredit
  <2>6. Writes(p, r, "publish")
    BY <1>1, <2>1, <2>3, <2>4, <2>5 DEF Writes
  <2> QED
    BY <2>6
<1>6. CASE StoreWithdraw(p) \/ StoreDebit(p)
  <2>1. PICK m \in Nat, s \in {"publish", "credit"} :
           /\ Update(p, Debited(n, m), s) /\ s \in StagesOf(b.op)
           /\ pc[p] = "write" /\ (s = "publish" => b.op = "withdraw")
    <3>1. CASE StoreWithdraw(p)
      <4>1. b.op = "withdraw" /\ Update(p, Debited(n, amount), "publish") /\ pc[p] = "write"
        BY <3>1 DEF StoreWithdraw
      <4>2. amount \in Nat /\ "publish" \in StagesOf(b.op)
        BY <1>2, <4>1, ConvertType DEF MoneyOps, StagesOf
      <4> QED
        BY <4>1, <4>2
    <3>2. CASE StoreDebit(p)
      <4>1. b.op = "transfer" /\ Update(p, Debited(n, b.amount), "credit") /\ pc[p] = "write"
        BY <3>2 DEF StoreDebit
      <4>2. b.amount \in Nat /\ "credit" \in StagesOf(b.op)
        BY <1>2, <4>1 DEF MoneyOps, StagesOf
      <4> QED
        BY <4>1, <4>2
    <3> QED
      BY <1>6, <3>1, <3>2
  <2> DEFINE r == Debited(n, m)
  <2>2. Hits(p) => n.active
    BY <1>1, <1>6 DEF StoreWithdraw, StoreDebit, Hits, Newest, Matches, Spendable
  <2>3. Hits(p) /\ CheckHolds(r) => r \in Row /\ Sound(r)
    BY <1>3, <2>1, <2>2, DebitedSound
  <2>4. Hits(p) => /\ r.owner = n.owner /\ r.active = n.active
                   /\ r.deleted = n.deleted /\ r.currency = n.currency
    BY <1>3 DEF Debited, Row
  <2>5. Writes(p, r, s)
    BY <1>1, <2>1, <2>3, <2>4 DEF Writes
  <2> QED
    BY <2>5
<1> QED
  BY <1>4, <1>5, <1>6

\* Hence they keep the invariant.
LEMMA StoresKeep ==
    ASSUME IInv, NEW p \in Requests,
           \/ StoreUpdate(p) \/ StoreDeposit(p) \/ StoreWithdraw(p)
           \/ StoreDebit(p) \/ StoreCredit(p)
    PROVE  IInv'
<1>1. PICK r, s : Writes(p, r, s)
  BY StoreShape
<1> QED
  BY <1>1, UpdateKeeps DEF Writes

\* A send that succeeds puts the message on the topic before the commit.
LEMMA PublishKeeps ==
    ASSUME IInv, NEW p \in Requests, Publish(p)
    PROVE  IInv'
<1>1. Busy(p) /\ pc[p] = "publish"
  BY DEF Publish, Busy
<1>2. "commit" \in StagesOf(call[p].op)
  <2>1. call[p].op \in MoneyOps \cup WalletOps /\ pc[p] \in StagesOf(call[p].op)
    BY <1>1, BodyShape DEF IInv, StagesOK
  <2> QED
    BY <1>1, <2>1 DEF StagesOf, MoneyOps, WalletOps
<1> QED
  BY <1>1, <1>2, GotoKeeps DEF Publish, IInv, TypeOK, Stages

\* Every failure rolls back what the request has written.
LEMMA FailuresKeep ==
    ASSUME IInv, NEW p \in Requests, PublishFails(p) \/ Fail(p)
    PROVE  IInv'
<1>1. Busy(p)
  BY DEF PublishFails, Fail, Busy
<1>2. PICK e \in Outcomes : Abort(p, e)
  BY DEF PublishFails, Fail, Outcomes
<1>3. announced \subseteq announced' /\ announced' \subseteq Requests
  BY DEF PublishFails, Fail, IInv, TypeOK
<1> QED
  BY <1>1, <1>2, <1>3, AbortKeeps

\* The record a transaction leaves is a row of table transactions.
LEMMA TxRecordType ==
    ASSUME IInv, NEW p \in Requests, Busy(p), call[p].op \in MoneyOps
    PROVE  TxRecord(p) \in TxRow
<1>1. call[p] \in MoneyBody /\ ValidTransaction(call[p])
  BY BodyShape DEF IInv, StagesOK, Busy
<1>2. call[p].amount \in Nat \ {0}
  BY <1>1 DEF MoneyBody, ValidTransaction
<1> QED
  BY <1>1, <1>2 DEF TxRecord, TxRow, MoneyBody, MoneyOps

\* A commit makes the versions p wrote current and frees its locks.
LEMMA CommitKeeps ==
    ASSUME IInv, NEW p \in Requests, NEW ack \in BOOLEAN, Commit(p, ack)
    PROVE  IInv'
<1> USE StoreAssumption DEF IInv
<1>1. pc[p] = "commit" /\ Busy(p)
  BY DEF Commit, Busy
<1>2. PICK e \in Outcomes : Finish(p, e)
  BY DEF Commit, Outcomes
<1>3. /\ rows' = [w \in Wallets |-> Visible(p, w)]
      /\ lock' = Release(p)
      /\ UNCHANGED <<latest, announced, arch>>
      /\ applied' = applied \cup {p}
  BY DEF Commit, Install
<1>4. /\ transactions' \subseteq TxRow
      /\ \A t \in transactions' : t \in transactions \/
           (t.id = p /\ call[p].op \in MoneyOps)
  <2>1. CASE call[p].op \in MoneyOps
    <3>1. TxRecord(p) \in TxRow /\ TxRecord(p).id = p
      BY <1>1, <2>1, TxRecordType DEF TxRecord
    <3>2. transactions' = transactions \cup {TxRecord(p)}
      BY <2>1 DEF Commit
    <3> QED
      BY <2>1, <3>1, <3>2 DEF TypeOK, StoreTypeOK
  <2>2. CASE call[p].op \notin MoneyOps
    BY <2>2 DEF Commit, TypeOK, StoreTypeOK
  <2> QED
    BY <2>1, <2>2
<1>5. TypeOK'
  <2>1. StoreTypeOK'
    BY <1>3, <1>4 DEF TypeOK, StoreTypeOK, Visible, Procs, Release
  <2>2. pc' \in [Requests -> Stages] /\ outcome' \in [Requests -> Outcomes]
    BY <1>2 DEF Finish, TypeOK, Stages
  <2>3. seen' \in [Requests -> [first : Views, second : Views]]
    BY <1>2, NoViewType DEF Finish, TypeOK
  <2>4. rate' \in [Requests -> Rates]
    BY <1>2 DEF Finish, TypeOK, Rates, DefaultRate
  <2> QED
    BY <1>2, <1>3, <2>1, <2>2, <2>3, <2>4 DEF Finish, TypeOK
<1>6. StagesOK' /\ ArchiveOK'
  BY <1>1, <1>2, <1>3 DEF Finish, StagesOK, Busy, ArchiveOK, TypeOK
<1>7. VersionsOK'
  BY <1>3 DEF VersionsOK, Visible
<1>8. DeletedUntouched'
  BY <1>3 DEF DeletedUntouched, Visible
<1>9. WritersHoldTheirRows'
  BY <1>2, <1>3 DEF Finish, WritersHoldTheirRows, Visible, Release, TypeOK
<1>10. AnnouncedFirst'
  BY <1>2, <1>3 DEF Finish, AnnouncedFirst, TypeOK
<1>11. CommittedIsAnnounced'
  BY <1>1, <1>3, <1>4 DEF CommittedIsAnnounced, AnnouncedFirst
<1> QED
  BY <1>5, <1>6, <1>7, <1>8, <1>9, <1>10, <1>11

\* A request that arrives is validated before its handler starts.
LEMMA ReceiveKeeps ==
    ASSUME IInv, NEW p \in Requests, Receive(p)
    PROVE  IInv'
<1> USE DEF IInv
<1>1. PICK b \in Bodies :
         /\ call' = [call EXCEPT ![p] = b]
         /\ IF Validated(b) = "ok"
            THEN Goto(p, IF b.op = "create" THEN "insert" ELSE "read")
            ELSE /\ pc' = [pc EXCEPT ![p] = "done"]
                 /\ outcome' = [outcome EXCEPT ![p] = Validated(b)]
  BY DEF Receive
<1>2. pc[p] = "idle" /\ UNCHANGED <<rows, latest, lock, transactions, seen, rate,
                                  announced, applied, arch>>
  BY DEF Receive
<1>3. PICK s \in {"insert", "read", "done"} :
         /\ pc' = [pc EXCEPT ![p] = s]
         /\ s # "done" => Validated(b) = "ok" /\ s \in StagesOf(b.op)
  <2>1. b.op \in MoneyOps \cup WalletOps
    BY BodyShape
  <2>2. CASE Validated(b) = "ok"
    BY <1>1, <2>1, <2>2 DEF Goto, StagesOf, MoneyOps, WalletOps
  <2>3. CASE Validated(b) # "ok"
    BY <1>1, <2>3
  <2> QED
    BY <2>2, <2>3
<1>4. outcome' \in [Requests -> Outcomes]
  <2>1. Validated(b) \in Outcomes
    BY DEF Validated, Outcomes
  <2> QED
    BY <1>1, <2>1 DEF Goto, TypeOK
<1>5. TypeOK'
  BY <1>1, <1>2, <1>3, <1>4 DEF TypeOK, StoreTypeOK, Stages
<1>6. StagesOK'
  <2>1. Validated(b) = "ok" /\ b.op \in MoneyOps => ValidTransaction(b)
    BY DEF Validated, Invalid
  <2> QED
    BY <1>1, <1>3, <2>1 DEF StagesOK, Busy, TypeOK
<1>7. ArchiveOK' /\ VersionsOK' /\ DeletedUntouched'
  BY <1>2 DEF ArchiveOK, VersionsOK, DeletedUntouched
<1>8. WritersHoldTheirRows'
  BY <1>2, <1>3 DEF WritersHoldTheirRows, TypeOK
<1>9. AnnouncedFirst' /\ CommittedIsAnnounced'
  BY <1>1, <1>2, <1>3 DEF AnnouncedFirst, CommittedIsAnnounced, TypeOK
<1> QED
  BY <1>5, <1>6, <1>7, <1>8, <1>9

(***************************************************************************)
(* The archiving goroutine, time, deadlocks and crashes.                   *)
(***************************************************************************)
\* Steps that leave the requests alone keep what is said about them.
LEMMA RequestsUntouched ==
    ASSUME IInv, UNCHANGED <<requestVars, transactions, announced, applied>>,
           StoreTypeOK',
           arch' \in [pc : {"idle", "update", "commit", "dying"},
                      at : Wallets \cup {Null}, todo : SUBSET Wallets,
                      rounds : 0 .. Rounds]
    PROVE  TypeOK' /\ StagesOK' /\ AnnouncedFirst' /\ CommittedIsAnnounced'
<1> USE DEF IInv, requestVars
<1>1. TypeOK'
  BY DEF TypeOK
<1>2. StagesOK'
  BY DEF StagesOK, Busy
<1>3. AnnouncedFirst' /\ CommittedIsAnnounced'
  BY DEF AnnouncedFirst, CommittedIsAnnounced
<1> QED
  BY <1>1, <1>2, <1>3

\* Time makes rows stale and changes nothing else about them.
LEMMA AgeKeeps ==
    ASSUME IInv, Age
    PROVE  IInv'
<1> DEFINE Aged(r) == IF r = Null THEN Null ELSE [r EXCEPT !.stale = TRUE]
<1>1. /\ rows' = [w \in Wallets |-> Aged(rows[w])]
      /\ latest' = [w \in Wallets |-> Aged(latest[w])]
      /\ UNCHANGED <<lock, transactions, requestVars, announced, applied, arch>>
  BY DEF Age
<1>2. \A r \in Row \cup {Null} :
         /\ Aged(r) \in Row \cup {Null}
         /\ Aged(r) = Null <=> r = Null
         /\ r # Null => /\ Aged(r).balance = r.balance
                        /\ Aged(r).active = r.active
                        /\ Aged(r).deleted = r.deleted
  BY StoreAssumption DEF Row
<1> HIDE DEF Aged
<1>3. StoreTypeOK'
  BY <1>1, <1>2 DEF IInv, TypeOK, StoreTypeOK
<1>4. TypeOK' /\ StagesOK' /\ AnnouncedFirst' /\ CommittedIsAnnounced'
  BY <1>1, <1>3, RequestsUntouched DEF IInv, TypeOK
<1>5. ArchiveOK'
  BY <1>1 DEF IInv, ArchiveOK
<1>6. VersionsOK'
  BY <1>1, <1>2 DEF IInv, TypeOK, StoreTypeOK, VersionsOK, Sound
<1>7. DeletedUntouched'
  BY <1>1, <1>2 DEF IInv, TypeOK, StoreTypeOK, DeletedUntouched
<1>8. WritersHoldTheirRows'
  BY <1>1 DEF IInv, WritersHoldTheirRows, requestVars
<1> QED
  BY <1>4, <1>5, <1>6, <1>7, <1>8 DEF IInv

\* The statement begins: it has selected rows and written none.
LEMMA ArchiveStartKeeps ==
    ASSUME IInv, ArchiveStart
    PROVE  IInv'
<1>1. UNCHANGED <<storeVars, requestVars, announced, applied>> /\ arch.pc = "idle"
  BY DEF ArchiveStart
<1>2. /\ arch' \in [pc : {"idle", "update", "commit", "dying"},
                     at : Wallets \cup {Null}, todo : SUBSET Wallets,
                     rounds : 0 .. Rounds]
      /\ ArchiveOK'
  <2> DEFINE S == {w \in Wallets : Archivable(rows[w])}
             n == arch.rounds + 1
  <2>1. n \in 0 .. Rounds /\ n # 0
    <3>1. Rounds \in Nat
      BY ServiceAssumption
    <3>2. arch.rounds \in 0 .. Rounds /\ arch.rounds < Rounds
      BY DEF ArchiveStart, IInv, TypeOK
    <3> QED
      BY <3>1, <3>2
  <2>2. \/ arch' = [arch EXCEPT !.rounds = n]
        \/ \E w \in S : arch' = [pc |-> "update", at |-> w, todo |-> S \ {w},
                                 rounds |-> n]
    BY DEF ArchiveStart
  <2>3. S \subseteq Wallets
    OBVIOUS
  <2> HIDE DEF S, n
  <2>4. CASE arch' = [arch EXCEPT !.rounds = n]
    BY <1>1, <2>1, <2>4 DEF IInv, TypeOK, ArchiveOK
  <2>5. CASE \E w \in S : arch' = [pc |-> "update", at |-> w, todo |-> S \ {w},
                                  rounds |-> n]
    BY <2>1, <2>3, <2>5 DEF ArchiveOK
  <2> QED
    BY <2>2, <2>4, <2>5
<1>3. StoreTypeOK'
  BY <1>1 DEF IInv, TypeOK, StoreTypeOK, storeVars
<1>4. TypeOK' /\ StagesOK' /\ AnnouncedFirst' /\ CommittedIsAnnounced'
  BY <1>1, <1>2, <1>3, RequestsUntouched DEF storeVars
<1>5. VersionsOK' /\ DeletedUntouched'
  BY <1>1 DEF IInv, VersionsOK, DeletedUntouched, storeVars
<1>6. WritersHoldTheirRows'
  BY <1>1, StoreAssumption DEF IInv, WritersHoldTheirRows, storeVars, requestVars
<1> QED
  BY <1>2, <1>4, <1>5, <1>6 DEF IInv

\* Archiving a row: only an empty one is made inactive, and a deleted one is
\* inactive already.
LEMMA ArchiveRowKeeps ==
    ASSUME IInv, ArchiveRow
    PROVE  IInv'
<1> DEFINE w == arch.at
           r == latest[w]
           x == IF Archivable(r) THEN Archived(r) ELSE r
<1>1. /\ arch.pc = "update" /\ lock[w] = Free /\ w \in Wallets
      /\ latest' = [latest EXCEPT ![w] = x]
      /\ lock' = [lock EXCEPT ![w] = Archiver]
      /\ NextRow(arch.todo)
      /\ UNCHANGED <<rows, transactions, requestVars, announced, applied>>
  BY DEF ArchiveRow, Write, IInv, ArchiveOK
<1>2. r \in Row \cup {Null} /\ (r # Null => Sound(r)) /\ r = rows[w]
  BY <1>1 DEF IInv, TypeOK, StoreTypeOK, VersionsOK, WritersHoldTheirRows
<1>3. /\ x \in Row \cup {Null}
      /\ x # Null => Sound(x)
      /\ rows[w] # Null /\ rows[w].deleted => x = rows[w]
  BY <1>2 DEF Archivable, Archived, Sound, Row
<1> HIDE DEF x, r
<1>4. /\ arch' \in [pc : {"idle", "update", "commit", "dying"},
                     at : Wallets \cup {Null}, todo : SUBSET Wallets,
                     rounds : 0 .. Rounds]
      /\ ArchiveOK'
      /\ arch'.pc \in {"update", "commit"}
  <2>1. arch.todo \subseteq Wallets
    BY DEF IInv, TypeOK
  <2>2. CASE arch' = [arch EXCEPT !.pc = "commit", !.at = Null]
    BY <1>1, <2>2 DEF IInv, TypeOK, ArchiveOK
  <2>3. CASE \E v \in arch.todo :
               arch' = [arch EXCEPT !.pc = "update", !.at = v,
                                    !.todo = arch.todo \ {v}]
    BY <1>1, <2>1, <2>3 DEF IInv, TypeOK, ArchiveOK
  <2> QED
    BY <1>1, <2>2, <2>3 DEF NextRow
<1>5. StoreTypeOK'
  BY <1>1, <1>3 DEF IInv, TypeOK, StoreTypeOK, Procs
<1>6. TypeOK' /\ StagesOK' /\ AnnouncedFirst' /\ CommittedIsAnnounced'
  BY <1>1, <1>4, <1>5, RequestsUntouched
<1>7. VersionsOK' /\ DeletedUntouched'
  BY <1>1, <1>3 DEF IInv, TypeOK, StoreTypeOK, VersionsOK, DeletedUntouched
<1>8. WritersHoldTheirRows'
  BY <1>1, <1>4, StoreAssumption
     DEF IInv, TypeOK, StoreTypeOK, WritersHoldTheirRows, requestVars
<1> QED
  BY <1>4, <1>6, <1>7, <1>8 DEF IInv

\* The statement commits, or fails and is rolled back.
LEMMA ArchiveCommitKeeps ==
    ASSUME IInv, NEW ack \in BOOLEAN, ArchiveCommit(ack)
    PROVE  IInv'
<1>1. /\ rows' = [w \in Wallets |-> Visible(Archiver, w)]
      /\ lock' = Release(Archiver)
      /\ UNCHANGED <<latest, transactions, requestVars, announced, applied>>
      /\ arch.pc = "commit"
      /\ \E s \in {"idle", "dying"} : arch' = [arch EXCEPT !.pc = s]
  BY DEF ArchiveCommit, Install
<1>2. StoreTypeOK'
  BY <1>1 DEF IInv, TypeOK, StoreTypeOK, Visible, Procs, Release
<1>3. TypeOK' /\ StagesOK' /\ AnnouncedFirst' /\ CommittedIsAnnounced'
  BY <1>1, <1>2, RequestsUntouched DEF IInv, TypeOK
<1>4. ArchiveOK'
  BY <1>1 DEF IInv, TypeOK, ArchiveOK
<1>5. VersionsOK' /\ DeletedUntouched'
  BY <1>1 DEF IInv, VersionsOK, DeletedUntouched, Visible
<1>6. WritersHoldTheirRows'
  BY <1>1, StoreAssumption
     DEF IInv, WritersHoldTheirRows, Visible, Release, requestVars
<1> QED
  BY <1>3, <1>4, <1>5, <1>6 DEF IInv

\* A failed archiving statement leaves no trace in the tables.
LEMMA ArchiveAbortsKeeps ==
    ASSUME IInv, ArchiveAborts, arch.pc # "idle"
    PROVE  IInv'
<1>1. /\ latest' = [w \in Wallets |-> IF lock[w] = Archiver THEN rows[w] ELSE latest[w]]
      /\ lock' = Release(Archiver)
      /\ arch' = [arch EXCEPT !.pc = "dying", !.at = Null, !.todo = {}]
      /\ UNCHANGED <<rows, transactions, requestVars, announced, applied>>
  BY DEF ArchiveAborts, Discard
<1>2. StoreTypeOK'
  BY <1>1 DEF IInv, TypeOK, StoreTypeOK, Procs, Release
<1>3. TypeOK' /\ StagesOK' /\ AnnouncedFirst' /\ CommittedIsAnnounced'
  BY <1>1, <1>2, RequestsUntouched DEF IInv, TypeOK
<1>4. ArchiveOK'
  BY <1>1 DEF IInv, TypeOK, ArchiveOK
<1>5. VersionsOK' /\ DeletedUntouched'
  BY <1>1 DEF IInv, VersionsOK, DeletedUntouched
<1>6. WritersHoldTheirRows'
  BY <1>1, StoreAssumption DEF IInv, WritersHoldTheirRows, Release, requestVars
<1> QED
  BY <1>3, <1>4, <1>5, <1>6 DEF IInv

\* The database aborts one process of a cycle.
LEMMA VictimKeeps ==
    ASSUME IInv, NEW p \in Procs, Victim(p)
    PROVE  IInv'
<1>1. CASE p = Archiver
  BY <1>1, ArchiveAbortsKeeps DEF Victim, Deadlocked, Blocked
<1>2. CASE p # Archiver
  <2>1. p \in Requests
    BY <1>2 DEF Procs
  <2>2. Blocked(p)
    BY DEF Victim, Deadlocked
  <2>3. Busy(p)
    BY <1>2, <2>2 DEF Blocked, Waits, Busy
  <2>4. Abort(p, "internal") /\ UNCHANGED announced
    BY <1>2 DEF Victim
  <2> QED
    BY <2>1, <2>3, <2>4, AbortKeeps DEF Outcomes, IInv, TypeOK
<1> QED
  BY <1>1, <1>2

\* A crash leaves what was committed.
LEMMA CrashKeeps ==
    ASSUME IInv, Crash
    PROVE  IInv'
<1> USE DEF IInv, Crash
<1>1. TypeOK'
  <2>1. StoreTypeOK'
    BY DEF TypeOK, StoreTypeOK
  <2>2. pc' \in [Requests -> Stages] /\ outcome' \in [Requests -> Outcomes]
    BY DEF TypeOK, Stages, Outcomes
  <2>3. seen' \in [Requests -> [first : Views, second : Views]]
    BY NoViewType DEF TypeOK
  <2>4. rate' \in [Requests -> Rates]
    BY DEF TypeOK, Rates, DefaultRate
  <2>5. arch' \in [pc : {"idle", "update", "commit", "dying"},
                   at : Wallets \cup {Null}, todo : SUBSET Wallets,
                   rounds : 0 .. Rounds]
    BY DEF TypeOK
  <2> QED
    BY <2>1, <2>2, <2>3, <2>4, <2>5 DEF TypeOK
<1>2. StagesOK'
  BY DEF StagesOK, Busy, TypeOK
<1>3. ArchiveOK' /\ VersionsOK' /\ DeletedUntouched'
  BY DEF ArchiveOK, VersionsOK, DeletedUntouched, TypeOK
<1>4. WritersHoldTheirRows'
  BY StoreAssumption DEF WritersHoldTheirRows
<1>5. AnnouncedFirst' /\ CommittedIsAnnounced'
  BY DEF AnnouncedFirst, CommittedIsAnnounced, Busy, TypeOK
<1> QED
  BY <1>1, <1>2, <1>3, <1>4, <1>5

(***************************************************************************)
(* The invariant holds at the start and is kept by every step.             *)
(***************************************************************************)
\* The seeds the service starts from satisfy the inductive invariant.
LEMMA InitIInv ==
    ASSUME Init
    PROVE  IInv
<1> USE DEF Init
<1>1. TypeOK
  <2>1. StoreTypeOK
    BY ServiceAssumption DEF StoreTypeOK, Procs
  <2>2. seen \in [Requests -> [first : Views, second : Views]]
    BY NoViewType
  <2>3. rate \in [Requests -> Rates]
    BY DEF Rates, DefaultRate
  <2>4. arch \in [pc : {"idle", "update", "commit", "dying"},
                  at : Wallets \cup {Null}, todo : SUBSET Wallets,
                  rounds : 0 .. Rounds]
    <3>1. Rounds \in Nat
      BY ServiceAssumption
    <3>2. 0 \in 0 .. Rounds
      BY <3>1
    <3> QED
      BY <3>2
  <2> QED
    BY <2>1, <2>2, <2>3, <2>4 DEF TypeOK, Stages, Outcomes
<1>2. StagesOK /\ ArchiveOK
  BY DEF StagesOK, ArchiveOK, Busy
<1>3. VersionsOK /\ DeletedUntouched
  BY ServiceAssumption DEF VersionsOK, DeletedUntouched, Sound
<1>4. WritersHoldTheirRows
  BY StoreAssumption DEF WritersHoldTheirRows
<1>5. AnnouncedFirst /\ CommittedIsAnnounced
  BY DEF AnnouncedFirst, CommittedIsAnnounced
<1> QED
  BY <1>1, <1>2, <1>3, <1>4, <1>5 DEF IInv

\* Every step of the service keeps the inductive invariant.
LEMMA NextIInv ==
    ASSUME IInv, [Next]_vars
    PROVE  IInv'
<1>1. ASSUME NEW p \in Requests, Receive(p)
      PROVE  IInv'
  BY <1>1, ReceiveKeeps
<1>2. ASSUME NEW p \in Requests, Step(p)
      PROVE  IInv'
  <2>1. CASE Insert(p, TRUE) \/ Verify(p) \/ Remove(p, TRUE)
    BY <1>2, <2>1, InsertKeeps, VerifyKeeps, RemoveKeeps
  <2>2. CASE ReadWallet(p) \/ ReadTarget(p)
    BY <1>2, <2>2, ReadKeeps
  <2>3. CASE \/ QuoteUpdate(p) \/ QuoteDeposit(p)
             \/ QuoteWithdraw(p) \/ QuoteTransfer(p)
    BY <1>2, <2>3, QuotesKeep
  <2>4. CASE \/ StoreUpdate(p) \/ StoreDeposit(p) \/ StoreWithdraw(p)
             \/ StoreDebit(p) \/ StoreCredit(p)
    BY <1>2, <2>4, StoresKeep
  <2>5. CASE Publish(p) \/ Commit(p, TRUE)
    BY <1>2, <2>5, PublishKeeps, CommitKeeps
  <2> QED
    BY <1>2, <2>1, <2>2, <2>3, <2>4, <2>5 DEF Step
<1>3. ASSUME NEW p \in Requests, Failure(p)
      PROVE  IInv'
  BY <1>3, InsertKeeps, RemoveKeeps, CommitKeeps, FailuresKeep DEF Failure
<1>4. ASSUME NEW p \in Procs, Victim(p)
      PROVE  IInv'
  BY <1>4, VictimKeeps
<1>5. CASE Age
  BY <1>5, AgeKeeps
<1>6. CASE Archive \/ ArchiveCommit(FALSE) \/ ArchiveFails
  BY <1>6, ArchiveStartKeeps, ArchiveRowKeeps, ArchiveCommitKeeps,
     ArchiveAbortsKeeps DEF Archive, ArchiveFails
<1>7. CASE Crash
  BY <1>7, CrashKeeps
<1>8. CASE UNCHANGED vars
  BY <1>8 DEF vars, IInv, TypeOK, StoreTypeOK, StagesOK, Busy, ArchiveOK,
     VersionsOK, DeletedUntouched, WritersHoldTheirRows, AnnouncedFirst,
     CommittedIsAnnounced
<1> QED
  BY <1>1, <1>2, <1>3, <1>4, <1>5, <1>6, <1>7, <1>8 DEF Next, Finished

(***************************************************************************)
(* The theorems.                                                           *)
(***************************************************************************)
\* The inductive invariant holds of every behaviour of the service.
THEOREM Inductive == Spec => []IInv
<1>1. Init => IInv
  BY InitIInv
<1>2. IInv /\ [Next]_vars => IInv'
  BY NextIInv
<1> QED
  BY <1>1, <1>2, PTL DEF Spec

\* Every variable keeps its type, for any wallets, users, requests and
\* prices; only validated amounts enter table transactions.
THEOREM TypeCorrect == Spec => []TypeOK
<1>1. IInv => TypeOK
  BY DEF IInv
<1> QED
  BY <1>1, Inductive, PTL

\* No committed balance is ever negative.
THEOREM BalancesNonNegative == Spec => []NonNegativeBalances
<1>1. IInv => NonNegativeBalances
  BY DEF IInv, VersionsOK, Sound, NonNegativeBalances
<1> QED
  BY <1>1, Inductive, PTL

\* An archived wallet never holds money.
THEOREM ArchivedHoldsNothing == Spec => []ArchivedIsEmpty
<1>1. IInv => ArchivedIsEmpty
  BY DEF IInv, VersionsOK, Sound, ArchivedIsEmpty
<1> QED
  BY <1>1, Inductive, PTL

\* A transaction in the database was announced on Kafka before.
THEOREM CommitsAreAnnounced == Spec => []CommittedIsAnnounced
<1>1. IInv => CommittedIsAnnounced
  BY DEF IInv
<1> QED
  BY <1>1, Inductive, PTL

\* Uncommitted versions and row locks belong to processes that are between
\* their write and their commit.
THEOREM LocksAreReleased == Spec => []WritersHoldTheirRows
<1>1. IInv => WritersHoldTheirRows
  BY DEF IInv
<1> QED
  BY <1>1, Inductive, PTL

\* A step changes at most the staleness of a committed row that is deleted.
LEMMA DeletedStep ==
    ASSUME IInv, [Next]_vars, NEW w \in Wallets,
           rows[w] # Null, rows[w].deleted
    PROVE  rows'[w] = [rows[w] EXCEPT !.stale = rows'[w].stale]
<1> DEFINE r == rows[w]
<1>1. r \in Row /\ Sound(r) /\ latest[w] = r
  BY DEF IInv, TypeOK, StoreTypeOK, VersionsOK, DeletedUntouched
<1>2. r = [r EXCEPT !.stale = r.stale]
  BY <1>1 DEF Row
<1>3. CASE rows'[w] = r
  BY <1>2, <1>3
<1>4. CASE rows'[w] # r
  <2>1. CASE Age
    <3>1. rows'[w] = [r EXCEPT !.stale = TRUE]
      BY <2>1 DEF Age
    <3> QED
      BY <1>1, <3>1 DEF Row
  <2>2. ASSUME NEW p \in Requests, NEW ack \in BOOLEAN, Insert(p, ack)
        PROVE  FALSE
    <3>1. call[p].wallet # w \/ UNCHANGED rows
      BY <2>2 DEF Insert
    <3> QED
      BY <1>4, <2>2, <3>1 DEF Insert, WriteThrough, IInv, TypeOK, StoreTypeOK
  <2>3. ASSUME NEW p \in Requests, NEW ack \in BOOLEAN, Remove(p, ack)
        PROVE  FALSE
    <3>1. Target(p) # w \/ UNCHANGED rows
      <4>1. CASE Hits(p) /\ Target(p) = w
        <5>1. Visible(p, w) = r
          BY <1>1 DEF Visible
        <5> QED
          BY <1>1, <2>3, <4>1, <5>1 DEF Remove, Hits, Matches, Removable, Present
      <4> QED
        BY <2>3, <4>1 DEF Remove
    <3> QED
      BY <1>4, <2>3, <3>1 DEF Remove, WriteThrough, IInv, TypeOK, StoreTypeOK
  <2>4. ASSUME NEW p \in Procs, Install(p)
        PROVE  FALSE
    BY <1>1, <1>4, <2>4 DEF Install, Visible
  <2>5. rows' # rows
    BY <1>4
  <2>6. \/ Age
        \/ \E p \in Requests, ack \in BOOLEAN : Insert(p, ack) \/ Remove(p, ack)
        \/ \E p \in Procs : Install(p)
    <3>1. ASSUME NEW p \in Requests, Receive(p)
          PROVE  FALSE
      BY <2>5, <3>1 DEF Receive
    <3>2. ASSUME NEW p, NEW e, Abort(p, e)
          PROVE  FALSE
      BY <2>5, <3>2 DEF Abort, Discard
    <3>3. ASSUME NEW p \in Requests, Step(p)
          PROVE  Insert(p, TRUE) \/ Remove(p, TRUE) \/ Commit(p, TRUE)
      <4>1. CASE Verify(p) \/ ReadWallet(p) \/ ReadTarget(p) \/ Publish(p)
        BY <2>5, <3>2, <4>1 DEF Verify, ReadWallet, ReadTarget, Publish
      <4>2. ASSUME NEW same, NEW c, NEW d, NEW enough, Quote(p, same, c, d, enough)
            PROVE  FALSE
        BY <2>5, <3>2, <4>2 DEF Quote
      <4>3. CASE \/ QuoteUpdate(p) \/ QuoteDeposit(p)
                 \/ QuoteWithdraw(p) \/ QuoteTransfer(p)
        BY <3>2, <4>2, <4>3
           DEF QuoteUpdate, QuoteDeposit, QuoteWithdraw, QuoteTransfer
      <4>4. ASSUME NEW n, NEW s, Update(p, n, s)
            PROVE  FALSE
        BY <2>5, <3>2, <4>4 DEF Update
      <4>5. CASE \/ StoreUpdate(p) \/ StoreDeposit(p) \/ StoreWithdraw(p)
                 \/ StoreDebit(p) \/ StoreCredit(p)
        BY <4>4, <4>5 DEF StoreUpdate, StoreDeposit, StoreWithdraw, StoreDebit,
                          StoreCredit
      <4> QED
        BY <3>3, <4>1, <4>3, <4>5 DEF Step
    <3>4. ASSUME NEW p \in Requests, Failure(p)
          PROVE  Insert(p, FALSE) \/ Remove(p, FALSE) \/ Commit(p, FALSE)
      BY <3>2, <3>4 DEF Failure, PublishFails, Fail
    <3>5. ASSUME NEW p \in Procs, Victim(p)
          PROVE  FALSE
      BY <2>5, <3>2, <3>5 DEF Victim, ArchiveAborts, Discard
    <3>6. ASSUME NEW p \in Requests, NEW ack \in BOOLEAN, Commit(p, ack)
          PROVE  p \in Procs /\ Install(p)
      BY <3>6 DEF Commit, Procs
    <3>7. CASE Archive \/ ArchiveCommit(FALSE) \/ ArchiveFails
      BY <2>5, <3>7 DEF Archive, ArchiveStart, ArchiveRow, ArchiveCommit,
                        ArchiveFails, ArchiveAborts, Discard, Procs, storeVars
    <3>8. CASE Crash \/ UNCHANGED vars
      BY <2>5, <3>8 DEF Crash, vars
    <3> QED
      BY <3>1, <3>3, <3>4, <3>5, <3>6, <3>7, <3>8 DEF Next, Finished
  <2> QED
    BY <2>1, <2>2, <2>3, <2>4, <2>6
<1> QED
  BY <1>3, <1>4

\* A deleted wallet never changes again: whoever still wants to write it
\* finds it inactive.
THEOREM DeletionIsFinal == Spec => DeletedIsFinal
<1>1. IInv /\ [Next]_vars =>
         [\A w \in Wallets : rows[w] # Null /\ rows[w].deleted =>
            rows'[w] = [rows[w] EXCEPT !.stale = rows'[w].stale]]_vars
  BY DeletedStep
<1> QED
  BY <1>1, Inductive, PTL DEF Spec, DeletedIsFinal
=============================================================================
