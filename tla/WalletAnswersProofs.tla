------------------------- MODULE WalletAnswersProofs -------------------------
(***************************************************************************)
(* What the service answers, proved for every instance: whose money a      *)
(* transaction moves, that a success was carried out and that a rejection  *)
(* changed nothing.  It rests on WalletServiceProofs.                      *)
(***************************************************************************)
EXTENDS WalletServiceProofs

(***************************************************************************)
(* The versions of a wallet: a newer one has the owner of the older, and a *)
(* wallet once out of use stays so.                                        *)
(***************************************************************************)
Continues(r, s) ==
    r # Null => /\ s # Null /\ s.owner = r.owner
                /\ ~r.active => ~s.active

\* nothing is archived, and nothing was before
NothingIsArchived ==
    /\ Rounds = 0
    /\ \A w \in Wallets : Seed[w] # Null => Seed[w].active \/ Seed[w].deleted

\* then a version out of use is that of a deleted wallet
Settled(r) == NothingIsArchived /\ r # Null => r.active \/ r.deleted

VersionsAgree ==
    \A w \in Wallets :
        /\ Continues(rows[w], latest[w]) /\ (rows[w] = Null => latest[w] = Null)
        /\ Settled(rows[w]) /\ Settled(latest[w])

\* p has written a version of w that continues the one it saw
WritesOn(p) ==
    /\ UNCHANGED rows
    /\ \E w \in Wallets : \E s :
         /\ latest' = [latest EXCEPT ![w] = s]
         /\ Visible(p, w) # Null /\ Continues(Visible(p, w), s) /\ Settled(s)

\* a statement on the pool has written w
WritesThrough ==
    \E w \in Wallets : \E s : /\ WriteThrough(w, s)
                              /\ s # Null /\ Continues(rows[w], s) /\ Settled(s)

VersionsStep ==
    VersionsAgree' /\ \A w \in Wallets : Continues(rows[w], rows'[w])

LEMMA WriteContinues ==
    ASSUME IInv, VersionsAgree, NEW p, WritesOn(p)
    PROVE  VersionsStep
<1>1. PICK w, s :
         /\ w \in Wallets /\ latest' = [latest EXCEPT ![w] = s]
         /\ Visible(p, w) # Null /\ Continues(Visible(p, w), s) /\ Settled(s)
  BY DEF WritesOn
<1>2. rows' = rows
  BY DEF WritesOn
<1>3. rows[w] # Null /\ Continues(rows[w], s)
  BY <1>1 DEF VersionsAgree, Continues, Visible
<1>4. ASSUME NEW v \in Wallets
      PROVE  /\ Continues(rows[v], latest'[v]) /\ (rows[v] = Null => latest'[v] = Null)
             /\ Settled(rows[v]) /\ Settled(latest'[v])
  BY <1>1, <1>3 DEF VersionsAgree, IInv, TypeOK, StoreTypeOK
<1> QED
  BY <1>2, <1>4 DEF VersionsStep, VersionsAgree, Continues

LEMMA WriteThroughContinues ==
    ASSUME IInv, VersionsAgree, WritesThrough
    PROVE  VersionsStep
<1>1. PICK w, s : /\ w \in Wallets /\ WriteThrough(w, s)
                  /\ s # Null /\ Continues(rows[w], s) /\ Settled(s)
  BY DEF WritesThrough
<1>2. /\ rows \in [Wallets -> Row \cup {Null}]
      /\ latest \in [Wallets -> Row \cup {Null}]
  BY DEF IInv, TypeOK, StoreTypeOK
<1>3. ASSUME NEW v \in Wallets
      PROVE  /\ Continues(rows[v], rows'[v]) /\ Continues(rows'[v], latest'[v])
             /\ rows'[v] = Null => latest'[v] = Null
             /\ Settled(rows'[v]) /\ Settled(latest'[v])
  BY <1>1, <1>2 DEF WriteThrough, VersionsAgree, Continues
<1> QED
  BY <1>3 DEF VersionsStep, VersionsAgree, Continues

\* A COMMIT, a ROLLBACK and a crash choose between versions there are.
LEMMA EndContinues ==
    ASSUME IInv, VersionsAgree, NEW p, Install(p) \/ Discard(p) \/ Crash
    PROVE  VersionsStep
<1>1. ASSUME NEW w \in Wallets
      PROVE  /\ \/ rows'[w] = rows[w] /\ latest'[w] \in {rows[w], latest[w]}
                \/ rows'[w] = latest[w] /\ latest'[w] = latest[w]
  BY DEF Install, Discard, Crash, Visible
<1>2. ASSUME NEW w \in Wallets
      PROVE  /\ Continues(rows[w], rows'[w]) /\ Continues(rows'[w], latest'[w])
             /\ rows'[w] = Null => latest'[w] = Null
             /\ Settled(rows'[w]) /\ Settled(latest'[w])
  BY <1>1 DEF VersionsAgree, Continues
<1> QED
  BY <1>2 DEF VersionsStep, VersionsAgree, Continues

LEMMA AgeContinues ==
    ASSUME IInv, VersionsAgree, Age
    PROVE  VersionsStep
<1>1. /\ rows \in [Wallets -> Row \cup {Null}]
      /\ latest \in [Wallets -> Row \cup {Null}]
  BY DEF IInv, TypeOK, StoreTypeOK
<1>2. ASSUME NEW w \in Wallets
      PROVE  /\ rows'[w] = IF rows[w] = Null THEN Null
                           ELSE [rows[w] EXCEPT !.stale = TRUE]
             /\ latest'[w] = IF latest[w] = Null THEN Null
                             ELSE [latest[w] EXCEPT !.stale = TRUE]
  BY DEF Age
<1>3. ASSUME NEW r \in Row
      PROVE  /\ [r EXCEPT !.stale = TRUE] \in Row
             /\ [r EXCEPT !.stale = TRUE].owner = r.owner
             /\ [r EXCEPT !.stale = TRUE].active = r.active
             /\ [r EXCEPT !.stale = TRUE].deleted = r.deleted
  BY DEF Row
<1>4. ASSUME NEW v \in Row \cup {Null}, v # Null
      PROVE  LET x == IF v = Null THEN Null ELSE [v EXCEPT !.stale = TRUE]
             IN  /\ x # Null /\ x.owner = v.owner
                 /\ x.active = v.active /\ x.deleted = v.deleted
  <2>1. Null \notin Row
    BY StoreAssumption DEF Row
  <2> QED
    BY <1>3, <1>4, <2>1
<1>5. ASSUME NEW w \in Wallets
      PROVE  /\ Continues(rows[w], rows'[w]) /\ Continues(rows'[w], latest'[w])
             /\ rows'[w] = Null => latest'[w] = Null
             /\ Settled(rows'[w]) /\ Settled(latest'[w])
  <2> DEFINE r == rows[w]
             l == latest[w]
  <2>1. r \in Row \cup {Null} /\ l \in Row \cup {Null} /\ (r = Null => l = Null)
    BY <1>1 DEF VersionsAgree
  <2>2. r # Null => /\ rows'[w] # Null /\ rows'[w].owner = r.owner
                    /\ rows'[w].active = r.active /\ rows'[w].deleted = r.deleted
    BY <1>2, <1>4, <2>1
  <2>3. l # Null => /\ latest'[w] # Null /\ latest'[w].owner = l.owner
                    /\ latest'[w].active = l.active /\ latest'[w].deleted = l.deleted
    BY <1>2, <1>4, <2>1
  <2>4. (r = Null => rows'[w] = Null) /\ (l = Null => latest'[w] = Null)
    BY <1>2
  <2>5. r # Null => l # Null /\ l.owner = r.owner /\ (~r.active => ~l.active)
    BY DEF VersionsAgree, Continues
  <2>6. Settled(rows'[w]) /\ Settled(latest'[w])
    BY <2>2, <2>3, <2>4 DEF VersionsAgree, Settled
  <2> QED
    BY <2>1, <2>2, <2>3, <2>4, <2>5, <2>6 DEF Continues
<1> QED
  BY <1>5 DEF VersionsStep, VersionsAgree, Continues

\* An UPDATE of a transaction writes on what it found.
LEMMA StoreContinues ==
    ASSUME IInv, VersionsAgree, NEW p \in Requests, NEW r, NEW s,
           Writes(p, r, s), Hits(p), CheckHolds(r), Write(p, Target(p), r),
           UNCHANGED rows
    PROVE  VersionsStep
<1>1. Target(p) \in Wallets
  BY TargetType DEF Writes, IInv
<1>2. /\ r \in Row /\ r.owner = Newest(p).owner
      /\ r.active = Newest(p).active /\ r.deleted = Newest(p).deleted
  BY DEF Writes
<1>3. Newest(p) # Null
  BY <1>1, VisibleSound, MatchesLive DEF Hits, Newest, IInv
<1>4. r # Null
  BY <1>2, StoreAssumption DEF Row
<1>5. Settled(r)
  BY <1>1, <1>2, <1>3 DEF Settled, VersionsAgree, Newest, Visible
<1>6. WritesOn(p)
  BY <1>1, <1>2, <1>3, <1>4, <1>5 DEF WritesOn, Write, Newest, Continues
<1> QED
  BY <1>6, WriteContinues

\* So does the archiver, row by row.
LEMMA ArchiveContinues ==
    ASSUME IInv, VersionsAgree, ArchiveRow
    PROVE  VersionsStep
<1> DEFINE w == arch.at
           r == latest[w]
           n == IF Archivable(r) THEN Archived(r) ELSE r
<1>1. w \in Wallets /\ rows' = rows /\ latest' = [latest EXCEPT ![w] = n]
  BY DEF ArchiveRow, Write, IInv, ArchiveOK
<1>2. r \in Row \cup {Null}
  BY <1>1 DEF IInv, TypeOK, StoreTypeOK
<1>3. CASE Archivable(r)
  <2>1. r \in Row /\ r # Null
    BY <1>2, <1>3 DEF Archivable
  <2>2. Archived(r) \in Row /\ Archived(r).owner = r.owner /\ ~Archived(r).active
    BY <2>1 DEF Archived, Row
  <2>3. Archived(r) # Null
    BY <2>2, StoreAssumption DEF Row
  <2>4. lock[w] = Free /\ latest[w] = rows[w]
    BY <1>1 DEF ArchiveRow, IInv, WritersHoldTheirRows
  <2>5. Visible(Archiver, w) = r
    BY <2>4 DEF Visible
  <2>6. Settled(Archived(r))
    <3>1. arch.rounds \in 0 .. Rounds /\ arch.rounds # 0
      BY DEF ArchiveRow, IInv, ArchiveOK, TypeOK
    <3> QED
      BY <3>1 DEF Settled, NothingIsArchived
  <2>7. WritesOn(Archiver)
    BY <1>1, <1>3, <2>1, <2>2, <2>3, <2>5, <2>6 DEF WritesOn, Continues
  <2> QED
    BY <2>7, WriteContinues
<1>4. CASE ~Archivable(r)
  <2>1. latest' = latest
    BY <1>1, <1>4 DEF IInv, TypeOK, StoreTypeOK
  <2> QED
    BY <1>1, <2>1 DEF VersionsStep, VersionsAgree, Continues
<1> QED
  BY <1>3, <1>4

LEMMA InsertContinues ==
    ASSUME IInv, VersionsAgree, NEW p \in Requests, NEW ack \in BOOLEAN,
           Insert(p, ack)
    PROVE  VersionsStep
<1> DEFINE b == call[p]
           r == NewWallet(b.user, b.currency)
<1>1. b \in Bodies /\ b.op = "create"
  BY BodyShape DEF Insert, IInv, StagesOK, StagesOf, Busy, MoneyOps, WalletOps
<1>2. b.wallet \in Wallets /\ b.user \in Users /\ b.currency \in Spellings
  BY <1>1, BodyShape DEF WalletBody, WalletOps
<1>3. CASE b.user \in KnownUsers /\ rows[b.wallet] = Null
  <2>1. r \in Row /\ Settled(r)
    BY <1>2 DEF NewWallet, Row, Settled
  <2>2. r # Null
    BY <2>1, StoreAssumption DEF Row
  <2>3. WriteThrough(b.wallet, r)
    BY <1>3 DEF Insert
  <2>4. WritesThrough
    BY <1>2, <1>3, <2>1, <2>2, <2>3 DEF WritesThrough, Continues
  <2> QED
    BY <2>4, WriteThroughContinues
<1>4. CASE ~(b.user \in KnownUsers /\ rows[b.wallet] = Null)
  BY <1>4 DEF Insert, VersionsStep, VersionsAgree, Continues
<1> QED
  BY <1>3, <1>4

\* A deletion finds its wallet without a lock of its own, and writes on it.
LEMMA RemoveContinues ==
    ASSUME IInv, VersionsAgree, NEW p \in Requests, NEW ack \in BOOLEAN,
           Remove(p, ack)
    PROVE  VersionsStep
<1> DEFINE w == Target(p)
<1>1. w \in Wallets /\ Visible(p, w) = rows[w]
  BY TargetType, ReadsCommitted DEF Remove, IInv
<1>2. CASE Hits(p)
  <2>1. rows[w] # Null
    BY <1>1, <1>2, VisibleSound, MatchesLive DEF Hits, IInv
  <2>2. rows[w] \in Row
    BY <1>1, <2>1 DEF IInv, TypeOK, StoreTypeOK
  <2>3. /\ Removed(rows[w]) \in Row /\ Settled(Removed(rows[w]))
        /\ Removed(rows[w]).owner = rows[w].owner /\ ~Removed(rows[w]).active
    BY <2>2 DEF Removed, Row, Settled
  <2>4. Removed(rows[w]) # Null
    BY <2>3, StoreAssumption DEF Row
  <2>5. WriteThrough(w, Removed(rows[w]))
    BY <1>2 DEF Remove
  <2>6. WritesThrough
    BY <1>1, <2>3, <2>4, <2>5 DEF WritesThrough, Continues
  <2> QED
    BY <2>6, WriteThroughContinues
<1>3. CASE ~Hits(p)
  BY <1>3 DEF Remove, VersionsStep, VersionsAgree, Continues
<1> QED
  BY <1>2, <1>3

(***************************************************************************)
(* What is known of a request at each of its places.                       *)
(***************************************************************************)
Owned(p, w) == rows[w] # Null /\ rows[w].owner = call[p].user

ClientErrors == {"invalid", "nonZeroBalance", "wrongUser", "walletNotFound",
                 "insufficientFunds", "wrongCurrency"}

\* Its change is committed exactly in its last statement, and its answer
\* says so.
AnswerOK(p) ==
    /\ pc[p] = "verify" => p \in applied
    /\ pc[p] \notin {"verify", "done"} => p \notin applied
    /\ pc[p] # "done" => outcome[p] = "none"
    /\ outcome[p] = "ok" /\ call[p].op # "delete" => p \in applied
    /\ outcome[p] \in ClientErrors => p \notin applied
    /\ pc[p] # "idle" /\ call[p].malformed =>
          outcome[p] = "invalid" \/ call[p].op = "transfer"

\* A wallet it deletes was the user's when it looked, and one it has deleted
\* is out of use.
DeleteOK(p) ==
    /\ pc[p] = "remove" => Owned(p, call[p].wallet)
    /\ outcome[p] = "ok" /\ call[p].op = "delete" =>
          rows[call[p].wallet] # Null /\ ~rows[call[p].wallet].active

\* The wallets its transaction has written are the user's.
MoneyOK(p) ==
    call[p].op \in MoneyOps =>
        /\ pc[p] \in {"credit", "publish", "commit"} /\ call[p].from # Null
              => Owned(p, call[p].from)
        /\ pc[p] \in {"publish", "commit"} /\ call[p].to # Null
              => Owned(p, call[p].to)

TransactionsOK ==
    \A t \in transactions :
        /\ pc[t.id] = "done"
        /\ \A w \in {t.to, t.from} \ {Null} : Owned(t.id, w)

RequestOK(p) == AnswerOK(p) /\ DeleteOK(p) /\ MoneyOK(p)

AnswersInv ==
    /\ VersionsAgree
    /\ \A p \in Requests : RequestOK(p)
    /\ TransactionsOK

\* The wallets a request names.
LEMMA NamedWallets ==
    ASSUME IInv, NEW p \in Requests, pc[p] # "idle"
    PROVE  /\ call[p].op \in MoneyOps =>
                 call[p].from \in Wallets \cup {Null} /\ call[p].to \in Wallets \cup {Null}
           /\ call[p].op \in WalletOps => call[p].wallet \in Wallets
           /\ call[p].op \in MoneyOps \cup WalletOps
<1>1. call[p] \in Bodies
  BY DEF IInv, StagesOK
<1> QED
  BY <1>1, BodyShape DEF MoneyBody, WalletBody

\* A request that did not move keeps what is known of it, as long as the
\* wallets only get newer versions.
LEMMA OthersKeep ==
    ASSUME IInv, NEW q \in Requests, RequestOK(q), VersionsStep,
           pc'[q] = pc[q], call'[q] = call[q], outcome'[q] = outcome[q],
           (q \in applied') <=> (q \in applied)
    PROVE  RequestOK(q)'
<1>1. AnswerOK(q)'
  BY DEF RequestOK, AnswerOK
<1>2. ASSUME NEW w \in Wallets, Owned(q, w)
      PROVE  Owned(q, w)'
  BY <1>2 DEF Owned, VersionsStep, Continues
<1>3. outcome[q] = "ok" => pc[q] = "done"
  BY DEF RequestOK, AnswerOK
<1>4. DeleteOK(q)'
  <2>1. pc[q] = "remove" => call[q].wallet \in Wallets
    <3>1. pc[q] = "remove" => call[q].op = "delete"
      BY NamedWallets DEF IInv, StagesOK, StagesOf, Busy, MoneyOps, WalletOps
    <3> QED
      BY <3>1, NamedWallets DEF WalletOps
  <2>2. outcome[q] = "ok" /\ call[q].op = "delete" => call[q].wallet \in Wallets
    BY <1>3, NamedWallets DEF WalletOps
  <2> QED
    BY <1>2, <2>1, <2>2 DEF RequestOK, DeleteOK, VersionsStep, Continues, Owned
<1>5. MoneyOK(q)'
  BY <1>2, NamedWallets DEF RequestOK, MoneyOK
<1> QED
  BY <1>1, <1>4, <1>5 DEF RequestOK

\* A step of request p, which writes no row of table transactions or its own.
Moves(p) ==
    /\ \A q \in Requests \ {p} :
         /\ pc'[q] = pc[q] /\ call'[q] = call[q] /\ outcome'[q] = outcome[q]
         /\ (q \in applied') <=> (q \in applied)
    /\ pc[p] # "done"
    /\ \/ transactions' = transactions
       \/ /\ transactions' = transactions \cup {TxRecord(p)}
          /\ pc'[p] = "done" /\ call'[p] = call[p]
          /\ \A w \in {call[p].to, call[p].from} \ {Null} :
                w \in Wallets /\ Owned(p, w)

LEMMA MoveKeeps ==
    ASSUME IInv, AnswersInv, VersionsStep, NEW p \in Requests, Moves(p),
           RequestOK(p)'
    PROVE  AnswersInv'
<1>1. ASSUME NEW q \in Requests
      PROVE  RequestOK(q)'
  BY OthersKeep DEF Moves, AnswersInv
<1>2. ASSUME NEW t \in transactions'
      PROVE  /\ pc'[t.id] = "done"
             /\ \A w \in {t.to, t.from} \ {Null} : Owned(t.id, w)'
  <2>1. CASE t \in transactions
    <3>1. t \in TxRow
      BY <2>1 DEF IInv, TypeOK, StoreTypeOK
    <3>2. t.id \in Requests /\ {t.to, t.from} \ {Null} \subseteq Wallets
      BY <3>1 DEF TxRow
    <3>3. pc'[t.id] = "done" /\ call'[t.id] = call[t.id]
      BY <2>1, <3>2 DEF Moves, AnswersInv, TransactionsOK
    <3>4. \A w \in {t.to, t.from} \ {Null} : Owned(t.id, w)
      BY <2>1 DEF AnswersInv, TransactionsOK
    <3> QED
      BY <3>2, <3>3, <3>4 DEF Owned, VersionsStep, Continues
  <2>2. CASE t \notin transactions
    <3>1. /\ t = TxRecord(p) /\ pc'[p] = "done" /\ call'[p] = call[p]
          /\ \A w \in {call[p].to, call[p].from} \ {Null} :
                w \in Wallets /\ Owned(p, w)
      BY <2>2 DEF Moves
    <3>2. t.id = p /\ t.to = call[p].to /\ t.from = call[p].from
      BY <3>1 DEF TxRecord
    <3> QED
      BY <3>1, <3>2 DEF Owned, VersionsStep, Continues
  <2> QED
    BY <2>1, <2>2
<1> QED
  BY <1>1, <1>2 DEF AnswersInv, TransactionsOK, VersionsStep

(***************************************************************************)
(* The steps of a request.                                                 *)
(***************************************************************************)
\* The row a statement finds is the user's, in the committed version too.
LEMMA FoundIsOwned ==
    ASSUME IInv, VersionsAgree, NEW p \in Requests, Target(p) \in Wallets, Hits(p)
    PROVE  Owned(p, Target(p))
<1>1. Newest(p) # Null /\ Newest(p).owner = call[p].user
  BY VisibleSound, MatchesLive DEF Hits, Newest, IInv
<1> QED
  BY <1>1 DEF Newest, Visible, VersionsAgree, Continues, Owned

LEMMA SameVersions ==
    ASSUME VersionsAgree, UNCHANGED <<rows, latest>>
    PROVE  VersionsStep
BY DEF VersionsStep, VersionsAgree, Continues

\* A rollback: nothing of the request is applied, and it does not say ok.
LEMMA AbortAnswers ==
    ASSUME IInv, AnswersInv, NEW p \in Requests, NEW e \in Outcomes \ {"ok"},
           Busy(p), pc[p] # "verify" \/ e = "internal", Abort(p, e)
    PROVE  AnswersInv'
<1>1. /\ pc' = [pc EXCEPT ![p] = "done"] /\ outcome' = [outcome EXCEPT ![p] = e]
      /\ UNCHANGED <<call, transactions, applied>> /\ Discard(p)
  BY DEF Abort, Finish, Discard
<1>2. VersionsStep
  BY <1>1, EndContinues DEF AnswersInv
<1>3. Moves(p)
  BY <1>1 DEF Moves, Busy, IInv, TypeOK
<1>4. pc'[p] = "done" /\ outcome'[p] = e /\ e # "ok"
  BY <1>1 DEF IInv, TypeOK
<1>5. /\ e \in ClientErrors => p \notin applied
      /\ call[p].malformed => call[p].op = "transfer"
  BY DEF AnswersInv, RequestOK, AnswerOK, Busy, ClientErrors
<1>6. AnswerOK(p)' /\ DeleteOK(p)' /\ MoneyOK(p)'
  BY <1>1, <1>4, <1>5 DEF AnswerOK, DeleteOK, MoneyOK
<1> QED
  BY <1>2, <1>3, <1>6, MoveKeeps DEF RequestOK

\* The handler goes on.
LEMMA GotoAnswers ==
    ASSUME IInv, AnswersInv, VersionsStep, NEW p \in Requests,
           NEW s \in Stages \ {"idle", "verify", "done"},
           Busy(p), pc[p] # "verify", Goto(p, s),
           UNCHANGED <<call, transactions, applied>>,
           s = "remove" => Owned(p, call[p].wallet)',
           MoneyOK(p)'
    PROVE  AnswersInv'
<1>1. pc' = [pc EXCEPT ![p] = s] /\ outcome' = outcome /\ pc'[p] = s
  BY DEF Goto, IInv, TypeOK
<1>2. Moves(p)
  BY <1>1 DEF Moves, Busy, IInv, TypeOK
<1>3. /\ p \notin applied /\ outcome[p] = "none"
      /\ call[p].malformed => call[p].op = "transfer"
  BY DEF AnswersInv, RequestOK, AnswerOK, Busy
<1>4. AnswerOK(p)' /\ DeleteOK(p)'
  BY <1>1, <1>3 DEF AnswerOK, DeleteOK, ClientErrors
<1> QED
  BY <1>2, <1>4, MoveKeeps DEF RequestOK

LEMMA ReadAnswers ==
    ASSUME IInv, AnswersInv, NEW p \in Requests, ReadWallet(p) \/ ReadTarget(p)
    PROVE  AnswersInv'
<1>1. Busy(p) /\ pc[p] \in {"read", "readTo"} /\ Target(p) \in Wallets
  BY TargetType DEF ReadWallet, ReadTarget, Busy, IInv
<1>2. CASE \E e \in {"walletNotFound", "nonZeroBalance"} : Abort(p, e)
  BY <1>1, <1>2, AbortAnswers DEF Outcomes
<1>3. ASSUME Hits(p), NEW s \in {"readTo", "remove", "quote"}, Goto(p, s),
             s = "remove" => call[p].op = "delete" /\ pc[p] = "read",
             UNCHANGED <<rows, latest, transactions, call, applied>>
      PROVE  AnswersInv'
  <2>1. VersionsStep
    BY <1>3, SameVersions DEF AnswersInv
  <2>2. s = "remove" => Owned(p, call[p].wallet)'
    <3>1. s = "remove" => Target(p) = call[p].wallet
      BY <1>3 DEF Target, WalletOps
    <3> QED
      BY <1>1, <1>3, <3>1, FoundIsOwned DEF Owned, AnswersInv
  <2>3. pc'[p] = s
    BY <1>3 DEF Goto, IInv, TypeOK
  <2>4. MoneyOK(p)'
    BY <1>3, <2>3 DEF MoneyOK
  <2> QED
    BY <1>1, <1>3, <2>1, <2>2, <2>4, GotoAnswers DEF Stages
<1> QED
  BY <1>1, <1>2, <1>3 DEF ReadWallet, ReadTarget, AfterRead

LEMMA QuoteAnswers ==
    ASSUME IInv, AnswersInv, NEW p \in Requests, pc[p] = "quote",
           NEW same, NEW c, NEW d, NEW enough, Quote(p, same, c, d, enough)
    PROVE  AnswersInv'
<1>1. Busy(p)
  BY DEF Busy
<1>2. CASE \E e \in {"wrongCurrency", "insufficientFunds"} : Abort(p, e)
  BY <1>1, <1>2, AbortAnswers DEF Outcomes
<1>3. CASE /\ Goto(p, "write")
           /\ UNCHANGED <<rows, latest, transactions, call, applied>>
  <2>1. VersionsStep
    BY <1>3, SameVersions DEF AnswersInv
  <2>2. pc'[p] = "write"
    BY <1>3 DEF Goto, IInv, TypeOK
  <2>3. MoneyOK(p)'
    BY <1>3, <2>2 DEF MoneyOK
  <2> QED
    BY <1>1, <1>3, <2>1, <2>3, GotoAnswers DEF Stages
<1> QED
  BY <1>2, <1>3 DEF Quote

LEMMA QuotesAnswer ==
    ASSUME IInv, AnswersInv, NEW p \in Requests,
           \/ QuoteUpdate(p) \/ QuoteDeposit(p)
           \/ QuoteWithdraw(p) \/ QuoteTransfer(p)
    PROVE  AnswersInv'
<1>1. pc[p] = "quote" /\ Busy(p)
  BY DEF QuoteUpdate, QuoteDeposit, QuoteWithdraw, QuoteTransfer, Busy
<1>2. CASE Abort(p, "wrongCurrency")
  BY <1>1, <1>2, AbortAnswers DEF Outcomes
<1>3. CASE \E same, c, d, enough : Quote(p, same, c, d, enough)
  BY <1>1, <1>3, QuoteAnswers
<1> QED
  BY <1>2, <1>3 DEF QuoteUpdate, QuoteDeposit, QuoteWithdraw, QuoteTransfer

\* An UPDATE writes only what it found, which is the user's.
LEMMA StoresAnswer ==
    ASSUME IInv, AnswersInv, NEW p \in Requests,
           \/ StoreUpdate(p) \/ StoreDeposit(p) \/ StoreWithdraw(p)
           \/ StoreDebit(p) \/ StoreCredit(p)
    PROVE  AnswersInv'
<1>1. PICK r, s : Writes(p, r, s)
  BY StoreShape
<1>2. Busy(p) /\ pc[p] \in {"write", "credit"} /\ Update(p, r, s)
  BY <1>1 DEF Writes, Busy
<1>3. CASE \E e \in {"walletNotFound", "balanceCheck"} : Abort(p, e)
  BY <1>2, <1>3, AbortAnswers DEF Outcomes
<1>4. CASE /\ Hits(p) /\ CheckHolds(r) /\ Write(p, Target(p), r) /\ Goto(p, s)
           /\ UNCHANGED <<rows, transactions, call, applied>>
  <2>1. VersionsStep
    BY <1>1, <1>4, StoreContinues DEF AnswersInv
  <2>2. Target(p) \in Wallets
    BY <1>2, TargetType DEF IInv
  <2>3. Owned(p, Target(p))
    BY <1>4, <2>2, FoundIsOwned DEF AnswersInv
  <2>4. pc'[p] = s /\ s \in {"credit", "publish", "commit"}
    BY <1>1, <1>4 DEF Writes, Goto, IInv, TypeOK
  <2>5. ASSUME call[p].op \in MoneyOps
        PROVE  /\ call[p].from # Null => Owned(p, call[p].from)
               /\ s # "credit" /\ call[p].to # Null => Owned(p, call[p].to)
    <3>1. ValidTransaction(call[p]) /\ s # "commit" /\ pc[p] \in StagesOf(call[p].op)
      BY <1>1, <1>2, <2>5 DEF IInv, StagesOK, Writes
    <3>2. CASE pc[p] = "credit"
      <4>1. Target(p) = call[p].to
        BY <2>5, <3>2 DEF Target, MoneyOps, WalletOps
      <4>2. MoneyOK(p)
        BY DEF AnswersInv, RequestOK
      <4>3. call[p].from # Null => Owned(p, call[p].from)
        BY <2>5, <3>2, <4>2 DEF MoneyOK
      <4> QED
        BY <2>3, <4>1, <4>3
    <3>3. CASE pc[p] = "write" /\ s = "credit"
      <4>1. call[p].op = "transfer"
        BY <1>1, <2>5, <3>3 DEF Writes, StagesOf, MoneyOps
      <4>2. Target(p) = call[p].from
        BY <3>3, <4>1 DEF Target, WalletOps
      <4> QED
        BY <2>3, <3>3, <4>2
    <3>4. CASE pc[p] = "write" /\ s = "publish"
      <4>1. call[p].op \in {"deposit", "withdraw"}
        BY <1>1, <3>4 DEF Writes
      <4>2. CASE call[p].op = "deposit"
        BY <2>3, <3>1, <4>2 DEF Target, WalletOps, ValidTransaction
      <4>3. CASE call[p].op = "withdraw"
        BY <2>3, <3>1, <3>4, <4>3 DEF Target, WalletOps, ValidTransaction
      <4> QED
        BY <4>1, <4>2, <4>3
    <3> QED
      BY <1>2, <2>4, <3>1, <3>2, <3>3, <3>4
  <2>6. MoneyOK(p)'
    BY <1>4, <2>4, <2>5 DEF MoneyOK, Owned
  <2> QED
    BY <1>2, <1>4, <2>1, <2>4, <2>6, GotoAnswers DEF Stages
<1> QED
  BY <1>2, <1>3, <1>4 DEF Update

LEMMA PublishAnswers ==
    ASSUME IInv, AnswersInv, NEW p \in Requests, Publish(p)
    PROVE  AnswersInv'
<1>1. VersionsStep
  BY SameVersions DEF Publish, AnswersInv
<1>2. pc'[p] = "commit" /\ pc[p] = "publish"
  BY DEF Publish, Goto, IInv, TypeOK
<1>3. MoneyOK(p)'
  BY <1>2 DEF Publish, MoneyOK, Owned, AnswersInv, RequestOK
<1> QED
  BY <1>1, <1>2, <1>3, GotoAnswers DEF Publish, Stages, Busy

\* The COMMIT makes the change, and its record, which names only wallets of
\* the user.
LEMMA CommitAnswers ==
    ASSUME IInv, AnswersInv, NEW p \in Requests, NEW ack \in BOOLEAN,
           Commit(p, ack)
    PROVE  AnswersInv'
<1>1. PICK e \in {"ok", "internal"} : Finish(p, e)
  BY DEF Commit
<1>2. /\ pc' = [pc EXCEPT ![p] = "done"] /\ outcome' = [outcome EXCEPT ![p] = e]
      /\ call' = call /\ applied' = applied \cup {p}
      /\ pc'[p] = "done" /\ outcome'[p] = e
  BY <1>1 DEF Finish, Commit, IInv, TypeOK
<1>3. Busy(p) /\ pc[p] = "commit" /\ call[p].op # "delete"
  BY DEF Commit, Busy, IInv, StagesOK, StagesOf
<1>4. VersionsStep
  BY EndContinues DEF Commit, AnswersInv
<1>5. call[p].op \in MoneyOps =>
         \A w \in {call[p].to, call[p].from} \ {Null} : w \in Wallets /\ Owned(p, w)
  BY <1>3, NamedWallets DEF AnswersInv, RequestOK, MoneyOK
<1>6. Moves(p)
  BY <1>2, <1>3, <1>5 DEF Moves, Commit, IInv, TypeOK
<1>7. call[p].malformed => call[p].op = "transfer"
  BY <1>3 DEF AnswersInv, RequestOK, AnswerOK
<1>8. AnswerOK(p)' /\ DeleteOK(p)' /\ MoneyOK(p)'
  BY <1>2, <1>3, <1>7 DEF AnswerOK, DeleteOK, MoneyOK, ClientErrors
<1> QED
  BY <1>4, <1>6, <1>8, MoveKeeps DEF RequestOK

\* A wallet is created by one statement, whatever is answered then.
LEMMA InsertAnswers ==
    ASSUME IInv, AnswersInv, NEW p \in Requests, NEW ack \in BOOLEAN,
           Insert(p, ack)
    PROVE  AnswersInv'
<1>1. Busy(p) /\ pc[p] = "insert" /\ call[p].op = "create"
  BY BodyShape DEF Insert, Busy, IInv, StagesOK, StagesOf, MoneyOps, WalletOps
<1>2. /\ p \notin applied /\ outcome[p] = "none"
      /\ call[p].malformed => call[p].op = "transfer"
  BY <1>1 DEF AnswersInv, RequestOK, AnswerOK
<1>3. VersionsStep
  BY InsertContinues DEF AnswersInv
<1>4. \/ /\ applied' = applied \cup {p}
         /\ (Goto(p, "verify") /\ call' = call) \/ Finish(p, "internal")
      \/ /\ applied' = applied
         /\ Finish(p, "duplicateKey") \/ Finish(p, "foreignKey")
  BY DEF Insert
<1>5. PICK s \in {"verify", "done"}, e \in {"none", "internal", "duplicateKey", "foreignKey"} :
         /\ pc' = [pc EXCEPT ![p] = s] /\ pc'[p] = s
         /\ outcome' = [outcome EXCEPT ![p] = e] /\ outcome'[p] = e
         /\ call' = call
         /\ s = "verify" => e = "none" /\ p \in applied'
         /\ applied' \in {applied, applied \cup {p}}
  <2>1. /\ pc \in [Requests -> Stages] /\ outcome \in [Requests -> Outcomes]
        /\ outcome = [outcome EXCEPT ![p] = "none"]
    BY <1>2 DEF IInv, TypeOK
  <2>2. CASE Goto(p, "verify") /\ call' = call /\ applied' = applied \cup {p}
    BY <2>1, <2>2 DEF Goto
  <2>3. ASSUME NEW e \in {"internal", "duplicateKey", "foreignKey"}, Finish(p, e)
        PROVE  /\ pc' = [pc EXCEPT ![p] = "done"] /\ pc'[p] = "done"
               /\ outcome' = [outcome EXCEPT ![p] = e] /\ outcome'[p] = e
               /\ call' = call
    BY <2>1, <2>3 DEF Finish
  <2> QED
    BY <1>4, <2>2, <2>3
<1>6. Moves(p)
  BY <1>1, <1>5 DEF Moves, Insert, IInv, TypeOK
<1>7. AnswerOK(p)' /\ DeleteOK(p)' /\ MoneyOK(p)'
  BY <1>1, <1>2, <1>5 DEF AnswerOK, DeleteOK, MoneyOK, ClientErrors, MoneyOps
<1> QED
  BY <1>3, <1>6, <1>7, MoveKeeps DEF RequestOK

\* Reading the wallet back, or failing to, ends the creation.
LEMMA VerifyAnswers ==
    ASSUME IInv, AnswersInv, NEW p \in Requests, pc[p] = "verify",
           Finish(p, "ok"), UNCHANGED <<transactions, applied>>, VersionsStep
    PROVE  AnswersInv'
<1>1. call[p].op = "create"
  BY BodyShape DEF Busy, IInv, StagesOK, StagesOf, MoneyOps, WalletOps
<1>2. /\ p \in applied /\ outcome[p] = "none"
      /\ call[p].malformed => call[p].op = "transfer"
  BY DEF AnswersInv, RequestOK, AnswerOK
<1>3. /\ pc' = [pc EXCEPT ![p] = "done"] /\ outcome' = [outcome EXCEPT ![p] = "ok"]
      /\ call' = call /\ pc'[p] = "done" /\ outcome'[p] = "ok"
  BY DEF Finish, IInv, TypeOK
<1>4. Moves(p)
  BY <1>3 DEF Moves, IInv, TypeOK
<1>5. AnswerOK(p)' /\ DeleteOK(p)' /\ MoneyOK(p)'
  BY <1>1, <1>2, <1>3 DEF AnswerOK, DeleteOK, MoneyOK, ClientErrors
<1> QED
  BY <1>4, <1>5, MoveKeeps DEF RequestOK

\* A deletion that finds its wallet puts it out of use; one that does not
\* finds it out of use, as it was the user's a moment ago.
LEMMA RemoveAnswers ==
    ASSUME IInv, AnswersInv, NEW p \in Requests, NEW ack \in BOOLEAN,
           Remove(p, ack)
    PROVE  AnswersInv'
<1> DEFINE w == call[p].wallet
<1>1. Busy(p) /\ pc[p] = "remove" /\ call[p].op = "delete"
  BY BodyShape DEF Remove, Busy, IInv, StagesOK, StagesOf, MoneyOps, WalletOps
<1>2. Target(p) = w /\ w \in Wallets /\ Visible(p, w) = rows[w]
  <2>1. Target(p) = w /\ w \in Wallets
    BY <1>1, NamedWallets DEF Target, WalletOps
  <2> QED
    BY <1>1, <2>1, ReadsCommitted
<1>3. /\ Owned(p, w) /\ outcome[p] = "none"
      /\ call[p].malformed => call[p].op = "transfer"
  BY <1>1 DEF AnswersInv, RequestOK, AnswerOK, DeleteOK
<1>4. VersionsStep
  BY RemoveContinues DEF AnswersInv
<1>5. PICK e \in {"ok", "internal"} :
         /\ pc' = [pc EXCEPT ![p] = "done"] /\ pc'[p] = "done"
         /\ outcome' = [outcome EXCEPT ![p] = e] /\ outcome'[p] = e
         /\ call' = call /\ applied' \in {applied, applied \cup {p}}
  BY DEF Remove, Finish, IInv, TypeOK
<1>6. Moves(p)
  BY <1>1, <1>5 DEF Moves, Remove, IInv, TypeOK
<1>7. rows'[w] # Null /\ ~rows'[w].active
  <2>1. rows[w] \in Row /\ Sound(rows[w])
    BY <1>2, <1>3 DEF Owned, IInv, TypeOK, StoreTypeOK, VersionsOK
  <2>2. rows'[w] # Null /\ (~rows[w].active => ~rows'[w].active)
    BY <1>2, <1>3, <1>4 DEF VersionsStep, Continues, Owned
  <2>3. CASE Hits(p)
    <3>1. rows'[w] = Removed(rows[w])
      BY <1>2, <2>3 DEF Remove, WriteThrough, IInv, TypeOK, StoreTypeOK
    <3> QED
      BY <2>1, <2>2, <3>1 DEF Removed, Row
  <2>4. CASE ~Hits(p)
    BY <1>1, <1>2, <1>3, <2>1, <2>2, <2>4
       DEF Hits, Matches, Removable, Present, Owned, Sound
  <2> QED
    BY <2>3, <2>4
<1>8. AnswerOK(p)' /\ DeleteOK(p)' /\ MoneyOK(p)'
  BY <1>1, <1>3, <1>5, <1>7 DEF AnswerOK, DeleteOK, MoneyOK, ClientErrors
<1> QED
  BY <1>4, <1>6, <1>8, MoveKeeps DEF RequestOK

\* Of the failures only one ends with ok: the read of a wallet just created.
LEMMA FailuresAnswer ==
    ASSUME IInv, AnswersInv, NEW p \in Requests, PublishFails(p) \/ Fail(p)
    PROVE  AnswersInv'
<1>1. CASE Abort(p, "internal")
  BY <1>1, AbortAnswers DEF PublishFails, Fail, Busy, Outcomes
<1>2. CASE pc[p] = "verify" /\ Abort(p, "ok")
  <2>1. VersionsStep
    BY <1>2, EndContinues DEF Abort, AnswersInv
  <2> QED
    BY <1>2, <2>1, VerifyAnswers DEF Abort, Discard
<1> QED
  BY <1>1, <1>2 DEF PublishFails, Fail

\* A request that is turned down has not begun.
LEMMA ReceiveAnswers ==
    ASSUME IInv, AnswersInv, NEW p \in Requests, Receive(p)
    PROVE  AnswersInv'
<1>1. PICK b \in Bodies :
         /\ call' = [call EXCEPT ![p] = b]
         /\ IF Validated(b) = "ok"
            THEN Goto(p, IF b.op = "create" THEN "insert" ELSE "read")
            ELSE /\ pc' = [pc EXCEPT ![p] = "done"]
                 /\ outcome' = [outcome EXCEPT ![p] = Validated(b)]
  BY DEF Receive
<1>2. /\ pc[p] = "idle" /\ outcome[p] = "none" /\ p \notin applied
      /\ UNCHANGED <<rows, latest, transactions, applied>>
  BY DEF Receive, AnswersInv, RequestOK, AnswerOK
<1>3. PICK s \in {"insert", "read", "done"} :
         /\ pc' = [pc EXCEPT ![p] = s] /\ pc'[p] = s
         /\ s = "done" <=> Validated(b) # "ok"
  BY <1>1 DEF Goto, IInv, TypeOK
<1>4. call'[p] = b
  BY <1>1 DEF IInv, TypeOK
<1>5. PICK e \in {"none", "invalid", "wrongUser"} :
         /\ outcome' = [outcome EXCEPT ![p] = e] /\ outcome'[p] = e
         /\ e = IF s = "done" THEN Validated(b) ELSE "none"
  <2>1. outcome \in [Requests -> Outcomes]
    BY DEF IInv, TypeOK
  <2>2. CASE s = "done"
    BY <1>1, <1>3, <2>1, <2>2 DEF Validated
  <2>3. CASE s # "done"
    <3>1. outcome' = outcome
      BY <1>1, <1>3, <2>3 DEF Goto
    <3> QED
      BY <1>2, <2>1, <2>3, <3>1
  <2> QED
    BY <2>2, <2>3
<1>6. b.malformed => e = "invalid" \/ b.op = "transfer"
  BY <1>3, <1>5 DEF Validated, Invalid
<1>7. VersionsStep
  BY <1>2, SameVersions DEF AnswersInv
<1>8. Moves(p)
  BY <1>1, <1>2, <1>3, <1>5 DEF Moves, IInv, TypeOK
<1>9. AnswerOK(p)' /\ DeleteOK(p)' /\ MoneyOK(p)'
  BY <1>2, <1>3, <1>4, <1>5, <1>6 DEF AnswerOK, DeleteOK, MoneyOK, ClientErrors
<1> QED
  BY <1>7, <1>8, <1>9, MoveKeeps DEF RequestOK

(***************************************************************************)
(* The other steps, and the theorems.                                      *)
(***************************************************************************)
\* The archiver and time do not touch requests.
LEMMA NobodyMoves ==
    ASSUME IInv, AnswersInv, VersionsStep,
           UNCHANGED <<pc, call, outcome, applied, transactions>>
    PROVE  AnswersInv'
<1>1. ASSUME NEW q \in Requests
      PROVE  RequestOK(q)'
  BY OthersKeep DEF AnswersInv
<1>2. ASSUME NEW t \in transactions
      PROVE  /\ pc'[t.id] = "done"
             /\ \A w \in {t.to, t.from} \ {Null} : Owned(t.id, w)'
  <2>1. {t.to, t.from} \ {Null} \subseteq Wallets
    BY DEF IInv, TypeOK, StoreTypeOK, TxRow
  <2> QED
    BY <2>1 DEF AnswersInv, TransactionsOK, Owned, VersionsStep, Continues
<1> QED
  BY <1>1, <1>2 DEF AnswersInv, TransactionsOK, VersionsStep

LEMMA CrashAnswers ==
    ASSUME IInv, AnswersInv, Crash
    PROVE  AnswersInv'
<1>1. VersionsStep
  BY EndContinues DEF AnswersInv
<1>2. ASSUME NEW q \in Requests
      PROVE  /\ pc'[q] = IF Busy(q) THEN "done" ELSE pc[q]
             /\ outcome'[q] = IF Busy(q) THEN "lost" ELSE outcome[q]
             /\ call' = call /\ applied' = applied /\ transactions' = transactions
  BY DEF Crash
<1>3. ASSUME NEW q \in Requests
      PROVE  RequestOK(q)'
  <2>1. RequestOK(q)
    BY DEF AnswersInv
  <2>2. CASE Busy(q)
    <3>1. call[q].malformed => call[q].op = "transfer"
      BY <2>1, <2>2 DEF RequestOK, AnswerOK, Busy
    <3> QED
      BY <1>2, <2>2, <3>1 DEF RequestOK, AnswerOK, DeleteOK, MoneyOK, ClientErrors
  <2>3. CASE ~Busy(q)
    BY <1>1, <1>2, <2>1, <2>3, OthersKeep
  <2> QED
    BY <2>2, <2>3
<1>4. ASSUME NEW t \in transactions
      PROVE  /\ pc'[t.id] = "done"
             /\ \A w \in {t.to, t.from} \ {Null} : Owned(t.id, w)'
  <2>1. {t.to, t.from} \ {Null} \subseteq Wallets /\ t.id \in Requests
    BY DEF IInv, TypeOK, StoreTypeOK, TxRow
  <2>2. pc[t.id] = "done" /\ \A w \in {t.to, t.from} \ {Null} : Owned(t.id, w)
    BY DEF AnswersInv, TransactionsOK
  <2>3. pc'[t.id] = "done" /\ call' = call
    BY <1>2, <2>1, <2>2 DEF Busy
  <2> QED
    BY <1>1, <2>1, <2>2, <2>3 DEF Owned, VersionsStep, Continues
<1> QED
  BY <1>1, <1>2, <1>3, <1>4 DEF AnswersInv, TransactionsOK, VersionsStep, Crash

LEMMA AnswersInitial == Init => AnswersInv
<1> SUFFICES ASSUME Init PROVE AnswersInv
  OBVIOUS
<1>1. VersionsAgree
  BY DEF Init, VersionsAgree, Continues, Settled, NothingIsArchived
<1>2. ASSUME NEW p \in Requests
      PROVE  RequestOK(p)
  BY DEF Init, RequestOK, AnswerOK, DeleteOK, MoneyOK, ClientErrors
<1> QED
  BY <1>1, <1>2 DEF AnswersInv, TransactionsOK, Init

LEMMA AnswersStep ==
    ASSUME IInv, AnswersInv, [Next]_vars
    PROVE  AnswersInv'
<1>1. ASSUME NEW p \in Requests, Receive(p)
      PROVE  AnswersInv'
  BY <1>1, ReceiveAnswers
<1>2. ASSUME NEW p \in Requests, Verify(p)
      PROVE  AnswersInv'
  <2>1. VersionsStep
    BY <1>2, SameVersions DEF Verify, AnswersInv
  <2> QED
    BY <1>2, <2>1, VerifyAnswers DEF Verify
<1>3. ASSUME NEW p \in Requests, Step(p)
      PROVE  AnswersInv'
  BY <1>2, <1>3, InsertAnswers, RemoveAnswers, ReadAnswers, QuotesAnswer,
     StoresAnswer, PublishAnswers, CommitAnswers DEF Step
<1>4. ASSUME NEW p \in Requests, Failure(p)
      PROVE  AnswersInv'
  BY <1>4, InsertAnswers, RemoveAnswers, CommitAnswers, FailuresAnswer DEF Failure
<1>5. CASE ArchiveAborts
  <2>1. VersionsStep
    BY <1>5, EndContinues DEF ArchiveAborts, AnswersInv
  <2> QED
    BY <1>5, <2>1, NobodyMoves DEF ArchiveAborts, requestVars, Discard
<1>6. ASSUME NEW p \in Procs, Victim(p)
      PROVE  AnswersInv'
  <2>1. CASE p = Archiver
    BY <1>5, <1>6, <2>1 DEF Victim
  <2>2. CASE p # Archiver
    <3>1. p \in Requests /\ Abort(p, "internal")
      BY <1>6, <2>2 DEF Victim, Procs
    <3>2. Blocked(p)
      BY <1>6 DEF Victim, Deadlocked
    <3>3. Busy(p)
      BY <2>2, <3>2 DEF Blocked, Waits, Busy
    <3> QED
      BY <3>1, <3>3, AbortAnswers DEF Outcomes
  <2> QED
    BY <2>1, <2>2
<1>7. CASE Age
  <2>1. VersionsStep
    BY <1>7, AgeContinues DEF AnswersInv
  <2> QED
    BY <1>7, <2>1, NobodyMoves DEF Age, requestVars
<1>8. CASE ArchiveStart
  BY <1>8, SameVersions, NobodyMoves DEF ArchiveStart, storeVars, requestVars, AnswersInv
<1>9. CASE ArchiveRow
  <2>1. VersionsStep
    BY <1>9, ArchiveContinues DEF AnswersInv
  <2> QED
    BY <1>9, <2>1, NobodyMoves DEF ArchiveRow, requestVars
<1>10. ASSUME NEW ack \in BOOLEAN, ArchiveCommit(ack)
       PROVE  AnswersInv'
  <2>1. VersionsStep
    BY <1>10, EndContinues DEF ArchiveCommit, AnswersInv
  <2> QED
    BY <1>10, <2>1, NobodyMoves DEF ArchiveCommit, requestVars
<1>11. CASE Crash
  BY <1>11, CrashAnswers
<1>12. CASE UNCHANGED vars
  BY <1>12, SameVersions, NobodyMoves DEF vars, AnswersInv
<1> QED
  BY <1>1, <1>3, <1>4, <1>5, <1>6, <1>7, <1>8, <1>9, <1>10, <1>11, <1>12
     DEF Next, Archive, ArchiveFails, Finished

\* The invariant of the answers, in every behaviour of the service.
THEOREM AnswersInductive == Spec => [](IInv /\ AnswersInv)
<1>1. Init => AnswersInv
  BY AnswersInitial
<1>2. IInv /\ AnswersInv /\ [Next]_vars => AnswersInv'
  BY AnswersStep
<1> QED
  BY <1>1, <1>2, Inductive, PTL DEF Spec

\* Nobody moves the money of another user.
THEOREM OwnersOnly == Spec => []OnlyOwnersMoveMoney
<1>1. AnswersInv => OnlyOwnersMoveMoney
  BY DEF AnswersInv, TransactionsOK, Owned, OnlyOwnersMoveMoney
<1> QED
  BY <1>1, AnswersInductive, PTL

\* What an answer says of the request.
LEMMA StatusMeans ==
    ASSUME IInv, AnswersInv, NEW p \in Answered
    PROVE  /\ p \in Requests /\ pc[p] = "done"
           /\ Status(p) \in 200 .. 299 => outcome[p] = "ok"
           /\ Status(p) \in 400 .. 499 =>
                 outcome[p] \in ClientErrors \/ (call[p].malformed /\ call[p].op = "transfer")
<1>1. p \in Requests /\ pc[p] = "done"
  BY DEF Answered, AnswersInv, RequestOK, AnswerOK
<1>2. CASE call[p].malformed
  BY <1>1, <1>2 DEF Status, AnswersInv, RequestOK, AnswerOK, ClientErrors
<1>3. CASE ~call[p].malformed
  BY <1>1, <1>3 DEF Status, Answer, ClientErrors
<1> QED
  BY <1>1, <1>2, <1>3

\* A success was carried out, whatever happened beside the request: its change
\* is committed, and the wallet of a DELETE is deleted, in every instance that
\* either archives nothing or deletes nothing.  With both, the 204 of a DELETE
\* may be about a wallet that stays, an archived one (store.DeleteWallet asks
\* for active = true).
THEOREM SuccessIsReal ==
    ASSUME NothingIsArchived \/ \A b \in Bodies : b.op # "delete"
    PROVE  Spec => []AcceptedIsCarriedOut
<1>1. IInv /\ AnswersInv => AcceptedIsCarriedOut
  <2> SUFFICES ASSUME IInv, AnswersInv, NEW p \in Answered, Status(p) \in 200 .. 299
               PROVE  IF call[p].op = "delete" THEN rows[call[p].wallet].deleted
                                               ELSE p \in applied
    BY DEF AcceptedIsCarriedOut
  <2>1. /\ p \in Requests /\ pc[p] = "done" /\ outcome[p] = "ok"
        /\ call[p] \in Bodies
    BY StatusMeans DEF IInv, StagesOK
  <2>2. CASE call[p].op # "delete"
    BY <2>1, <2>2 DEF AnswersInv, RequestOK, AnswerOK
  <2>3. CASE call[p].op = "delete"
    <3> DEFINE w == call[p].wallet
    <3>1. w \in Wallets /\ rows[w] # Null /\ ~rows[w].active
      BY <2>1, <2>3, NamedWallets DEF WalletOps, AnswersInv, RequestOK, DeleteOK
    <3> QED
      BY <2>1, <2>3, <3>1 DEF AnswersInv, VersionsAgree, Settled
  <2> QED
    BY <2>2, <2>3
<1> QED
  BY <1>1, AnswersInductive, PTL

\* A rejection changed nothing, unless it was a transfer with a body that
\* does not decode: see the run malformed_transfer.
THEOREM RejectionIsClean ==
    ASSUME \A b \in Bodies : b.op = "transfer" => ~b.malformed
    PROVE  Spec => []RejectedChangesNothing
<1>1. IInv /\ AnswersInv => RejectedChangesNothing
  <2> SUFFICES ASSUME IInv, AnswersInv, NEW p \in Answered, Status(p) \in 400 .. 499
               PROVE  p \notin applied
    BY DEF RejectedChangesNothing
  <2>1. p \in Requests /\ call[p] \in Bodies
    BY StatusMeans DEF IInv, StagesOK
  <2>2. outcome[p] \in ClientErrors
    BY <2>1, StatusMeans
  <2> QED
    BY <2>1, <2>2 DEF AnswersInv, RequestOK, AnswerOK
<1> QED
  BY <1>1, AnswersInductive, PTL
=============================================================================
