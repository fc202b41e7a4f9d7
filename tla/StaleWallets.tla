---------------------------- MODULE StaleWallets ----------------------------
(***************************************************************************)
(* When a wallet is archived: the ticker of Service.Run, the cut-off of    *)
(* store.ArchiveStaleWallets, and the clocks updated_at is written by.     *)
(* The statement itself, its locks and its races are WalletService's.      *)
(*                                                                         *)
(* Time advances in units.  An age is NOW() of the database less           *)
(* updated_at; every age beyond Cap is kept as Cap.                        *)
(***************************************************************************)
EXTENDS Integers

CONSTANTS
    Wallets,        \* wallet ids
    Hour,           \* units in an hour
    CheckPeriod,    \* PERFORM_CHECK_PERIOD
    Behind,         \* the zone of the service, behind that of the database
    TxTime,         \* bound: how long a transaction is open
    Cap,            \* bound: the largest age kept
    MaxChanges      \* bound: changes to the wallets

\* time.NewTicker panics on a period that is not positive.
ASSUME StaleAssumption ==
    /\ Hour \in Nat \ {0} /\ CheckPeriod \in Nat \ {0}
    /\ Behind \in Nat /\ TxTime \in Nat
    /\ Cap \in Nat /\ Cap > CheckPeriod + Behind + TxTime
    /\ MaxChanges \in Nat

VARIABLES
    row,        \* what archiving reads of a wallet's row
    tx,         \* how long the open transaction on a wallet is open, or -1
    left,       \* time until the ticker fires
    ticked,     \* a tick is in the channel, which holds one
    quiet,      \* history: time since the wallet's last committed change
    changes     \* the changes made so far

vars == <<row, tx, left, ticked, quiet, changes>>

Row == [state : {"absent", "active", "archived"}, empty : BOOLEAN, age : 0 .. Cap]

\* int(checkPeriod.Hours()) hours
CutOff == (CheckPeriod \div Hour) * Hour

Init ==
    /\ row = [w \in Wallets |-> [state |-> "absent", empty |-> TRUE, age |-> 0]]
    /\ tx = [w \in Wallets |-> -1]
    /\ left = CheckPeriod /\ ticked = FALSE
    /\ quiet = [w \in Wallets |-> 0] /\ changes = 0

Older(a) == IF a < Cap THEN a + 1 ELSE Cap

\* mutant: time.After, made once before the loop
Mut_Pass ==
    /\ \A w \in Wallets : tx[w] < TxTime
    /\ row' = [w \in Wallets |-> [row[w] EXCEPT !.age = Older(@)]]
    /\ quiet' = [w \in Wallets |-> Older(quiet[w])]
    /\ tx' = [w \in Wallets |-> IF tx[w] = -1 THEN -1 ELSE tx[w] + 1]
    /\ left' = IF left > 0 THEN left - 1 ELSE 0
    /\ ticked' = (ticked \/ left = 1)
    /\ UNCHANGED changes

\* One unit passes.  The ticker drops a tick that finds its channel full.
Pass ==
    /\ \A w \in Wallets : tx[w] < TxTime
    /\ row' = [w \in Wallets |-> [row[w] EXCEPT !.age = Older(@)]]
    /\ quiet' = [w \in Wallets |-> Older(quiet[w])]
    /\ tx' = [w \in Wallets |-> IF tx[w] = -1 THEN -1 ELSE tx[w] + 1]
    /\ left' = IF left = 1 THEN CheckPeriod ELSE left - 1
    /\ ticked' = (ticked \/ left = 1)
    /\ UNCHANGED changes

\* A change of w's row is committed that leaves updated_at at age a.
Changed(w, r, a) ==
    /\ row' = [row EXCEPT ![w] = [r EXCEPT !.age = a]]
    /\ quiet' = [quiet EXCEPT ![w] = 0]
    /\ UNCHANGED <<left, ticked>>

Budget == changes < MaxChanges /\ changes' = changes + 1

\* a new wallet is empty; updated_at is the default of its column
Create(w) ==
    /\ Budget /\ row[w].state = "absent"
    /\ Changed(w, [row[w] EXCEPT !.state = "active"], 0)
    /\ UNCHANGED tx

\* a deposit, a withdrawal or a side of a transfer opens its transaction
Begin(w) ==
    /\ Budget /\ row[w].state # "absent" /\ tx[w] = -1
    /\ tx' = [tx EXCEPT ![w] = 0]
    /\ UNCHANGED <<row, left, ticked, quiet>>

\* mutant: the statement leaves updated_at alone
Mut_Move(w) ==
    /\ tx[w] # -1 /\ row[w].state = "active"
    /\ \E e \in BOOLEAN : Changed(w, [row[w] EXCEPT !.empty = e], row[w].age)
    /\ tx' = [tx EXCEPT ![w] = -1]
    /\ UNCHANGED changes

\* It writes and commits.  updated_at = NOW(), which is the time the
\* transaction began.
Move(w) ==
    /\ tx[w] # -1 /\ row[w].state = "active"
    /\ \E e \in BOOLEAN : Changed(w, [row[w] EXCEPT !.empty = e], tx[w])
    /\ tx' = [tx EXCEPT ![w] = -1]
    /\ UNCHANGED changes

\* It fails, as it does on a wallet archived meanwhile.
GiveUp(w) ==
    /\ tx[w] # -1
    /\ tx' = [tx EXCEPT ![w] = -1]
    /\ UNCHANGED <<row, left, ticked, quiet, changes>>

\* UpdateWallet, which does not look at active.  updated_at is time.Now() of
\* the service, from before the statement waited for the row, and the column
\* drops its zone.
Rename(w) ==
    /\ Budget /\ row[w].state # "absent"
    /\ \E waited \in 0 .. TxTime : Changed(w, row[w], Behind + waited)
    /\ UNCHANGED tx

\* WHERE balance = 0 AND active = true AND updated_at < NOW() - INTERVAL
Stale(r) == r.state = "active" /\ r.empty /\ r.age > CutOff

\* Run takes the tick and archives.
Archive ==
    /\ ticked
    /\ ticked' = FALSE
    /\ row' = [w \in Wallets |->
                 IF Stale(row[w]) THEN [row[w] EXCEPT !.state = "archived"]
                                  ELSE row[w]]
    /\ UNCHANGED <<tx, left, quiet, changes>>

Next ==
    \/ Pass \/ Archive
    \/ \E w \in Wallets : Create(w) \/ Begin(w) \/ Move(w) \/ GiveUp(w) \/ Rename(w)

\* Time passes, the archiver takes its ticks, transactions end.
Spec ==
    /\ Init /\ [][Next]_vars
    /\ WF_vars(Pass) /\ WF_vars(Archive)
    /\ \A w \in Wallets : WF_vars(Move(w) \/ GiveUp(w))

(***************************************************************************)
(* Properties.                                                             *)
(***************************************************************************)
\* Every variable has its type.
StaleTypeOK ==
    /\ row \in [Wallets -> Row]
    /\ tx \in [Wallets -> -1 .. TxTime]
    /\ left \in 1 .. CheckPeriod /\ ticked \in BOOLEAN
    /\ quiet \in [Wallets -> 0 .. Cap] /\ changes \in 0 .. MaxChanges

\* how far updated_at may lie before the commit of its change
Slack == TxTime + Behind

IsArchived(w) == row[w].state = "active" /\ row'[w].state = "archived"

\* A wallet that is archived has been left alone for the cut-off, but for
\* the error of updated_at: a money statement dates its change back to the
\* begin of its transaction, UpdateWallet to the time it sent the statement,
\* and by the zone.
QuietBeforeArchived ==
    [][\A w \in Wallets : IsArchived(w) => quiet[w] + Slack > CutOff]_vars

\* A wallet that stays empty is archived once clients leave it alone (the
\* bound MaxChanges ends their changes): no tick is lost for good, and no
\* change that commits late makes the statement pass the wallet by for ever.
EmptyIsArchived ==
    \A w \in Wallets :
        row[w].state = "active" /\ row[w].empty
            ~> row[w].state = "archived" \/ ~row[w].empty
=============================================================================
