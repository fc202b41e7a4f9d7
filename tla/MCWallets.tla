----------------------------- MODULE MCWallets ------------------------------
(***************************************************************************)
(* Small instances of WalletService and Ledger for TLC: two or three       *)
(* wallets of one user, the currencies RUB and USD (worth 2 RUB), and sets *)
(* of request bodies the configurations choose from.  Balances and amounts *)
(* are such that every conversion is exact.                                *)
(***************************************************************************)
EXTENDS Ledger, TLC

CONSTANTS wa, wb, wc, alice, bob, carol

MCSpellings == {"", "RUB", "rub", "USD", "XXX"}
MCUpper == [c \in MCSpellings |-> IF c = "rub" THEN "RUB" ELSE c]
MCPrice == [c \in {"RUB", "USD"} |-> IF c = "RUB" THEN 1 ELSE 2]

MCWallets == {wa, wb}
MCThreeWallets == {wa, wb, wc}
MCUsers == {alice, bob, carol}
MCKnownUsers == {alice, bob}

Wallet(currency, balance) ==
    [NewWallet(alice, currency) EXCEPT !.balance = balance]

Money(op, user, from, to, amount, currency) ==
    [op |-> op, user |-> user, to |-> to, from |-> from, amount |-> amount,
     currency |-> currency, malformed |-> FALSE]

OnWallet(op, user, wallet, currency) ==
    [op |-> op, user |-> user, wallet |-> wallet, owner |-> user,
     name |-> "name", currency |-> currency, malformed |-> FALSE]

\* a wallet of each currency, one with money and one without
SeedRich == (wa :> Wallet("RUB", 4)) @@ (wb :> Wallet("USD", 0))

\* SeedRich, and an id that is not used yet
SeedOpen == SeedRich @@ (wc :> Null)

Deposits == {Money("deposit", alice, Null, wa, 4, "RUB"),
             Money("deposit", alice, Null, wb, 4, "RUB")}
Withdrawals == {Money("withdraw", alice, wa, Null, 4, "RUB"),
                Money("withdraw", alice, wa, Null, 2, "USD"),
                Money("withdraw", alice, wb, Null, 2, "USD")}
Transfers == {Money("transfer", alice, wa, wb, 4, "RUB"),
              Money("transfer", alice, wb, wa, 2, "USD")}
Updates == {OnWallet("update", alice, wa, "USD"), OnWallet("update", alice, wa, ""),
            OnWallet("update", alice, wb, "rub")}
Deletes == {OnWallet("delete", alice, wa, ""), OnWallet("delete", alice, wb, "")}
Creates == {OnWallet("create", alice, wc, "RUB")}

Malformed(body) == [body EXCEPT !.malformed = TRUE]

\* what handlers, WHERE clauses, constraints or the rate service turn down
Refused == {Money("deposit", bob, Null, wa, 4, "RUB"),
            Money("transfer", bob, wb, wa, 4, "RUB"),
            Money("transfer", alice, wa, wb, 2, "USD"),
            Money("deposit", alice, Null, wa, 4, "XXX"),
            Money("deposit", alice, wa, wa, 4, "RUB"),
            Money("withdraw", alice, wa, Null, 0, "RUB"),
            OnWallet("create", carol, wc, "RUB"),
            [OnWallet("create", alice, wc, "RUB") EXCEPT !.owner = bob],
            [OnWallet("create", alice, wc, "RUB") EXCEPT !.name = ""],
            Malformed(OnWallet("update", alice, wa, "USD")),
            OnWallet("update", alice, wa, "XXX")}

\* the sets of bodies of the runs
MoneyBodies == Deposits \cup Withdrawals \cup Transfers \cup Deletes
                   \cup Creates \cup Refused
                   \cup {Money("transfer", alice, wa, wa, 4, "RUB")}
SerialBodies == {Money("deposit", alice, Null, wb, 4, "RUB"),
                 Money("withdraw", alice, wa, Null, 2, "USD"),
                 OnWallet("delete", alice, wb, "")} \cup Transfers \cup Updates
UpdateBodies == {OnWallet("update", alice, wa, "USD")}
DeleteBodies == {Money("deposit", alice, Null, wb, 4, "RUB"),
                 OnWallet("delete", alice, wb, "")}
MalformedBodies == {Malformed(Money("transfer", alice, wa, wb, 4, "RUB"))}

AnyOrder == Permutations(Requests)
=============================================================================
