------------------------------ MODULE MCPooled ------------------------------
(***************************************************************************)
(* Small instances of PooledService for TLC.                               *)
(***************************************************************************)
EXTENDS MCWallets, PooledService

CONSTANTS wd, we

MCFiveWallets == {wa, wb, wc, wd, we}

\* Two wallets with money, for transfers that cross; two empty ones, for the
\* archiver and a transfer between them that an earlier deposit makes good; and an id
\* that is not used yet.
\* One of these is stored in lower case, so nothing but the constraint of the
\* table stops the transfer when the deposit is not there.
SeedCrossing == (wa :> Wallet("RUB", 4)) @@ (wb :> Wallet("USD", 2))
                @@ (wc :> Wallet("rub", 0)) @@ (wd :> Wallet("RUB", 0)) @@ (we :> Null)

CrossingBodies == Transfers \cup
    {Money("withdraw", alice, wa, Null, 0, "RUB"),
     Money("deposit", alice, Null, wc, 4, "RUB"),
     Money("transfer", alice, wc, wd, 4, "RUB"),
     OnWallet("delete", alice, wd, ""),
     OnWallet("create", alice, we, "RUB"),
     OnWallet("update", alice, wa, "USD")}
=============================================================================
