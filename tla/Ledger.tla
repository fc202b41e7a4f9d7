------------------------------- MODULE Ledger -------------------------------
(***************************************************************************)
(* Table transactions as the account book of table wallets: what the       *)
(* service promises about money across its operations.                     *)
(***************************************************************************)
EXTENDS BankRefinement, FiniteSetsExt

\* Every wallet is worth what it started with plus what its committed
\* transactions brought and took: none is lost, doubled or half done.
LedgerExplainsBalance ==
    \A w \in Wallets :
        Value(rows[w]) = Value(Seed[w])
            + MapThenSumSet(LAMBDA t : Effect(t, w), transactions)

\* A currency change keeps what the wallet is worth, as a step that commits
\* an update (tests/wallets_test.go: the balance divided by the rate).
CurrencyChangeKeepsValue ==
    [][\A w \in Wallets :
        rows[w] # Null /\ transactions' = transactions
            => Value(rows'[w]) = Value(rows[w])]_vars

\* A wallet marked as deleted holds no money (api/http/openapi.yml answers
\* 400 to the deletion of a wallet with a non-zero balance).
DeletedIsEmpty ==
    \A w \in Wallets : rows[w] # Null /\ rows[w].deleted => rows[w].balance = 0
=============================================================================
