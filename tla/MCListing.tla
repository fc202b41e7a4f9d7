----------------------------- MODULE MCListing ------------------------------
(***************************************************************************)
(* Three rows, each a wallet to one endpoint and a transaction to the      *)
(* other: they differ in name and type, two of them share a currency.      *)
(***************************************************************************)
EXTENDS Listing, TLC

CONSTANTS r1, r2, r3

MCRows == {r1, r2, r3}
Wallet == {"own", "undeleted", "active"}
MCFacts == (r1 :> Wallet \cup {"to"}) @@ (r2 :> Wallet \cup {"from"})
               @@ (r3 :> Wallet \cup {"from", "filter"})
Key(n, c) == [wallet_name |-> n, transaction_type |-> n, currency |-> c]
MCKeys == (r1 :> Key(2, 1)) @@ (r2 :> Key(1, 2)) @@ (r3 :> Key(3, 1))

MCQueries == [endpoint : Endpoints, sorting : {"wallet_name", "currency", ""},
              descending : BOOLEAN, filter : BOOLEAN, limit : {-1, 0, 1}]
=============================================================================
