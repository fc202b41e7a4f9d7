--------------------------- MODULE BankRefinement ---------------------------
(***************************************************************************)
(* WalletService as an implementation of Bank: an account is the committed *)
(* row, valued in the unit of the price table, and a request takes effect  *)
(* at its commit.                                                          *)
(***************************************************************************)
EXTENDS WalletService

\* what a row is worth, in the unit of the price table
Value(r) == IF r = Null THEN 0 ELSE Worth(r.currency) * r.balance

\* the value transaction t brings to wallet w; a transfer may name w twice
Effect(t, w) ==
    LET v == Worth(t.currency) * t.amount IN
    (IF t.to = w THEN v ELSE 0) - (IF t.from = w THEN v ELSE 0)

AccountOf(r) ==
    [state |-> CASE r = Null -> "absent"
                 [] r # Null /\ r.active -> "open"
                 [] OTHER -> "closed",
     worth |-> Value(r)]

OrderOf(b) ==
    IF b.op \in MoneyOps
    THEN [do |-> "move", effect |-> [w \in Wallets |-> Effect(b, w)]]
    ELSE [do |-> CASE b.op = "create" -> "open"
                   [] b.op = "delete" -> "close"
                   [] OTHER -> "other",
          on |-> b.wallet]

\* a deletion of a wallet that is inactive is done without a change
FateOf(p) ==
    CASE pc[p] = "idle" -> "new"
      [] p \in applied \/ outcome[p] = "ok" -> "done"
      [] pc[p] = "done" /\ p \notin applied /\ outcome[p] # "ok" -> "refused"
      [] OTHER -> "asked"

\* what the service method told the handler
ReplyOf(p) ==
    CASE outcome[p] \in {"none", "lost"} -> "none"
      [] outcome[p] = "ok" -> "ok"
      [] OTHER -> "error"

TheBank == INSTANCE Bank WITH
    Orders <- {OrderOf(b) : b \in Bodies},
    NoOrder <- Null,
    Opening <- [w \in Wallets |-> AccountOf(Seed[w])],
    account <- [w \in Wallets |-> AccountOf(rows[w])],
    order <- [p \in Requests |-> IF call[p] = Null THEN Null ELSE OrderOf(call[p])],
    fate <- [p \in Requests |-> FateOf(p)],
    reply <- [p \in Requests |-> ReplyOf(p)]

\* The service keeps the promises of Bank: no interleaving, failure or crash
\* makes a request take effect twice, in part, after its refusal, or on a
\* wallet that is closed, and no answer is false.
ImplementsBank == TheBank!Spec
=============================================================================
