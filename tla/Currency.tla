------------------------------ MODULE Currency ------------------------------
(***************************************************************************)
(* The exchange-rate service (internal/xr) and its use by the wallets      *)
(* service.  A currency is a string that clients may spell in upper or     *)
(* lower case; the service keeps whatever spelling it was given, and the   *)
(* rate service upper-cases both names before it looks them up.            *)
(*                                                                         *)
(* A rate is kept as a fraction.  The code computes it in float64; an      *)
(* instance chooses prices and amounts for which every division is exact.  *)
(***************************************************************************)
EXTENDS Integers

CONSTANTS
    Spellings,  \* the currency strings that occur
    Upper,      \* strings.ToUpper on Spellings
    Price       \* the table of the rate service: upper-case name -> worth

ASSUME CurrencyAssumption ==
    /\ Upper \in [Spellings -> Spellings]
    /\ \A c \in Spellings : Upper[Upper[c]] = Upper[c]
    /\ DOMAIN Price \subseteq Spellings
    /\ Price \in [DOMAIN Price -> Nat \ {0}]

\* strings.EqualFold
EqualFold(c, d) == Upper[c] = Upper[d]

\* a GetRate call that does not answer "wrong currency"
HasRate(from, to) == {Upper[from], Upper[to]} \subseteq DOMAIN Price

\* what one unit of a currency is worth; a currency without a price is
\* never exchanged, so its own unit serves
Worth(c) == IF Upper[c] \in DOMAIN Price THEN Price[Upper[c]] ELSE 1

Rates == [num : Nat \ {0}, den : Nat \ {0}]

DefaultRate == [num |-> 1, den |-> 1]

\* GetRate, for a pair that HasRate
GetRate(from, to) == [num |-> Worth(from), den |-> Worth(to)]

\* amount * rate
Convert(amount, rate) == (amount * rate.num) \div rate.den
=============================================================================
