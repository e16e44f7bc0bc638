------------------------------ MODULE MCEngine ------------------------------
(* The instances of Engine that TLC checks. *)
EXTENDS Engine

CONSTANTS u1, u2, u3, bot, SOL, BTC, USD

TwoTraders == Permutations({u1, u2})
TwoMarkets == Permutations({SOL, BTC})

\* Prices in twentieths of the eighth decimal: 20 is the smallest exact price.
ExactPrices == {20, 40}
\* Quantities in tenths of the eighth decimal, the size of dustEpsilon: 20 is
\* an exact quantity, 21 one with a ninth decimal.
FineQuantities == {20, 21}

NoNumbers == [u \in Users |-> 0]
DemoNumbers == [u \in Users |-> CASE u = u1 -> 1 [] u = u2 -> 2 [] u = u3 -> 3 [] OTHER -> 0]

TradingSeed == [a \in Assets |-> IF a = Quote THEN 80 ELSE 3]
AccountSeed == [a \in Assets |-> IF a = Quote THEN 20 ELSE 1]
FineSeed == [a \in Assets |-> IF a = Quote THEN 840 ELSE 42]

NoDust == [a \in Assets |-> 0]
BaseDust == [a \in Assets |-> IF a = Quote THEN 0 ELSE 1]
=============================================================================
