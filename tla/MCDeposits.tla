----------------------------- MODULE MCDeposits -----------------------------
(* The instances of Deposits that TLC checks. *)
EXTENDS Deposits, TLC

CONSTANTS r1, r2, r3, k1, k2

\* A client that repeats its deposit.
Repeated == (r1 :> k1) @@ (r2 :> k1)

\* The same beside another client's deposit.
Mixed == Repeated @@ (r3 :> k2)
=============================================================================
