------------------------------ MODULE MCLedger ------------------------------
(* The instance of Ledger that TLC checks. *)
EXTENDS Ledger

CONSTANTS a1, b1, alice, bob

\* Account a1 is a demo user's and seeded, b1 another user's.
TwoOwners == [a \in Accounts |-> IF a = b1 THEN bob ELSE alice]
OneSeed == <<a1>>

\* A deposit of 2 to b1 and a trade that moves 1 from a1 to b1.
DepositAndTrade == {<<[acct |-> b1, delta |-> 2]>>,
                    <<[acct |-> a1, delta |-> -1], [acct |-> b1, delta |-> 1]>>}
=============================================================================
