------------------------------ MODULE Postings ------------------------------
(***************************************************************************)
(* What the ledger table promises: it is append-only, and a balance is the *)
(* sum of all that was ever appended (internal/store/ledger.go and the     *)
(* schema in internal/dbase/db.go).  What is told to it is on its way in   *)
(* the order it was told, may be lost on the way, and is booked once; the  *)
(* opening credit of an account is booked once however often it is told.   *)
(*                                                                         *)
(* Module Ledger implements this with a queue, a worker, a table that is   *)
(* folded up as it grows old, and processes that die.                      *)
(***************************************************************************)
EXTENDS Integers, Sequences

CONSTANTS
  Accounts, \* pairs of a user and an asset
  Amounts   \* what a posting can change

VARIABLES
  transit, \* the postings on their way, the oldest first
  booked,  \* booked[a]: the sum of everything appended for account a
  opened   \* the accounts whose opening credit is booked

vars == <<transit, booked, opened>>

Posting == [acct : Accounts, delta : Amounts, reason : {"seed", "move"}]

Init ==
  /\ transit = <<>>
  /\ booked = [a \in Accounts |-> 0]
  /\ opened = {}

Tell(p) ==
  /\ transit' = Append(transit, p)
  /\ UNCHANGED <<booked, opened>>

Book ==
  /\ transit # <<>>
  /\ transit' = Tail(transit)
  /\ LET p == Head(transit)
     IN  IF p.reason = "seed" /\ p.acct \in opened
         THEN UNCHANGED <<booked, opened>>
         ELSE /\ booked' = [booked EXCEPT ![p.acct] = @ + p.delta]
              /\ opened' = IF p.reason = "seed" THEN opened \cup {p.acct} ELSE opened

Lose ==
  /\ transit # <<>>
  /\ transit' = Tail(transit)
  /\ UNCHANGED <<booked, opened>>

Next == (\E p \in Posting : Tell(p)) \/ Book \/ Lose

Spec == Init /\ [][Next]_vars
=============================================================================
