----------------------------- MODULE Transfers -----------------------------
(***************************************************************************)
(* What a deposit promises (internal/store/transfer.go and the comments of *)
(* onRampHandler): the key is claimed before anything is credited, a key   *)
(* is credited at most once, a transfer is confirmed only after that, and  *)
(* its status settles once.  A credit may still come after the transfer    *)
(* was given up as failed, or while it is pending for good.                *)
(*                                                                         *)
(* Module Deposits implements this with requests that are retried, a list, *)
(* reply channels, deadlines and processes that die.                       *)
(***************************************************************************)
EXTENDS Integers

CONSTANTS
  Keys,
  Refused \* keys whose amount the engine will not credit

VARIABLES
  status, \* status[k]: of the transfers row, "none" without one
  booked  \* booked[k]: the ledger rows of deposit k

vars == <<status, booked>>

Init ==
  /\ status = [k \in Keys |-> "none"]
  /\ booked = [k \in Keys |-> 0]

Claim(k) ==
  /\ status[k] = "none"
  /\ status' = [status EXCEPT ![k] = "pending"]
  /\ UNCHANGED booked

Credit(k) ==
  /\ k \notin Refused
  /\ status[k] # "none" /\ booked[k] = 0
  /\ booked' = [booked EXCEPT ![k] = 1]
  /\ UNCHANGED status

Confirm(k) ==
  /\ status[k] = "pending"
  /\ k \in Refused \/ booked[k] = 1
  /\ status' = [status EXCEPT ![k] = "confirmed"]
  /\ UNCHANGED booked

Fail(k) ==
  /\ status[k] = "pending"
  /\ status' = [status EXCEPT ![k] = "failed"]
  /\ UNCHANGED booked

Next == \E k \in Keys : Claim(k) \/ Credit(k) \/ Confirm(k) \/ Fail(k)

Spec == Init /\ [][Next]_vars
=============================================================================
