----------------------------- MODULE MCSnapshot -----------------------------
(* The instances of Snapshot that TLC checks. *)
EXTENDS Snapshot

CONSTANTS c1, c2, c3
=============================================================================
