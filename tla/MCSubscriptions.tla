-------------------------- MODULE MCSubscriptions ---------------------------
(* The instances of Subscriptions that TLC checks. *)
EXTENDS Subscriptions, TLC

CONSTANTS x, y, u1, u2, depth, own1, own2

\* Two browsers without a token.
Anonymous == (x :> u1) @@ (y :> u2)

\* Two tabs of a signed-in user.
TwoTabs == (x :> u1) @@ (y :> u1)

Own == [u \in Ids |-> IF u = u1 THEN own1 ELSE own2]
=============================================================================
