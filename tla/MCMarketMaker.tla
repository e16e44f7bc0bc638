--------------------------- MODULE MCMarketMaker ---------------------------
(* The instances of MarketMaker that TLC checks. *)
EXTENDS MarketMaker

\* The price stays, or reaches the inner rung on either side.
UpOrDown == {-1, 0, 1}
=============================================================================
