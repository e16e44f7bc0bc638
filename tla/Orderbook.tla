----------------------------- MODULE Orderbook -----------------------------
(***************************************************************************)
(* cmd/engine/orderbook.go as operators on one side of one book.           *)
(*                                                                         *)
(* A side is the Go slice: a sequence of orders, best price first, oldest  *)
(* first within a price.  MatchBid and MatchAsk, insertBidInOrder and      *)
(* insertAskInOrder, CancelBid and CancelAsk are mirror images, so each    *)
(* pair is one operator here and the side is a parameter.                  *)
(*                                                                         *)
(* Quantities and prices are integers: a price is counted in units small   *)
(* enough that the 5% slippage of a market order is exact, a quantity in   *)
(* the units a client may order.  Float noise is not modelled; rounding to *)
(* eight decimals and the dust threshold are.                              *)
(***************************************************************************)
EXTENDS Integers, Sequences, SequencesExt, Sums

Sides == {"buy", "sell"}

Opposite(side) == IF side = "buy" THEN "sell" ELSE "buy"

\* Price p goes ahead of price q on this side: bids highest first, asks lowest.
Better(side, p, q) == IF side = "buy" THEN p > q ELSE p < q

\* The Order struct; an id stands for the UUID, numbered in the order of issue.
OrderOf(users) ==
  [id : Nat, user : users, side : Sides, price : Int, quantity : Int, filled : Int]

Remaining(o) == o.quantity - o.filled

\* formatNum followed by ParseFloat: the value rounded to the eighth decimal,
\* of which "tick" is the size.
FormatNum(v, tick) == tick * ((v + tick \div 2) \div tick)

-----------------------------------------------------------------------------
(* Matching *)

\* Mutant: an equal price does not match.
CrossesStrictly(taker, maker) == Better(Opposite(taker.side), maker.price, taker.price)

Crosses(taker, maker) == ~Better(taker.side, maker.price, taker.price)

\* What one resting order can give the taker.
Offer(taker, maker) ==
  IF Crosses(taker, maker) /\ Remaining(maker) > 0 THEN Remaining(maker) ELSE 0

\* Mutant: the loop walks the side from its worst order.
FilledQtyFromTheBack(makers, taker) ==
  LET offered == RunningSum([i \in DOMAIN makers |-> Offer(taker, makers[i])])
      behind(i) == offered[Len(makers)] - offered[i]
  IN  [i \in DOMAIN makers |-> Lesser(taker.quantity, behind(i - 1))
                                 - Lesser(taker.quantity, behind(i))]

\* The filledQty of every iteration of the matching loop.  The loop stops at
\* the taker's quantity, so executedQty after i makers is the lesser of that
\* quantity and what the first i makers offer.
FilledQty(makers, taker) ==
  LET offered == RunningSum([i \in DOMAIN makers |-> Offer(taker, makers[i])])
  IN  [i \in DOMAIN makers |-> Lesser(taker.quantity, offered[i])
                                 - Lesser(taker.quantity, offered[i - 1])]

WithFills(makers, filledQty) ==
  [i \in DOMAIN makers |-> [makers[i] EXCEPT !.filled = @ + filledQty[i]]]

\* Mutant: an order with nothing left stays.
RemoveOverfilled(list, dust) == SelectSeq(list, LAMBDA o : Remaining(o) >= dust)

\* The elements of a list that are wanted, in their order.
Kept(list, wanted) ==
  LET kept[i \in 0..Len(list)] ==
        IF i = 0 THEN << >>
        ELSE IF list[i] \in wanted THEN Append(kept[i - 1], list[i])
        ELSE kept[i - 1]
  IN  kept[Len(list)]

\* removeFullyFilledOrders: a remainder of at most the dust threshold counts
\* as filled.
RemoveFullyFilled(list, dust) == Kept(list, {o \in Range(list) : Remaining(o) > dust})

-----------------------------------------------------------------------------
(* Resting and leaving *)

\* Mutant: a new order goes ahead of those at its own price.
InsertPositionAhead(list, o) ==
  CHOOSE i \in 1..(Len(list) + 1) :
    /\ i <= Len(list) => ~Better(o.side, list[i].price, o.price)
    /\ \A j \in 1..(i - 1) : Better(o.side, list[j].price, o.price)

\* The first position whose order the new one goes ahead of, else the end.
InsertPosition(list, o) ==
  CHOOSE i \in 1..(Len(list) + 1) :
    /\ i <= Len(list) => Better(o.side, o.price, list[i].price)
    /\ \A j \in 1..(i - 1) : ~Better(o.side, o.price, list[j].price)

InsertInOrder(list, o) == InsertAt(list, InsertPosition(list, o), o)

\* The positions an order id is found at (at most one, ids being unique).
PositionsOf(list, id) == {i \in DOMAIN list : list[i].id = id}

-----------------------------------------------------------------------------
(* Best prices *)

QuotedPrices(list) == {list[i].price : i \in {j \in DOMAIN list : Remaining(list[j]) > 0}}

\* The price GetBestBidAsk reports for a side: no element when nothing is
\* quoted, one otherwise.
BestPrice(list, side) ==
  {p \in QuotedPrices(list) : \A q \in QuotedPrices(list) : ~Better(side, q, p)}
=============================================================================
