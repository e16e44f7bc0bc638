-------------------------- MODULE EngineMoneyProofs --------------------------
(***************************************************************************)
(* The money and the rows of the engine, for amounts the eighth decimal    *)
(* holds and no dust swallows (AmountsAboveDust): every lock is for an     *)
(* order on a book, nothing is spent twice, and the database's rows tell   *)
(* what the books hold.  Without the hypothesis the run EngineDust shows   *)
(* a lock nobody can spend.                                                *)
(***************************************************************************)
EXTENDS EngineProofs

\* What clients send has at most eight decimals, and neither the least
\* quantity nor what it is worth at any price is below the dust threshold.
AmountsAboveDust ==
  /\ \A m \in Markets : Dust[m] < QtyTick
  /\ \A p \in Prices : FormatNum(p, PriceTick) = p /\ Dust[Quote] <= p * QtyTick
  /\ \A q \in Quantities : FormatNum(q, QtyTick) = q

-----------------------------------------------------------------------------
(* Orders on the books *)

Whole == WholeAt(QtyTick)

\* Something is left of every order, a whole amount at a price a client sent,
\* and its owner has an entry for what it pays with.
OrdersSound ==
  \A m \in Markets, side \in Sides : \A i \in DOMAIN book[m][side] :
    LET o == book[m][side][i]
    IN  /\ o.price \in Prices
        /\ Remaining(o) \in Whole /\ Remaining(o) > 0
        /\ Pays(m, side) \in held[o.user]

LEMMA WholeAmounts ==
  /\ Whole \in SUBSET Int /\ 0 \in Whole
  /\ \A a, b \in Whole : a + b \in Whole /\ a - b \in Whole
  /\ \A v \in Whole : v > 0 => v >= QtyTick
  /\ \A v \in Whole : v \in Int /\ FormatNum(v, QtyTick) = v
<1>1. QtyTick \in Nat \ {0}
  BY ConstantsAssumption
<1> QED
  BY <1>1, WholeFacts DEF Whole, WholeAt

\* Sound makers give whole amounts, and no more than they have.
LEMMA TradeSound ==
  ASSUME AmountsAboveDust, TypeOK, OrdersSound, NEW m \in Markets, NEW side \in Sides,
         NEW u \in Users, NEW price \in Int, NEW quantity \in Quantities
  PROVE  LET makers == Makers(m, side)
             qty == Given(m, side, u, price, quantity)
         IN  /\ \A i \in DOMAIN makers :
                  /\ makers[i] \in OrderOf(Users) /\ makers[i].price \in Prices
                  /\ qty[i] \in Whole /\ qty[i] \in Int /\ 0 <= qty[i]
                  /\ Remaining(makers[i]) \in Int /\ Remaining(makers[i]) > 0
                  /\ qty[i] <= Remaining(makers[i])
                  /\ Remaining(makers[i]) - qty[i] \in Whole
                  /\ Remaining(Filled(makers[i], qty[i])) = Remaining(makers[i]) - qty[i]
             /\ Total(qty) \in Int /\ Total(qty) \in Whole
             /\ 0 <= Total(qty) /\ Total(qty) <= quantity
             /\ quantity \in Int /\ quantity \in Whole
             /\ quantity - Total(qty) \in Whole
<1> DEFINE makers == Makers(m, side)
           taker == Taker(side, u, price, quantity)
           qty == Given(m, side, u, price, quantity)
<1>1. quantity \in Nat /\ quantity \in Whole
  BY ConstantsAssumption DEF AmountsAboveDust, Whole, WholeAt
<1>2. makers \in Seq(OrderOf(Users)) /\ taker \in OrderOf(Users) /\ taker.quantity = quantity
  BY <1>1, TradeTypes DEF Taker
<1>3. \A i \in DOMAIN makers : /\ Remaining(makers[i]) \in Whole /\ Remaining(makers[i]) > 0
                               /\ makers[i].price \in Prices
  <2>1. Opposite(side) \in Sides
    BY DEF Opposite, Sides
  <2> QED
    BY <2>1 DEF OrdersSound, Makers
<1>4. qty = FilledQty(makers, taker)
  BY DEF Given
<1>5. /\ \A i \in DOMAIN makers : 0 <= qty[i] /\ qty[i] <= Offer(taker, makers[i])
      /\ 0 <= Total(qty) /\ Total(qty) <= quantity
  BY <1>1, GivenInOrder
<1>6. qty \in [DOMAIN makers -> Int] /\ Total(qty) \in Int
  BY <1>1, TradeTypes
<1> HIDE DEF makers, taker, qty
<1>7. (\A i \in DOMAIN makers : qty[i] \in Whole) /\ Total(qty) \in Whole
  <2>1. \A i \in DOMAIN makers : Remaining(makers[i]) \in Whole
    BY <1>3
  <2>2. Whole \in SUBSET Int /\ 0 \in Whole
    BY WholeAmounts
  <2>3. \A a, b \in Whole : a + b \in Whole
    BY WholeAmounts
  <2>4. \A a, b \in Whole : a - b \in Whole
    BY WholeAmounts
  <2>5. taker.quantity \in Whole
    BY <1>1, <1>2
  <2> HIDE DEF Whole
  <2>6. /\ \A i \in DOMAIN makers : FilledQty(makers, taker)[i] \in Whole
        /\ Total(FilledQty(makers, taker)) \in Whole
    BY ONLY <1>2, <2>1, <2>2, <2>3, <2>4, <2>5, FillsWithin
  <2> QED
    BY <1>4, <2>6
<1>8. \A i \in DOMAIN makers :
        /\ makers[i] \in OrderOf(Users) /\ makers[i].price \in Prices
        /\ qty[i] \in Whole /\ qty[i] \in Int /\ 0 <= qty[i]
        /\ Remaining(makers[i]) \in Int /\ Remaining(makers[i]) > 0
        /\ qty[i] <= Remaining(makers[i])
        /\ Remaining(makers[i]) - qty[i] \in Whole
        /\ Remaining(Filled(makers[i], qty[i])) = Remaining(makers[i]) - qty[i]
  <2> TAKE i \in DOMAIN makers
  <2>1. makers[i] \in OrderOf(Users) /\ qty[i] \in Int
    BY <1>2, <1>6
  <2>2. Remaining(makers[i]) \in Whole /\ Remaining(makers[i]) > 0 /\ makers[i].price \in Prices
    BY <1>3
  <2>3. Remaining(makers[i]) \in Int /\ Remaining(makers[i]) - qty[i] \in Whole
    BY <1>7, <2>2, WholeAmounts
  <2>4. qty[i] <= Remaining(makers[i])
    <3>1. Offer(taker, makers[i]) <= Remaining(makers[i]) /\ Offer(taker, makers[i]) \in Int
      BY <2>2, <2>3 DEF Offer
    <3>2. qty[i] <= Offer(taker, makers[i])
      BY <1>5
    <3> QED
      BY <2>1, <2>3, <3>1, <3>2
  <2>5. Remaining(Filled(makers[i], qty[i])) = Remaining(makers[i]) - qty[i]
    BY <2>1, FilledType
  <2>6. qty[i] \in Whole /\ 0 <= qty[i]
    BY <1>5, <1>7
  <2> QED
    BY <2>1, <2>2, <2>3, <2>4, <2>5, <2>6
<1>9. quantity - Total(qty) \in Whole
  BY <1>1, <1>7, WholeAmounts
<1>10. quantity \in Int
  BY <1>1
<1> QED
  BY <1>1, <1>5, <1>6, <1>7, <1>8, <1>9, <1>10 DEF makers, qty

\* The dust threshold keeps every maker with something left.
LEMMA FarSound ==
  ASSUME AmountsAboveDust, TypeOK, OrdersSound, NEW m \in Markets, NEW side \in Sides,
         NEW u \in Users, NEW price \in Int, NEW quantity \in Quantities
  PROVE  \E h : KeptAt(Makers(m, side), Given(m, side, u, price, quantity), 0,
                       Far(m, side, u, price, quantity), h)
<1> DEFINE makers == Makers(m, side)
           qty == Given(m, side, u, price, quantity)
           far == Far(m, side, u, price, quantity)
<1>1. quantity \in Int
  BY ConstantsAssumption
<1>2. PICK h : KeptAt(makers, qty, Dust[m], far, h)
  BY <1>1, FarSide
<1>3. Dust[m] \in Nat /\ Dust[m] < QtyTick
  BY ConstantsAssumption, AssetFacts DEF AmountsAboveDust
<1>4. makers \in Seq(OrderOf(Users)) /\ far \in Seq(OrderOf(Users))
  BY <1>1, TradeTypes, FarSide
<1>5. \A i \in DOMAIN makers : /\ Remaining(Filled(makers[i], qty[i])) \in Whole
                               /\ Remaining(Filled(makers[i], qty[i])) \in Int
  <2> TAKE i \in DOMAIN makers
  <2>1. Remaining(Filled(makers[i], qty[i])) \in Whole
    BY TradeSound
  <2> QED
    BY <2>1, WholeAmounts
<1> HIDE DEF makers, qty, far
<1>6. \A i \in DOMAIN makers :
        Remaining(Filled(makers[i], qty[i])) > 0 => Remaining(Filled(makers[i], qty[i])) > Dust[m]
  <2> SUFFICES ASSUME NEW i \in DOMAIN makers, Remaining(Filled(makers[i], qty[i])) > 0
               PROVE  Remaining(Filled(makers[i], qty[i])) > Dust[m]
    OBVIOUS
  <2>1. Remaining(Filled(makers[i], qty[i])) >= QtyTick
    BY <1>5, WholeAmounts
  <2> QED
    BY <1>3, <1>5, <2>1, ConstantsAssumption
<1>7. DOMAIN makers = 1..Len(makers)
  BY <1>4
<1>8. \A k \in 1..Len(far) : far[k] = Filled(makers[h[k]], qty[h[k]]) /\ Remaining(far[k]) > 0
  <2> TAKE k \in 1..Len(far)
  <2>1. /\ far[k] = Filled(makers[h[k]], qty[h[k]]) /\ Remaining(far[k]) > Dust[m]
        /\ h[k] \in DOMAIN makers
    BY <1>2, <1>7 DEF KeptAt
  <2> QED
    BY <1>3, <1>5, <2>1
<1>9. \A i \in 1..Len(makers) :
        Remaining(Filled(makers[i], qty[i])) > 0 => \E k \in 1..Len(far) : h[k] = i
  BY <1>2, <1>6, <1>7 DEF KeptAt
<1>10. KeptAt(makers, qty, 0, far, h)
  BY <1>2, <1>8, <1>9 DEF KeptAt
<1> QED
  BY <1>10 DEF makers, qty, far

-----------------------------------------------------------------------------
(* The rows of the orders *)

\* The row of an order on a side of m: open, in its owner's name, with what
\* is left on the book left to execute.
RowFits(m, side, o, row) ==
  /\ row.status = "open" /\ row.market = m /\ row.side = side /\ row.user = o.user
  /\ Remaining(o) = row.quantity - row.executed

RowsTell ==
  \A m \in Markets, side \in Sides : \A i \in DOMAIN book[m][side] :
    RowFits(m, side, book[m][side][i], orders[book[m][side][i].id])

OpenRests ==
  \A id \in DOMAIN orders :
    orders[id].status = "open" =>
      \E i \in DOMAIN book[orders[id].market][orders[id].side] :
        book[orders[id].market][orders[id].side][i].id = id

FilledIsAll ==
  \A id \in DOMAIN orders : orders[id].executed = orders[id].quantity <=> orders[id].status = "filled"

\* What the rows keep with the books.
RowsInv == OrdersSound /\ RowsTell /\ OpenRests /\ FilledIsAll

\* That is what the run checks of the rows.
LEMMA RowsInvMatches ==
  ASSUME TypeOK, Filed, OnceOnBook, RowsInv
  PROVE  RowsMatchBook
<1> SUFFICES ASSUME NEW id \in DOMAIN orders
             PROVE  LET row == orders[id]
                    IN  /\ Resting(id) = IF row.status = "open" THEN {<<row.market, row.side>>} ELSE {}
                        /\ \A i \in PositionsOf(book[row.market][row.side], id) :
                             /\ Remaining(book[row.market][row.side][i]) = row.quantity - row.executed
                             /\ book[row.market][row.side][i].user = row.user
                        /\ row.executed = row.quantity <=> row.status = "filled"
  BY DEF RowsMatchBook
<1> DEFINE row == orders[id]
<1>1. row \in RowType
  BY DEF TypeOK
<1>2. row.market \in Markets /\ row.side \in Sides
  BY <1>1 DEF RowType
<1>3. \A n \in Markets, s \in Sides : \A i \in PositionsOf(book[n][s], id) : RowFits(n, s, book[n][s][i], row)
  BY DEF PositionsOf, RowsInv, RowsTell
<1>4. row.status = "open" => PositionsOf(book[row.market][row.side], id) # {}
  BY DEF PositionsOf, RowsInv, OpenRests
<1> HIDE DEF row
<1>5. \A w \in Markets \X Sides : w \in Resting(id) <=> row.status = "open" /\ w = <<row.market, row.side>>
  <2> TAKE w \in Markets \X Sides
  <2>1. PICK n \in Markets, s \in Sides : w = <<n, s>>
    OBVIOUS
  <2>2. w \in Resting(id) <=> PositionsOf(book[n][s], id) # {}
    BY <2>1 DEF Resting
  <2>3. PositionsOf(book[n][s], id) # {} => row.status = "open" /\ n = row.market /\ s = row.side
    BY <1>3 DEF RowFits
  <2> QED
    BY <1>4, <2>1, <2>2, <2>3
<1>6. Resting(id) \subseteq Markets \X Sides
  BY DEF Resting
<1>7. Resting(id) = IF row.status = "open" THEN {<<row.market, row.side>>} ELSE {}
  BY <1>2, <1>5, <1>6
<1>8. \A i \in PositionsOf(book[row.market][row.side], id) :
        /\ Remaining(book[row.market][row.side][i]) = row.quantity - row.executed
        /\ book[row.market][row.side][i].user = row.user
  BY <1>2, <1>3 DEF RowFits
<1>9. row.executed = row.quantity <=> row.status = "filled"
  BY DEF row, RowsInv, FilledIsAll
<1> QED
  BY <1>7, <1>8, <1>9 DEF row

\* The rows of the makers after a trade, and of everybody else.
LEMMA RowsOfMakers ==
  ASSUME AmountsAboveDust, TypeOK, Filed, OnceOnBook, RowsInv,
         NEW m \in Markets, NEW side \in Sides, NEW u \in Users, NEW type,
         NEW price \in Int, NEW quantity \in Quantities,
         Accept(m, side, u, type, price, quantity)
  PROVE  LET makers == Makers(m, side)
             qty == Given(m, side, u, price, quantity)
         IN  /\ \A i \in DOMAIN makers :
                  LET row == orders[makers[i].id]
                      new == orders'[makers[i].id]
                  IN  /\ makers[i].id \in 1..Len(orders)
                      /\ new.user = row.user /\ new.market = row.market /\ new.side = row.side
                      /\ new.quantity = row.quantity /\ new.executed = row.executed + qty[i]
                      /\ new.status = IF qty[i] = Remaining(makers[i]) THEN "filled" ELSE "open"
                      /\ RowFits(m, Opposite(side), makers[i], row)
             /\ \A o \in 1..Len(orders) :
                  (\A i \in DOMAIN makers : makers[i].id # o) => orders'[o] = orders[o]
<1> DEFINE makers == Makers(m, side)
           qty == Given(m, side, u, price, quantity)
           made(o) == MadeBy(m, side, u, price, quantity, o)
<1>1. quantity \in Int
  BY ConstantsAssumption
<1>2. \A o \in 1..Len(orders) :
        orders'[o] = IF made(o) = 0 THEN orders[o] ELSE Increment(orders[o], made(o), Absent)
  BY <1>1, RowsAfter
<1>3. /\ \A i \in DOMAIN makers : made(makers[i].id) = qty[i]
      /\ \A o : (\A i \in DOMAIN makers : makers[i].id # o) => made(o) = 0
  BY <1>1, MadeByOne
<1>4. \A i \in DOMAIN makers :
        /\ makers[i].id \in 1..Len(orders)
        /\ RowFits(m, Opposite(side), makers[i], orders[makers[i].id])
  <2>1. Opposite(side) \in Sides
    BY DEF Opposite, Sides
  <2> QED
    BY <2>1 DEF RowsInv, RowsTell, Filed, Makers
<1>5. \A i \in DOMAIN makers : /\ qty[i] \in Int /\ 0 <= qty[i] /\ qty[i] <= Remaining(makers[i])
                               /\ Remaining(makers[i]) \in Int /\ Remaining(makers[i]) > 0
  BY TradeSound DEF RowsInv
<1> HIDE DEF makers, qty, made
<1>6. ASSUME NEW i \in DOMAIN makers
      PROVE  LET row == orders[makers[i].id]
                 new == orders'[makers[i].id]
             IN  /\ new.user = row.user /\ new.market = row.market /\ new.side = row.side
                 /\ new.quantity = row.quantity /\ new.executed = row.executed + qty[i]
                 /\ new.status = IF qty[i] = Remaining(makers[i]) THEN "filled" ELSE "open"
  <2> DEFINE row == orders[makers[i].id]
             new == orders'[makers[i].id]
  <2>1. row \in RowType
    BY <1>4 DEF TypeOK
  <2>2. new = IF qty[i] = 0 THEN row ELSE Increment(row, qty[i], Absent)
    BY <1>2, <1>3, <1>4
  <2>3. row.status = "open" /\ Remaining(makers[i]) = row.quantity - row.executed
    BY <1>4 DEF RowFits
  <2>4. row.quantity \in Int /\ row.executed \in Int
    BY <2>1 DEF RowType
  <2> HIDE DEF row, new
  <2>5. /\ new.user = row.user /\ new.market = row.market /\ new.side = row.side
        /\ new.quantity = row.quantity /\ new.executed = row.executed + qty[i]
        /\ new.status = IF qty[i] = Remaining(makers[i]) THEN "filled" ELSE "open"
    <3>1. CASE qty[i] = 0
      BY <1>5, <2>2, <2>3, <2>4, <3>1
    <3>2. CASE qty[i] # 0
      <4>1. new = Increment(row, qty[i], Absent)
        BY <2>2, <3>2
      <4>2. /\ new.user = row.user /\ new.market = row.market /\ new.side = row.side
            /\ new.quantity = row.quantity /\ new.executed = row.executed + qty[i]
            /\ new.status = IF row.executed + qty[i] >= row.quantity THEN "filled" ELSE row.status
        BY <2>1, <4>1 DEF Increment, RowType
      <4>3. row.executed + qty[i] >= row.quantity <=> qty[i] = Remaining(makers[i])
        BY <1>5, <2>3, <2>4
      <4> QED
        BY <2>3, <4>2, <4>3
    <3> QED
      BY <3>1, <3>2
  <2> QED
    BY <2>5 DEF row, new
<1>7. \A o \in 1..Len(orders) : (\A i \in DOMAIN makers : makers[i].id # o) => orders'[o] = orders[o]
  BY <1>2, <1>3
<1> QED
  BY <1>4, <1>6, <1>7 DEF makers, qty

\* No step takes an entry of Balances away.
LEMMA HeldGrows ==
  ASSUME TypeOK, Outcome
  PROVE  \A v \in Users : held[v] \subseteq held'[v]
<1>1. held \in [Users -> SUBSET Assets]
  BY DEF TypeOK
<1>2. \A assets : \A u \in Users : held' = [held EXCEPT ![u] = @ \cup assets]
                                      => \A v \in Users : held[v] \subseteq held'[v]
  BY <1>1
<1>3. \A m, side, u, type, price, quantity :
        Accept(m, side, u, type, price, quantity) => \A v \in Users : held[v] \subseteq held'[v]
  BY <1>1 DEF Accept
<1> QED
  BY <1>2, <1>3, ZenonT(30)
     DEF Outcome, RefusesForFunds, TakesBack, Places, Cancels, Deposited, Credit, Enrols, vars

\* What OrdersSound and RowsTell say of an order on a side of m, its owner's
\* entries and its row.
AtRest(m, side, o, entries, row) ==
  /\ o.price \in Prices
  /\ Remaining(o) \in Whole /\ Remaining(o) > 0
  /\ Pays(m, side) \in entries
  /\ RowFits(m, side, o, row)

\* The orders on the books after a trade are those left of the makers, the
\* rest of the taker and what was there.
LEMMA TradedRows ==
  ASSUME AmountsAboveDust, TypeOK, TypeOK', Filed, OnceOnBook, RowsInv, Outcome,
         NEW m \in Markets, NEW side \in Sides, NEW u \in Users, NEW type \in {"limit", "market"},
         NEW price \in Int, NEW quantity \in Int,
         Places(m, side, u, type, price, quantity),
         NEW n \in Markets, NEW s \in Sides, NEW k \in DOMAIN book'[n][s]
  PROVE  LET o == book'[n][s][k]
         IN  AtRest(n, s, o, held'[o.user], orders'[o.id])
<1> DEFINE makers == Makers(m, side)
           qty == Given(m, side, u, price, quantity)
           near == Near(m, side, u, type, price, quantity)
           far == Far(m, side, u, price, quantity)
           rest == Rest(m, side, u, price, quantity)
           rests == Rests(m, side, u, type, price, quantity)
           o == book'[n][s][k]
<1>1. /\ quantity \in Quantities /\ quantity \in Int /\ (type # "market" => price \in Prices)
      /\ Accept(m, side, u, type, price, quantity)
  BY DEF Places
<1>2. \A v \in Users : held[v] \subseteq held'[v]
  BY HeldGrows
<1>3. book'[n][s] = IF n # m THEN book[n][s] ELSE IF s = side THEN near ELSE far
  BY <1>1, AcceptLists
<1>4. Opposite(side) \in Sides /\ Opposite(side) # side /\ (s = side \/ s = Opposite(side))
      /\ makers = book[m][Opposite(side)]
  BY DEF Opposite, Sides, Makers
<1>5. \A i \in DOMAIN book[n][s] :
        /\ book[n][s][i] \in OrderOf(Users)
        /\ book[n][s][i].id \in 1..Len(orders)
        /\ book[n][s][i].price \in Prices
        /\ Remaining(book[n][s][i]) \in Whole /\ Remaining(book[n][s][i]) > 0
        /\ Pays(n, s) \in held[book[n][s][i].user]
        /\ RowFits(n, s, book[n][s][i], orders[book[n][s][i].id])
  <2>1. book[n][s] \in Seq(OrderOf(Users))
    BY DEF TypeOK
  <2> QED
    BY <2>1 DEF RowsInv, OrdersSound, RowsTell, Filed
\* An order that is not one of the makers stays as it was.
<1>6. ASSUME NEW i \in DOMAIN book[n][s], o = book[n][s][i], n # m \/ s = side
      PROVE  AtRest(n, s, o, held'[o.user], orders'[o.id])
  <2>1. \A j \in DOMAIN makers : makers[j].id # o.id
    BY <1>4, <1>6 DEF OnceOnBook
  <2>2. orders'[o.id] = orders[o.id]
    <3>1. o.id \in 1..Len(orders)
      BY <1>5, <1>6
    <3> QED
      BY <1>1, <2>1, <3>1, RowsOfMakers
  <2>3. o.user \in Users
    BY <1>5, <1>6 DEF OrderOf
  <2> QED
    BY <1>2, <1>5, <1>6, <2>2, <2>3 DEF AtRest
<1>7. CASE n # m
  BY <1>3, <1>6, <1>7
<1>8. CASE n = m /\ s = side
  <2>1. PICK g : JoinedAt(book[m][side], rest, rests, near, g)
    BY <1>1, NearSide
  <2>2. k \in DOMAIN near /\ o = near[k]
    BY <1>3, <1>8
  <2>3. book[m][side] \in Seq(OrderOf(Users))
    BY DEF TypeOK
  <2>4. CASE g[k] # 0
    <3>1. g[k] \in DOMAIN book[m][side] /\ o = book[m][side][g[k]]
      BY <2>1, <2>2, <2>3, <2>4 DEF JoinedAt
    <3> QED
      BY <1>6, <1>8, <3>1
  <2>5. CASE g[k] = 0
    <3> DEFINE executed == Total(qty)
    <3>1. o = rest /\ rests
      BY <2>1, <2>2, <2>5 DEF JoinedAt
    <3>2. /\ executed \in Int /\ executed <= quantity /\ quantity - executed \in Whole
          /\ quantity \in Whole
      BY <1>1, TradeSound DEF RowsInv
    <3>3. type # "market" /\ executed < quantity
      BY <3>1 DEF Rests
    <3>4. rest = [Taker(side, u, price, quantity) EXCEPT !.quantity = quantity - executed]
      BY DEF Rest, Taker
    <3>5. orders'[Len(orders) + 1] = NewRow(m, side, u, type, price, quantity)
      BY <1>1, RowsAfter
    <3>6. NewRow(m, side, u, type, price, quantity) =
            [user |-> u, market |-> m, side |-> side,
             quantity |-> FormatNum(quantity, QtyTick), executed |-> executed,
             status |-> IF executed >= quantity THEN "filled"
                        ELSE IF type # "market" THEN "open" ELSE "partially_filled"]
      BY DEF NewRow
    <3>7. Pays(m, side) \in held'[u]
      <4>1. held \in [Users -> SUBSET Assets]
        BY DEF TypeOK
      <4> QED
        BY <1>1, <4>1 DEF Accept
    <3>8. FormatNum(quantity, QtyTick) = quantity
      BY <3>2, WholeAmounts
    <3> HIDE DEF executed, rest, o
    <3>9. /\ rest.id = Len(orders) + 1 /\ rest.user = u /\ rest.price = price
          /\ Remaining(rest) = quantity - executed
      BY <1>1, <3>2, <3>4 DEF Taker, Remaining
    <3>10. RowFits(m, side, rest, orders'[rest.id])
      <4> DEFINE row == orders'[rest.id]
      <4>1. row = NewRow(m, side, u, type, price, quantity)
        BY <3>5, <3>9
      <4>2. /\ row.user = u /\ row.market = m /\ row.side = side /\ row.quantity = quantity
            /\ row.executed = executed /\ row.status = "open"
        BY <3>2, <3>3, <3>6, <3>8, <4>1
      <4> HIDE DEF row
      <4>3. RowFits(m, side, rest, row)
        BY <3>9, <4>2 DEF RowFits
      <4> QED
        BY <4>3 DEF row
    <3>11. rest.price \in Prices /\ Remaining(rest) \in Whole /\ Remaining(rest) > 0
      BY <1>1, <3>2, <3>3, <3>9
    <3>12. AtRest(n, s, rest, held'[rest.user], orders'[rest.id])
      BY <1>8, <3>7, <3>9, <3>10, <3>11 DEF AtRest
    <3> QED
      BY <3>1, <3>12 DEF o
  <2> QED
    BY <2>4, <2>5
<1>9. CASE n = m /\ s = Opposite(side)
  <2>1. PICK h : KeptAt(makers, qty, 0, far, h)
    BY <1>1, FarSound DEF RowsInv
  <2>2. k \in DOMAIN far /\ o = far[k] /\ DOMAIN makers = 1..Len(makers) /\ DOMAIN far = 1..Len(far)
    <3>1. far \in Seq(OrderOf(Users)) /\ makers \in Seq(OrderOf(Users))
      BY <1>1, FarSide, TradeTypes
    <3>2. book'[n][s] = far
      BY <1>3, <1>4, <1>9
    <3> HIDE DEF far, makers
    <3> QED
      BY <3>1, <3>2
  <2> DEFINE i == h[k]
             maker == makers[i]
             row == orders[maker.id]
             new == orders'[maker.id]
  <2>3. i \in DOMAIN makers /\ o = Filled(maker, qty[i]) /\ Remaining(o) > 0
    BY <2>1, <2>2 DEF KeptAt
  <2>4. /\ maker \in OrderOf(Users) /\ maker.price \in Prices /\ qty[i] \in Int
        /\ Remaining(maker) \in Int
        /\ Remaining(maker) - qty[i] \in Whole
        /\ Remaining(Filled(maker, qty[i])) = Remaining(maker) - qty[i]
    BY <1>1, <2>3, TradeSound DEF RowsInv
  <2>5. /\ maker.id \in 1..Len(orders)
        /\ new.user = row.user /\ new.market = row.market /\ new.side = row.side
        /\ new.quantity = row.quantity /\ new.executed = row.executed + qty[i]
        /\ new.status = IF qty[i] = Remaining(maker) THEN "filled" ELSE "open"
        /\ RowFits(m, Opposite(side), maker, row)
    BY <1>1, <2>3, RowsOfMakers
  <2>6. Pays(m, Opposite(side)) \in held[maker.user]
    BY <1>4, <2>3 DEF RowsInv, OrdersSound
  <2>7. row.quantity \in Int /\ row.executed \in Int
    <3>1. \A id \in 1..Len(orders) : orders[id] \in RowType
      BY DEF TypeOK
    <3>2. maker.id \in 1..Len(orders)
      BY <2>5
    <3> HIDE DEF maker
    <3>3. row \in RowType
      BY <3>1, <3>2
    <3> HIDE DEF row
    <3> QED
      BY <3>3 DEF RowType
  <2> HIDE DEF i, maker, row, o
  <2>8. /\ o.id = maker.id /\ o.user = maker.user /\ o.price = maker.price
        /\ Remaining(o) = Remaining(maker) - qty[i] /\ maker.user \in Users
    BY <2>3, <2>4, FilledType DEF OrderOf
  <2>9. new = orders'[o.id]
    BY <2>8
  <2> HIDE DEF new, qty
  <2>10. RowFits(m, Opposite(side), o, new)
    BY <2>3, <2>4, <2>5, <2>7, <2>8 DEF RowFits
  <2>11. o.price \in Prices /\ Remaining(o) \in Whole /\ Remaining(o) > 0
         /\ Pays(m, Opposite(side)) \in held'[o.user]
    BY <1>2, <2>3, <2>4, <2>6, <2>8
  <2>12. AtRest(n, s, o, held'[o.user], orders'[o.id])
    BY <1>9, <2>9, <2>10, <2>11 DEF AtRest
  <2> QED
    BY <2>12 DEF o
<1> QED
  BY <1>4, <1>7, <1>8, <1>9

\* After a trade the open rows are still those of the orders on the books, and
\* the filled ones those that executed all of it.
LEMMA TradedRowsRest ==
  ASSUME AmountsAboveDust, TypeOK, TypeOK', Filed, OnceOnBook, RowsInv, Outcome,
         NEW m \in Markets, NEW side \in Sides, NEW u \in Users, NEW type \in {"limit", "market"},
         NEW price \in Int, NEW quantity \in Int,
         Places(m, side, u, type, price, quantity)
  PROVE  OpenRests' /\ FilledIsAll'
<1> DEFINE makers == Makers(m, side)
           qty == Given(m, side, u, price, quantity)
           near == Near(m, side, u, type, price, quantity)
           far == Far(m, side, u, price, quantity)
           rest == Rest(m, side, u, price, quantity)
           rests == Rests(m, side, u, type, price, quantity)
           executed == Total(qty)
           added == Len(orders) + 1
           newRow == NewRow(m, side, u, type, price, quantity)
<1>1. /\ quantity \in Quantities /\ quantity \in Int
      /\ Accept(m, side, u, type, price, quantity)
  BY DEF Places
<1>2. \A n \in Markets, s \in Sides :
        book'[n][s] = IF n # m THEN book[n][s] ELSE IF s = side THEN near ELSE far
  BY <1>1, AcceptLists
<1>3. /\ Opposite(side) \in Sides /\ Opposite(side) # side
      /\ \A s \in Sides : s = side \/ s = Opposite(side)
      /\ makers = book[m][Opposite(side)]
  BY DEF Opposite, Sides, Makers
<1>4. /\ DOMAIN orders = 1..Len(orders) /\ Len(orders) \in Nat
      /\ DOMAIN orders' = 1..added /\ orders'[added] = newRow
      /\ \A id \in 1..Len(orders) : orders[id] \in RowType
  BY <1>1, RowsAfter DEF TypeOK
<1>5. /\ executed \in Int /\ executed <= quantity
      /\ FormatNum(quantity, QtyTick) = quantity
  <2>1. /\ executed \in Int /\ executed <= quantity
        /\ quantity \in Whole
    BY <1>1, TradeSound DEF RowsInv
  <2> QED
    BY <2>1, WholeAmounts
<1>6. newRow = [user |-> u, market |-> m, side |-> side,
                quantity |-> FormatNum(quantity, QtyTick), executed |-> executed,
                status |-> IF executed >= quantity THEN "filled"
                           ELSE IF type # "market" THEN "open" ELSE "partially_filled"]
  BY DEF NewRow
<1>7. PICK g : JoinedAt(book[m][side], rest, rests, near, g)
  BY <1>1, NearSide
<1>8. PICK h : KeptAt(makers, qty, 0, far, h)
  BY <1>1, FarSound DEF RowsInv
<1>9. /\ DOMAIN makers = 1..Len(makers) /\ DOMAIN far = 1..Len(far)
      /\ \A n \in Markets, s \in Sides : DOMAIN book[n][s] = 1..Len(book[n][s])
  <2>1. far \in Seq(OrderOf(Users)) /\ makers \in Seq(OrderOf(Users))
    BY <1>1, FarSide, TradeTypes
  <2> HIDE DEF far, makers
  <2>2. DOMAIN makers = 1..Len(makers) /\ DOMAIN far = 1..Len(far)
    BY <2>1
  <2>3. \A n \in Markets, s \in Sides : book[n][s] \in Seq(OrderOf(Users))
    BY DEF TypeOK
  <2>4. \A n \in Markets, s \in Sides : DOMAIN book[n][s] = 1..Len(book[n][s])
    BY <2>3
  <2> QED
    BY <2>2, <2>4
<1>10. rest.id = added
  BY DEF Rest, Taker
<1>11. rests <=> type # "market" /\ executed < quantity
  BY DEF Rests
\* A maker.
<1>12. ASSUME NEW i \in DOMAIN makers
       PROVE  LET row == orders'[makers[i].id]
              IN  /\ row.status = "open" =>
                       \E l \in DOMAIN book'[row.market][row.side] :
                         book'[row.market][row.side][l].id = makers[i].id
                  /\ row.executed = row.quantity <=> row.status = "filled"
  <2> DEFINE maker == makers[i]
             old == orders[maker.id]
             row == orders'[maker.id]
  <2>1. /\ maker.id \in 1..Len(orders)
        /\ row.user = old.user /\ row.market = old.market /\ row.side = old.side
        /\ row.quantity = old.quantity /\ row.executed = old.executed + qty[i]
        /\ row.status = IF qty[i] = Remaining(maker) THEN "filled" ELSE "open"
        /\ RowFits(m, Opposite(side), maker, old)
    BY <1>1, RowsOfMakers
  <2>2. /\ maker \in OrderOf(Users) /\ qty[i] \in Int /\ Remaining(maker) \in Int
        /\ qty[i] <= Remaining(maker)
        /\ Remaining(Filled(maker, qty[i])) = Remaining(maker) - qty[i]
    BY <1>1, TradeSound DEF RowsInv
  <2>3. old.quantity \in Int /\ old.executed \in Int
    <3>1. maker.id \in 1..Len(orders)
      BY <2>1
    <3> HIDE DEF maker
    <3>2. old \in RowType
      BY <1>4, <3>1
    <3> HIDE DEF old
    <3> QED
      BY <3>2 DEF RowType
  <2>4. row.status = "open" => \E l \in DOMAIN far : far[l].id = maker.id
    <3> SUFFICES ASSUME qty[i] # Remaining(maker) PROVE \E l \in DOMAIN far : far[l].id = maker.id
      BY <2>1
    <3>1. Remaining(Filled(maker, qty[i])) > 0
      BY <2>2
    <3>2. PICK l \in DOMAIN far : h[l] = i
      BY <1>8, <1>9, <3>1 DEF KeptAt
    <3>3. far[l] = Filled(maker, qty[i])
      BY <1>8, <1>9, <3>2 DEF KeptAt
    <3> HIDE DEF far, maker
    <3>4. Filled(maker, qty[i]).id = maker.id
      BY <2>2, FilledType
    <3> QED
      BY <3>3, <3>4
  <2>5. book'[m][Opposite(side)] = far
    BY <1>2, <1>3
  <2>6. row.market = m /\ row.side = Opposite(side)
    BY <2>1 DEF RowFits
  <2>7. row.executed = row.quantity <=> row.status = "filled"
    <3> HIDE DEF old, maker, row, qty
    <3> QED
      BY <2>1, <2>2, <2>3 DEF RowFits
  <2> HIDE DEF row, far
  <2>8. row.status = "open" => \E l \in DOMAIN book'[row.market][row.side] :
                                 book'[row.market][row.side][l].id = maker.id
    BY <2>4, <2>5, <2>6
  <2> QED
    BY <2>7, <2>8 DEF row, maker
\* An older order that is not one.
<1>13. ASSUME NEW id \in 1..Len(orders), \A i \in DOMAIN makers : makers[i].id # id
       PROVE  LET row == orders'[id]
              IN  /\ row.status = "open" =>
                       \E l \in DOMAIN book'[row.market][row.side] :
                         book'[row.market][row.side][l].id = id
                  /\ row.executed = row.quantity <=> row.status = "filled"
  <2> DEFINE row == orders[id]
  <2>1. orders'[id] = row
    BY <1>1, <1>13, RowsOfMakers
  <2>2. row.executed = row.quantity <=> row.status = "filled"
    BY <1>4 DEF RowsInv, FilledIsAll
  <2>3. row.market \in Markets /\ row.side \in Sides
    <3>1. row \in RowType
      BY <1>4
    <3> HIDE DEF row
    <3> QED
      BY <3>1 DEF RowType
  <2>4. row.status = "open" => \E l \in DOMAIN book'[row.market][row.side] :
                                 book'[row.market][row.side][l].id = id
    <3> SUFFICES ASSUME row.status = "open"
                 PROVE  \E l \in DOMAIN book'[row.market][row.side] :
                          book'[row.market][row.side][l].id = id
      OBVIOUS
    <3>1. PICK i \in DOMAIN book[row.market][row.side] : book[row.market][row.side][i].id = id
      BY <1>4 DEF RowsInv, OpenRests
    <3> HIDE DEF row, makers, near, far
    <3>2. ~(row.market = m /\ row.side = Opposite(side))
      BY <1>3, <1>13, <3>1
    <3>3. CASE row.market # m
      BY <1>2, <2>3, <3>1, <3>3
    <3>4. CASE row.market = m /\ row.side = side
      <4>1. book'[row.market][row.side] = near
        BY <1>2, <2>3, <3>4
      <4>2. PICK l \in DOMAIN near : g[l] = i
        BY <1>7, <3>1, <3>4 DEF JoinedAt
      <4>3. i # 0
        BY <1>9, <2>3, <3>1
      <4>4. near[l] = book[m][side][i]
        BY <1>7, <4>2, <4>3 DEF JoinedAt
      <4> QED
        BY <3>1, <3>4, <4>1, <4>4
    <3> QED
      BY <1>3, <2>3, <3>2, <3>3, <3>4
  <2> HIDE DEF row
  <2> QED
    BY <2>1, <2>2, <2>4
\* The new order.
<1>14. /\ newRow.status = "open" =>
            \E l \in DOMAIN book'[newRow.market][newRow.side] :
              book'[newRow.market][newRow.side][l].id = added
       /\ newRow.executed = newRow.quantity <=> newRow.status = "filled"
  <2> HIDE DEF executed, newRow, near, added
  <2>1. newRow.market = m /\ newRow.side = side /\ newRow.executed = executed
        /\ newRow.quantity = quantity
    BY <1>5, <1>6
  <2>2. newRow.status = "open" => rests
    BY <1>1, <1>5, <1>6, <1>11
  <2>3. newRow.executed = newRow.quantity <=> newRow.status = "filled"
    BY <1>1, <1>5, <1>6, <2>1
  <2>4. book'[m][side] = near
    BY <1>2
  <2>5. rests => \E l \in DOMAIN near : near[l].id = added
    BY <1>7, <1>10 DEF JoinedAt
  <2> QED
    BY <2>1, <2>2, <2>3, <2>4, <2>5
<1>15. \A id \in DOMAIN orders' :
         LET row == orders'[id]
         IN  /\ row.status = "open" =>
                  \E l \in DOMAIN book'[row.market][row.side] : book'[row.market][row.side][l].id = id
             /\ row.executed = row.quantity <=> row.status = "filled"
  <2> TAKE id \in DOMAIN orders'
  <2>1. id = added \/ id \in 1..Len(orders)
    BY <1>4
  <2> HIDE DEF added, newRow, makers
  <2>2. CASE id = added
    BY <1>4, <1>14, <2>2
  <2>3. CASE id \in 1..Len(orders)
    BY <1>12, <1>13, <2>3
  <2> QED
    BY <2>1, <2>2, <2>3
<1> QED
  BY <1>15 DEF OpenRests, FilledIsAll

\* A cancelled order leaves the books and its row says so; the others keep
\* their rows.
LEMMA CancelledRows ==
  ASSUME TypeOK, Filed, OnceOnBook, RowsInv,
         NEW m \in Markets, NEW side \in Sides, NEW c \in DOMAIN book[m][side],
         Cancels(m, side, c)
  PROVE  RowsInv'
<1> DEFINE o == book[m][side][c]
           cancelled == Increment(orders[o.id], 0, "cancelled")
<1>1. /\ orders' = [orders EXCEPT ![o.id] = cancelled] /\ held' = held
      /\ o.id \in 1..Len(orders)
  BY DEF Cancels, Filed
<1>2. /\ DOMAIN orders = 1..Len(orders) /\ DOMAIN orders' = DOMAIN orders
      /\ orders'[o.id] = cancelled
      /\ \A id \in DOMAIN orders : orders[id] \in RowType /\ (id # o.id => orders'[id] = orders[id])
  <2> HIDE DEF o, cancelled
  <2> QED
    BY <1>1 DEF TypeOK
<1>3. \A n \in Markets, s \in Sides :
        /\ book[n][s] \in Seq(OrderOf(Users))
        /\ book'[n][s] = IF n = m /\ s = side THEN RemoveAt(book[n][s], c) ELSE book[n][s]
  BY CancelLists DEF TypeOK
<1>4. /\ RowFits(m, side, o, orders[o.id])
      /\ Remaining(o) \in Int /\ Remaining(o) > 0
  BY WholeAmounts DEF RowsInv, RowsTell, OrdersSound
\* Every order left was there, and is another one.
<1>5. ASSUME NEW n \in Markets, NEW s \in Sides, NEW k \in DOMAIN book'[n][s]
      PROVE  \E i \in DOMAIN book[n][s] :
               book'[n][s][k] = book[n][s][i] /\ book[n][s][i].id # o.id
  <2> DEFINE old == book[n][s]
             new == book'[n][s]
  <2>1. old \in Seq(OrderOf(Users))
    BY <1>3
  <2>2. CASE n = m /\ s = side
    <3>1. new = RemoveAt(old, c) /\ c \in DOMAIN old
      BY <1>3, <2>2
    <3>2. k \in DOMAIN new
      OBVIOUS
    <3> HIDE DEF new, old
    <3>3. new \in Seq(OrderOf(Users))
      BY <2>1, <3>1, RemoveAtType
    <3>4. /\ Len(new) = Len(old) - 1
          /\ \A l \in 1..(Len(old) - 1) : new[l] = IF l < c THEN old[l] ELSE old[l + 1]
      BY <2>1, <3>1, RemovedWhere
    <3>5. k \in 1..(Len(old) - 1) /\ Len(old) \in Nat /\ DOMAIN old = 1..Len(old)
      BY <2>1, <3>2, <3>3, <3>4
    <3>6. PICK i \in DOMAIN old : new[k] = old[i] /\ i # c
      <4>1. CASE k < c
        BY <3>4, <3>5, <4>1
      <4>2. CASE ~(k < c)
        <5>1. new[k] = old[k + 1] /\ k + 1 \in DOMAIN old /\ k + 1 # c
          BY <3>1, <3>4, <3>5, <4>2
        <5> QED
          BY <5>1
      <4> QED
        BY <4>1, <4>2
    <3>7. i \in DOMAIN book[n][s] /\ i # c /\ book'[n][s][k] = book[n][s][i]
      BY <3>6 DEF old, new
    <3> QED
      BY <2>2, <3>7 DEF OnceOnBook
  <2>3. CASE ~(n = m /\ s = side)
    <3>1. new = old
      BY <1>3, <2>3
    <3>2. k \in DOMAIN old /\ old[k].id # o.id
      BY <2>3, <3>1 DEF OnceOnBook
    <3> QED
      BY <3>1, <3>2
  <2> QED
    BY <2>2, <2>3
<1>6. ASSUME NEW n \in Markets, NEW s \in Sides, NEW k \in DOMAIN book'[n][s]
      PROVE  LET p == book'[n][s][k]
             IN  /\ p.price \in Prices
                 /\ Remaining(p) \in Whole /\ Remaining(p) > 0
                 /\ Pays(n, s) \in held'[p.user]
                 /\ RowFits(n, s, p, orders'[p.id])
  <2>1. PICK i \in DOMAIN book[n][s] :
          book'[n][s][k] = book[n][s][i] /\ book[n][s][i].id # o.id
    BY <1>5
  <2>2. book[n][s][i].id \in DOMAIN orders
    BY <1>2 DEF Filed
  <2>3. orders'[book[n][s][i].id] = orders[book[n][s][i].id]
    BY <1>2, <2>1, <2>2
  <2> QED
    BY <1>1, <2>1, <2>3 DEF RowsInv, OrdersSound, RowsTell
<1>7. /\ cancelled.status = "cancelled" /\ cancelled.quantity = orders[o.id].quantity
      /\ cancelled.executed = orders[o.id].executed /\ cancelled.executed # cancelled.quantity
  <2> DEFINE row == orders[o.id]
  <2>1. row \in RowType
    BY <1>1, <1>2
  <2>2. cancelled = Increment(row, 0, "cancelled")
    OBVIOUS
  <2> HIDE DEF row, cancelled
  <2>3. row.executed \in Int /\ row.quantity \in Int
    BY <2>1 DEF RowType
  <2>4. /\ cancelled.status = "cancelled" /\ cancelled.quantity = row.quantity
        /\ cancelled.executed = row.executed
    <3>1. row.executed + 0 = row.executed
      BY <2>3
    <3>2. "cancelled" # Absent
      BY DEF Absent
    <3> QED
      BY <2>1, <2>2, <3>1, <3>2 DEF Increment, RowType
  <2>5. Remaining(o) = row.quantity - row.executed
    BY <1>4 DEF row, RowFits
  <2> HIDE DEF o
  <2>6. row.executed # row.quantity
    BY <1>4, <2>3, <2>5
  <2> QED
    BY <2>4, <2>6 DEF row
<1>8. ASSUME NEW id \in DOMAIN orders'
      PROVE  /\ orders'[id].status = "open" =>
                  \E l \in DOMAIN book'[orders'[id].market][orders'[id].side] :
                    book'[orders'[id].market][orders'[id].side][l].id = id
             /\ orders'[id].executed = orders'[id].quantity <=> orders'[id].status = "filled"
  <2>1. CASE id = o.id
    BY <1>2, <1>7, <2>1
  <2>2. CASE id # o.id
    <3> DEFINE row == orders[id]
    <3>1. orders'[id] = row /\ row \in RowType
      BY <1>2, <2>2
    <3>2. row.market \in Markets /\ row.side \in Sides
      <4> HIDE DEF row
      <4> QED
        BY <3>1 DEF RowType
    <3>3. row.executed = row.quantity <=> row.status = "filled"
      BY <1>2 DEF RowsInv, FilledIsAll
    <3>4. row.status = "open" => \E l \in DOMAIN book'[row.market][row.side] :
                                   book'[row.market][row.side][l].id = id
      <4> SUFFICES ASSUME row.status = "open"
                   PROVE  \E l \in DOMAIN book'[row.market][row.side] :
                            book'[row.market][row.side][l].id = id
        OBVIOUS
      <4> DEFINE old == book[row.market][row.side]
                 new == book'[row.market][row.side]
      <4>1. PICK i \in DOMAIN old : old[i].id = id
        BY <1>2 DEF RowsInv, OpenRests
      <4>2. old \in Seq(OrderOf(Users))
        BY <1>3, <3>2
      <4>3. CASE row.market = m /\ row.side = side
        <5>1. new = RemoveAt(old, c) /\ c \in DOMAIN old /\ i # c
          BY <1>3, <2>2, <3>2, <4>1, <4>3
        <5> HIDE DEF new, old
        <5>2. new \in Seq(OrderOf(Users))
          BY <4>2, <5>1, RemoveAtType
        <5>3. /\ Len(new) = Len(old) - 1
              /\ \A l \in 1..(Len(old) - 1) : new[l] = IF l < c THEN old[l] ELSE old[l + 1]
          BY <4>2, <5>1, RemovedWhere
        <5>4. Len(old) \in Nat /\ DOMAIN old = 1..Len(old) /\ DOMAIN new = 1..Len(new)
          BY <4>2, <5>2
        <5>5. CASE i < c
          <6>1. i \in DOMAIN new /\ new[i] = old[i]
            BY <4>1, <5>1, <5>3, <5>4, <5>5
          <6> QED
            BY <4>1, <6>1 DEF new
        <5>6. CASE i > c
          <6>1. i - 1 \in DOMAIN new /\ new[i - 1] = old[i]
            BY <4>1, <5>1, <5>3, <5>4, <5>6
          <6> QED
            BY <4>1, <6>1 DEF new
        <5> QED
          BY <4>1, <5>1, <5>4, <5>5, <5>6
      <4>4. CASE ~(row.market = m /\ row.side = side)
        <5>1. new = old
          BY <1>3, <3>2, <4>4
        <5> QED
          BY <4>1, <5>1
      <4> QED
        BY <4>3, <4>4
    <3> HIDE DEF row
    <3> QED
      BY <3>1, <3>3, <3>4
  <2> QED
    BY <2>1, <2>2
<1>9. OrdersSound' /\ RowsTell'
  BY <1>6 DEF OrdersSound, RowsTell
<1>10. OpenRests' /\ FilledIsAll'
  BY <1>8 DEF OpenRests, FilledIsAll
<1> QED
  BY <1>9, <1>10 DEF RowsInv

\* The rows keep telling what the books hold.
LEMMA RowsKept ==
  ASSUME AmountsAboveDust, TypeOK, TypeOK', Filed, OnceOnBook, RowsInv, Outcome
  PROVE  RowsInv'
<1>1. CASE UNCHANGED <<book, orders>>
  <2>1. \A v \in Users : held[v] \subseteq held'[v]
    BY HeldGrows
  <2>2. \A m \in Markets, side \in Sides : \A i \in DOMAIN book[m][side] : book[m][side][i].user \in Users
    <3> TAKE m \in Markets, side \in Sides
    <3> TAKE i \in DOMAIN book[m][side]
    <3>1. book[m][side] \in Seq(OrderOf(Users))
      BY DEF TypeOK
    <3>2. book[m][side][i] \in OrderOf(Users)
      BY <3>1
    <3> QED
      BY <3>2 DEF OrderOf
  <2>3. OrdersSound'
    BY <1>1, <2>1, <2>2 DEF RowsInv, OrdersSound
  <2>4. RowsTell'
    BY <1>1 DEF RowsInv, RowsTell
  <2>5. OpenRests' /\ FilledIsAll'
    BY <1>1 DEF RowsInv, OpenRests, FilledIsAll
  <2> QED
    BY <2>3, <2>4, <2>5 DEF RowsInv
<1>2. CASE \E m \in Markets, side \in Sides : \E i \in DOMAIN book[m][side] : Cancels(m, side, i)
  BY <1>2, CancelledRows
<1>3. CASE \E m \in Markets, side \in Sides, u \in Users, type \in {"limit", "market"},
              price \in Int, quantity \in Int : Places(m, side, u, type, price, quantity)
  <2>1. PICK m \in Markets, side \in Sides, u \in Users, type \in {"limit", "market"},
              price \in Int, quantity \in Int : Places(m, side, u, type, price, quantity)
    BY <1>3
  <2>2. \A n \in Markets, s \in Sides : \A k \in DOMAIN book'[n][s] :
          AtRest(n, s, book'[n][s][k], held'[book'[n][s][k].user], orders'[book'[n][s][k].id])
    BY <2>1, TradedRows
  <2>3. OrdersSound' /\ RowsTell'
    BY <2>2 DEF AtRest, OrdersSound, RowsTell
  <2>4. OpenRests' /\ FilledIsAll'
    BY <2>1, TradedRowsRest
  <2> QED
    BY <2>3, <2>4 DEF RowsInv
<1> QED
  BY <1>1, <1>2, <1>3, BookOutcome

-----------------------------------------------------------------------------
(* The trade tape *)

\* What the rows of market m have executed.
Executed(rows, m) == [id \in DOMAIN rows |-> IF rows[id].market = m THEN rows[id].executed ELSE 0]

LEMMA ExecutedSum ==
  ASSUME NEW rows \in Seq(RowType), NEW m
  PROVE  /\ \A id \in 1..Len(rows) :
              /\ rows[id].executed \in Int
              /\ Executed(rows, m)[id] = IF rows[id].market = m THEN rows[id].executed ELSE 0
              /\ Executed(rows, m)[id] \in Int
         /\ Total(Executed(rows, m)) = SumOver(1..Len(rows), Executed(rows, m))
<1>1. DOMAIN rows = 1..Len(rows) /\ Len(rows) \in Nat
  OBVIOUS
<1>2. \A id \in 1..Len(rows) : rows[id].executed \in Int
  <2> TAKE id \in 1..Len(rows)
  <2>1. rows[id] \in RowType
    BY <1>1
  <2> QED
    BY <2>1 DEF RowType
<1>3. \A id \in 1..Len(rows) :
        /\ Executed(rows, m)[id] = IF rows[id].market = m THEN rows[id].executed ELSE 0
        /\ Executed(rows, m)[id] \in Int
  BY <1>1, <1>2 DEF Executed
<1>4. Executed(rows, m) \in Seq(Int) /\ Len(Executed(rows, m)) = Len(rows)
  BY <1>1, <1>3 DEF Executed
<1>5. Total(Executed(rows, m)) = SumOver(1..Len(rows), Executed(rows, m))
  BY <1>4, TotalIsSum
<1> QED
  BY <1>2, <1>3, <1>5

LEMMA TapeByRows ==
  TapeMatchesOrders <=> \A n \in Markets : 2 * volume[n] = Total(Executed(orders, n))
BY DEF TapeMatchesOrders, Executed

\* What the rows are told the makers gave is what they gave.
LEMMA MadeSum ==
  ASSUME TypeOK, Filed, NEW m \in Markets, NEW side \in Sides, NEW u \in Users,
         NEW price \in Int, NEW quantity \in Int
  PROVE  SumOver(1..Len(orders), [o \in 1..Len(orders) |-> MadeBy(m, side, u, price, quantity, o)])
           = Total(Given(m, side, u, price, quantity))
<1> DEFINE makers == Makers(m, side)
           qty == Given(m, side, u, price, quantity)
           made == [o \in 1..Len(orders) |-> MadeBy(m, side, u, price, quantity, o)]
           of(o) == [i \in DOMAIN makers |-> IF makers[i].id = o THEN qty[i] ELSE 0]
           key == [i \in DOMAIN makers |-> makers[i].id]
           group == [o \in 1..Len(orders) |-> of(o)]
           I == 1..Len(makers)
           K == 1..Len(orders)
<1>1. /\ makers \in Seq(OrderOf(Users)) /\ Len(orders) \in Nat
      /\ qty \in Seq(Int) /\ qty \in [DOMAIN makers -> Int]
  BY TradeTypes
<1>2. \A i \in DOMAIN makers : makers[i].id \in 1..Len(orders)
  BY DEF Makers, Opposite, Sides, Filed
<1>3. \A o : MadeBy(m, side, u, price, quantity, o) = Total(of(o))
  BY DEF MadeBy
<1> HIDE DEF makers, qty
<1>4. DOMAIN makers = I /\ Len(makers) \in Nat /\ Len(qty) = Len(makers)
  BY <1>1
<1>5. IsFiniteSet(I) /\ IsFiniteSet(K)
  BY <1>1, <1>4, FS_Interval
<1>6. \A i \in I : key[i] \in K /\ key[i] = makers[i].id /\ qty[i] \in Int
  BY <1>1, <1>2, <1>4
<1>7. \A k \in K, i \in I : group[k][i] = IF key[i] = k THEN qty[i] ELSE 0
  BY <1>4
<1>8. \A k \in K : made[k] = SumOver(I, group[k])
  <2> TAKE k \in K
  <2>1. of(k) \in Seq(Int) /\ Len(of(k)) = Len(makers)
    BY <1>1, <1>4
  <2>2. Total(of(k)) = SumOver(1..Len(of(k)), of(k))
    BY <2>1, TotalIsSum
  <2>3. group[k] = of(k)
    OBVIOUS
  <2>4. made[k] = Total(of(k))
    BY <1>3
  <2> HIDE DEF group, made, of
  <2> QED
    BY <2>1, <2>2, <2>3, <2>4
<1>9. Total(qty) = SumOver(I, qty)
  BY <1>1, <1>4, TotalIsSum
<1> HIDE DEF key, group, made, I, K, of
<1>10. SumOver(K, made) = SumOver(I, qty)
  <2>1. \A i \in I : key[i] \in K
    BY <1>6
  <2>2. \A i \in I : qty[i] \in Int
    BY <1>6
  <2> QED
    BY ONLY <1>5, <1>7, <1>8, <2>1, <2>2, SumOverGroups
<1>11. SumOver(K, made) = Total(qty)
  BY <1>9, <1>10
<1> QED
  BY <1>11 DEF K, made, qty

\* A trade enters the rows twice and the tape once.
LEMMA TradedTape ==
  ASSUME AmountsAboveDust, TypeOK, TypeOK', Filed, OnceOnBook, RowsInv, TapeMatchesOrders,
         NEW m \in Markets, NEW side \in Sides, NEW u \in Users, NEW type,
         NEW price \in Int, NEW quantity \in Int,
         Places(m, side, u, type, price, quantity),
         NEW n \in Markets
  PROVE  2 * volume'[n] = Total(Executed(orders', n))
<1> DEFINE makers == Makers(m, side)
           qty == Given(m, side, u, price, quantity)
           executed == Total(qty)
           made == [o \in 1..Len(orders) |-> MadeBy(m, side, u, price, quantity, o)]
           L == Len(orders)
           old == Executed(orders, n)
           new == Executed(orders', n)
           added == [o \in 1..L |-> IF n = m THEN made[o] ELSE 0]
<1>1. /\ quantity \in Quantities /\ Accept(m, side, u, type, price, quantity)
  BY DEF Places
<1>2. /\ L \in Nat /\ Len(orders') = L + 1
      /\ orders'[L + 1] = NewRow(m, side, u, type, price, quantity)
  BY <1>1, RowsAfter, AcceptAddsOneRow, TradeTypes
<1>3. /\ \A id \in 1..L : old[id] = (IF orders[id].market = n THEN orders[id].executed ELSE 0)
                          /\ old[id] \in Int /\ orders[id].executed \in Int
      /\ Total(old) = SumOver(1..L, old)
  <2>1. orders \in Seq(RowType)
    BY DEF TypeOK
  <2> QED
    BY <2>1, ExecutedSum
<1>4. /\ \A id \in 1..Len(orders') :
           /\ new[id] = (IF orders'[id].market = n THEN orders'[id].executed ELSE 0)
           /\ new[id] \in Int
      /\ Total(new) = SumOver(1..Len(orders'), new)
  <2>1. orders' \in Seq(RowType)
    BY DEF TypeOK
  <2> QED
    BY <2>1, ExecutedSum
<1>5. \A id \in 1..L : new[id] = old[id] + added[id] /\ added[id] \in Int
  <2> SUFFICES ASSUME NEW id \in 1..L
               PROVE  new[id] = old[id] + added[id] /\ added[id] \in Int
    OBVIOUS
  <2>1. id \in 1..Len(orders')
    BY <1>2
  <2>2. added[id] = IF n = m THEN MadeBy(m, side, u, price, quantity, id) ELSE 0
    OBVIOUS
  <2> HIDE DEF new, old, added
  <2>3. CASE \A i \in DOMAIN makers : makers[i].id # id
    <3>1. MadeBy(m, side, u, price, quantity, id) = 0
      <4>1. \A o : (\A i \in DOMAIN Makers(m, side) : Makers(m, side)[i].id # o)
                    => MadeBy(m, side, u, price, quantity, o) = 0
        BY MadeByOne
      <4> QED
        BY <2>3, <4>1
    <3>2. orders'[id] = orders[id]
      BY <1>1, <2>3, RowsOfMakers
    <3> QED
      BY <1>3, <1>4, <2>1, <2>2, <3>1, <3>2
  <2>4. CASE \E i \in DOMAIN makers : makers[i].id = id
    <3>1. PICK i \in DOMAIN makers : makers[i].id = id
      BY <2>4
    <3>2. MadeBy(m, side, u, price, quantity, id) = qty[i]
      BY <3>1, MadeByOne
    <3>3. /\ orders'[id].market = orders[id].market
          /\ orders'[id].executed = orders[id].executed + qty[i]
          /\ orders[id].market = m
      BY <1>1, <3>1, RowsOfMakers DEF RowFits
    <3>4. qty[i] \in Int
      BY <1>1, <3>1, TradeSound DEF RowsInv
    <3> HIDE DEF qty
    <3> QED
      BY <1>3, <1>4, <2>1, <2>2, <3>2, <3>3, <3>4
  <2> QED
    BY <2>3, <2>4
<1>6. SumOver(1..L, added) = IF n = m THEN executed ELSE 0
  <2>1. IsFiniteSet(1..L)
    BY <1>2, FS_Interval
  <2>2. CASE n = m
    <3>1. added = made
      BY <2>2
    <3>2. SumOver(1..L, made) = executed
      BY MadeSum
    <3> QED
      BY <2>2, <3>1, <3>2
  <2>3. CASE n # m
    <3>1. \A o \in 1..L : added[o] = 0
      BY <2>3
    <3> HIDE DEF added
    <3>2. SumOver(1..L, added) = 0
      BY <2>1, <3>1, SumOverZero
    <3> QED
      BY <2>3, <3>2
  <2> QED
    BY <2>2, <2>3
<1>7. new[L + 1] = IF n = m THEN executed ELSE 0
  <2>1. /\ NewRow(m, side, u, type, price, quantity).market = m
        /\ NewRow(m, side, u, type, price, quantity).executed = executed
    BY DEF NewRow
  <2>2. L + 1 \in 1..Len(orders')
    BY <1>2
  <2> HIDE DEF new, executed
  <2> QED
    BY <1>2, <1>4, <2>1, <2>2
<1>8. executed \in Int /\ volume'[n] = volume[n] + (IF n = m THEN executed ELSE 0)
  <2>1. executed \in Int /\ \A i \in DOMAIN makers : qty[i] \in Whole
    BY <1>1, TradeSound DEF RowsInv
  <2>2. qty \in [DOMAIN makers -> Int]
    BY TradeTypes
  <2>3. volume' = [volume EXCEPT ![m] = @ + Total([i \in DOMAIN makers |-> FormatNum(qty[i], QtyTick)])]
    BY <1>1 DEF Accept, Makers, Given, Taker
  <2> HIDE DEF makers, qty
  <2>4. [i \in DOMAIN makers |-> FormatNum(qty[i], QtyTick)] = qty
    BY <2>1, <2>2, WholeAmounts
  <2>5. volume \in [Markets -> Int]
    BY DEF TypeOK
  <2> QED
    BY <2>1, <2>3, <2>4, <2>5
<1>9. 2 * volume[n] = SumOver(1..L, old)
  BY <1>3, TapeByRows
<1>10. volume[n] \in Int
  BY DEF TypeOK
<1> HIDE DEF old, new, added, executed, L
<1>11. IsFiniteSet(1..L) /\ L + 1 \notin 1..L /\ 1..(L + 1) = (1..L) \cup {L + 1}
  <2>1. IsFiniteSet(1..L)
    BY <1>2, FS_Interval
  <2>2. L + 1 \notin 1..L /\ 1..(L + 1) = (1..L) \cup {L + 1}
    BY <1>2
  <2> QED
    BY <2>1, <2>2
<1>12. SumOver(1..(L + 1), new) = SumOver(1..L, new) + new[L + 1]
  <2>1. \A id \in (1..L) \cup {L + 1} : new[id] \in Int
    BY <1>2, <1>4
  <2>2. SumOver((1..L) \cup {L + 1}, new) = SumOver(1..L, new) + new[L + 1]
    BY <1>11, <2>1, SumOverAdd
  <2> QED
    BY <1>11, <2>2
<1>13. SumOver(1..L, new) = SumOver(1..L, old) + SumOver(1..L, added)
  <2>1. \A id \in 1..L : old[id] \in Int /\ added[id] \in Int /\ new[id] = old[id] + added[id]
    BY <1>3, <1>5
  <2> QED
    BY <1>11, <2>1, SumOverPlus
<1>14. SumOver(1..L, old) \in Int
  BY <1>3, <1>11, SumOverType
<1>15. 2 * volume'[n] = Total(new)
  BY <1>2, <1>4, <1>6, <1>7, <1>8, <1>9, <1>10, <1>12, <1>13, <1>14
<1> QED
  BY <1>15 DEF new

LEMMA TapeKept ==
  ASSUME AmountsAboveDust, TypeOK, TypeOK', Filed, OnceOnBook, RowsInv, TapeMatchesOrders, Outcome
  PROVE  TapeMatchesOrders'
<1>1. ASSUME UNCHANGED volume, DOMAIN orders' = DOMAIN orders,
             \A id \in DOMAIN orders :
               orders'[id].market = orders[id].market /\ orders'[id].executed = orders[id].executed
      PROVE  TapeMatchesOrders'
  <2>1. \A n : Executed(orders', n) = Executed(orders, n)
    BY <1>1 DEF Executed
  <2>2. \A n \in Markets : 2 * volume'[n] = Total(Executed(orders', n))
    BY <1>1, <2>1, TapeByRows
  <2> QED
    BY <2>2 DEF TapeMatchesOrders, Executed
<1>2. CASE UNCHANGED <<orders, volume>>
  BY <1>1, <1>2
<1>3. ASSUME NEW m \in Markets, NEW side \in Sides, NEW c \in DOMAIN book[m][side], Cancels(m, side, c)
      PROVE  TapeMatchesOrders'
  <2> DEFINE id == book[m][side][c].id
             cancelled == Increment(orders[id], 0, "cancelled")
  <2>1. orders' = [orders EXCEPT ![id] = cancelled] /\ UNCHANGED volume /\ id \in DOMAIN orders
    <3>1. id \in 1..Len(orders)
      BY DEF Filed
    <3>2. DOMAIN orders = 1..Len(orders)
      BY DEF TypeOK
    <3> QED
      BY <1>3, <3>1, <3>2 DEF Cancels
  <2>2. cancelled.market = orders[id].market /\ cancelled.executed = orders[id].executed
    <3>1. orders[id] \in RowType
      BY <2>1 DEF TypeOK
    <3> HIDE DEF id
    <3> QED
      BY <3>1 DEF Increment, RowType
  <2> HIDE DEF id, cancelled
  <2> QED
    BY <1>1, <2>1, <2>2
<1>4. ASSUME NEW m \in Markets, NEW side \in Sides, NEW u \in Users, NEW type,
             NEW price \in Int, NEW quantity \in Int, Places(m, side, u, type, price, quantity)
      PROVE  TapeMatchesOrders'
  <2>1. \A n \in Markets : 2 * volume'[n] = Total(Executed(orders', n))
    BY <1>4, TradedTape
  <2> QED
    BY <2>1 DEF TapeMatchesOrders, Executed
<1>5. CASE \E m \in Markets, side \in Sides : \E i \in DOMAIN book[m][side] : Cancels(m, side, i)
  BY <1>3, <1>5
<1>6. CASE \E m \in Markets, side \in Sides, u \in Users, type \in {"limit", "market"},
              price \in Int, quantity \in Int : Places(m, side, u, type, price, quantity)
  BY <1>4, <1>6
<1> QED
  BY <1>2, <1>5, <1>6 DEF Outcome, RefusesForFunds, TakesBack, Deposited, Enrols, vars

-----------------------------------------------------------------------------
(* What the books keep locked *)

\* What order o on a side of m keeps locked of asset a for account v, and what
\* a list of orders does.
Slot(m, side, v, a, o) ==
  IF o.user = v /\ Pays(m, side) = a THEN Worth(a, Remaining(o), o.price) ELSE 0
Slots(m, side, v, a, list) == [i \in DOMAIN list |-> Slot(m, side, v, a, list[i])]
ListLocks(m, side, v, a, list) == Total(Slots(m, side, v, a, list))

\* What books b keep locked of asset a for account v.
MarketLocks(b, v, a) ==
  [m \in Markets |-> ListLocks(m, "buy", v, a, b[m]["buy"]) + ListLocks(m, "sell", v, a, b[m]["sell"])]
Locks(b, v, a) == SumOver(Markets, MarketLocks(b, v, a))

Books == [Markets -> [Sides -> Seq(OrderOf(Users))]]

LEMMA CoveredByLocks ==
  LocksCoverBook <=> \A v \in Users, a \in Assets : bal[v][a].locked = Locks(book, v, a)
BY DEF LocksCoverBook, LockedBy, Locks, MarketLocks, ListLocks, Slots, Slot

LEMMA WorthSum ==
  ASSUME NEW a, NEW p \in Int, NEW q \in Int, NEW r \in Int
  PROVE  /\ Worth(a, q, p) + Worth(a, r, p) = Worth(a, q + r, p)
         /\ Worth(a, q, p) - Worth(a, r, p) = Worth(a, q - r, p)
         /\ Worth(a, 0, p) = 0
<1>1. q * p + r * p = (q + r) * p /\ q * p - r * p = (q - r) * p /\ 0 * p = 0
  OBVIOUS
<1> QED
  BY <1>1 DEF Worth

LEMMA SlotType ==
  ASSUME NEW m, NEW side, NEW v, NEW a, NEW o \in OrderOf(Users)
  PROVE  Slot(m, side, v, a, o) \in Int
<1>1. Remaining(o) \in Int /\ o.price \in Int
  BY DEF OrderOf, Remaining
<1> QED
  BY <1>1, WorthType DEF Slot

\* The locks of a list as a sum over its positions.
LEMMA ListLocksSum ==
  ASSUME NEW m, NEW side, NEW v, NEW a, NEW list \in Seq(OrderOf(Users))
  PROVE  /\ \A i \in 1..Len(list) :
              /\ Slots(m, side, v, a, list)[i] = Slot(m, side, v, a, list[i])
              /\ Slots(m, side, v, a, list)[i] \in Int
         /\ ListLocks(m, side, v, a, list) = SumOver(1..Len(list), Slots(m, side, v, a, list))
         /\ ListLocks(m, side, v, a, list) \in Int
         /\ Len(list) \in Nat /\ DOMAIN list = 1..Len(list) /\ IsFiniteSet(1..Len(list))
<1> DEFINE slots == Slots(m, side, v, a, list)
<1>1. Len(list) \in Nat /\ DOMAIN list = 1..Len(list)
  OBVIOUS
<1>2. \A i \in 1..Len(list) : slots[i] = Slot(m, side, v, a, list[i]) /\ slots[i] \in Int
  <2> TAKE i \in 1..Len(list)
  <2>1. list[i] \in OrderOf(Users)
    BY <1>1
  <2>2. slots[i] = Slot(m, side, v, a, list[i])
    BY <1>1 DEF Slots
  <2> QED
    BY <2>1, <2>2, SlotType
<1>3. DOMAIN slots = 1..Len(list)
  BY <1>1 DEF Slots
<1>4. slots = [i \in 1..Len(list) |-> slots[i]]
  BY <1>1 DEF Slots
<1> HIDE DEF slots
<1>5. slots \in Seq(Int) /\ Len(slots) = Len(list)
  BY <1>1, <1>2, <1>3, <1>4
<1>6. Total(slots) = SumOver(1..Len(list), slots) /\ Total(slots) \in Int
  BY <1>5, TotalIsSum, TotalType
<1>7. IsFiniteSet(1..Len(list))
  BY <1>1, FS_Interval
<1> QED
  BY <1>1, <1>2, <1>6, <1>7 DEF slots, ListLocks

\* The worth of an order that something is left of is not swept as dust.
LEMMA WorthAboveDust ==
  ASSUME AmountsAboveDust, NEW a \in Assets, NEW q \in Whole, q > 0, NEW p \in Prices
  PROVE  Worth(a, q, p) \in Nat /\ Worth(a, q, p) >= Dust[a]
<1>1. /\ q \in Int /\ q >= QtyTick /\ QtyTick \in Nat \ {0} /\ p \in Nat \ {0}
      /\ Dust \in [Assets -> Nat]
  BY WholeAmounts, ConstantsAssumption
<1>2. CASE a = Quote
  <2>1. Dust[a] <= p * QtyTick /\ Dust[a] \in Nat
    BY <1>1, <1>2 DEF AmountsAboveDust
  <2>2. q - QtyTick \in Nat /\ p \in Nat /\ q \in Nat
    BY <1>1
  <2>3. (q - QtyTick) * p \in Nat /\ q * p \in Nat
    BY <2>2, ProductNat
  <2>4. (q - QtyTick) * p = q * p - p * QtyTick
    BY <1>1
  <2>5. q * p >= Dust[a]
    <3>1. p * QtyTick \in Int /\ q * p \in Int
      BY <1>1
    <3> QED
      BY <2>1, <2>3, <2>4, <3>1
  <2> QED
    BY <1>2, <2>3, <2>5 DEF Worth
<1>3. CASE a # Quote
  <2>1. a \in Markets
    BY <1>3 DEF Assets
  <2>2. Dust[a] < QtyTick /\ Dust[a] \in Nat
    BY <1>1, <2>1 DEF AmountsAboveDust
  <2> QED
    BY <1>1, <1>3, <2>2 DEF Worth
<1> QED
  BY <1>2, <1>3

\* So is what the books keep locked for one account of one asset.
SoundBooks(b) ==
  \A m \in Markets, side \in Sides : \A i \in DOMAIN b[m][side] :
    b[m][side][i].price \in Prices /\ Remaining(b[m][side][i]) \in Whole /\ Remaining(b[m][side][i]) > 0

LEMMA LocksAboveDust ==
  ASSUME AmountsAboveDust, NEW b \in Books, SoundBooks(b), NEW v, NEW a \in Assets
  PROVE  Locks(b, v, a) \in Nat /\ (Locks(b, v, a) = 0 \/ Locks(b, v, a) >= Dust[a])
<1>1. Dust[a] \in Nat
  BY ConstantsAssumption
<1>2. ASSUME NEW m \in Markets, NEW side \in Sides
      PROVE  LET x == ListLocks(m, side, v, a, b[m][side])
             IN  x \in Nat /\ (x = 0 \/ x >= Dust[a])
  <2> DEFINE list == b[m][side]
             slots == Slots(m, side, v, a, list)
  <2>1. list \in Seq(OrderOf(Users))
    BY DEF Books
  <2>2. \A i \in DOMAIN list : list[i].price \in Prices /\ Remaining(list[i]) \in Whole
                               /\ Remaining(list[i]) > 0
    BY DEF SoundBooks
  <2> HIDE DEF list
  <2>3. /\ \A i \in 1..Len(list) : slots[i] = Slot(m, side, v, a, list[i])
        /\ ListLocks(m, side, v, a, list) = SumOver(1..Len(list), slots)
        /\ DOMAIN list = 1..Len(list) /\ IsFiniteSet(1..Len(list))
    BY <2>1, ListLocksSum
  <2>4. \A i \in 1..Len(list) : slots[i] \in Nat /\ (slots[i] = 0 \/ slots[i] >= Dust[a])
    <3> TAKE i \in 1..Len(list)
    <3>1. Worth(a, Remaining(list[i]), list[i].price) \in Nat
          /\ Worth(a, Remaining(list[i]), list[i].price) >= Dust[a]
      BY <2>2, <2>3, WorthAboveDust
    <3> QED
      BY <2>3, <3>1 DEF Slot
  <2> HIDE DEF slots
  <2> QED
    BY <1>1, <2>3, <2>4, SumOverLumps DEF list
<1> DEFINE each == MarketLocks(b, v, a)
<1>3. \A m \in Markets : each[m] \in Nat /\ (each[m] = 0 \/ each[m] >= Dust[a])
  <2> TAKE m \in Markets
  <2> DEFINE x == ListLocks(m, "buy", v, a, b[m]["buy"])
             y == ListLocks(m, "sell", v, a, b[m]["sell"])
  <2>1. each[m] = x + y
    BY DEF MarketLocks
  <2>2. /\ x \in Nat /\ (x = 0 \/ x >= Dust[a])
        /\ y \in Nat /\ (y = 0 \/ y >= Dust[a])
    BY <1>2 DEF Sides
  <2> HIDE DEF x, y, each
  <2> QED
    BY <1>1, <2>1, <2>2
<1> HIDE DEF each
<1>4. SumOver(Markets, each) \in Nat /\ (SumOver(Markets, each) = 0 \/ SumOver(Markets, each) >= Dust[a])
  BY <1>1, <1>3, ConstantsAssumption, SumOverLumps
<1> QED
  BY <1>4 DEF Locks, each

\* What is left of the makers keeps locked what they did, less the worth of
\* what they gave.
LEMMA FarLocks ==
  ASSUME NEW m, NEW s, NEW v, NEW a,
         NEW makers \in Seq(OrderOf(Users)), NEW qty \in [DOMAIN makers -> Int],
         NEW far \in Seq(OrderOf(Users)), NEW h, KeptAt(makers, qty, 0, far, h),
         \A i \in DOMAIN makers : /\ FormatNum(makers[i].price, PriceTick) = makers[i].price
                                  /\ qty[i] <= Remaining(makers[i])
  PROVE  ListLocks(m, s, v, a, far)
           = ListLocks(m, s, v, a, makers)
               - (IF Pays(m, s) = a THEN MakerPart(v, a, makers, qty) ELSE 0)
<1> DEFINE before == Slots(m, s, v, a, makers)
           after == Slots(m, s, v, a, far)
           left == [i \in DOMAIN makers |-> Slot(m, s, v, a, Filled(makers[i], qty[i]))]
           part == [i \in DOMAIN makers |-> IF makers[i].user = v THEN FillWorth(a, makers, qty)[i] ELSE 0]
           given == [i \in DOMAIN makers |-> IF Pays(m, s) = a THEN part[i] ELSE 0]
           I == 1..Len(makers)
           K == 1..Len(far)
<1>1. /\ \A i \in I : before[i] = Slot(m, s, v, a, makers[i]) /\ before[i] \in Int
      /\ ListLocks(m, s, v, a, makers) = SumOver(I, before)
      /\ DOMAIN makers = I /\ IsFiniteSet(I) /\ Len(makers) \in Nat
  BY ListLocksSum
<1>2. /\ \A k \in K : after[k] = Slot(m, s, v, a, far[k]) /\ after[k] \in Int
      /\ ListLocks(m, s, v, a, far) = SumOver(K, after)
      /\ IsFiniteSet(K)
  BY ListLocksSum
<1>3. \A i \in I : /\ makers[i] \in OrderOf(Users) /\ qty[i] \in Int /\ makers[i].price \in Int
                   /\ Remaining(makers[i]) \in Int
                   /\ Filled(makers[i], qty[i]) \in OrderOf(Users)
                   /\ Filled(makers[i], qty[i]).user = makers[i].user
                   /\ Filled(makers[i], qty[i]).price = makers[i].price
                   /\ Remaining(Filled(makers[i], qty[i])) = Remaining(makers[i]) - qty[i]
  <2> TAKE i \in I
  <2>1. makers[i] \in OrderOf(Users) /\ qty[i] \in Int
    BY <1>1
  <2>2. makers[i].price \in Int /\ Remaining(makers[i]) \in Int
    BY <2>1 DEF OrderOf, Remaining
  <2> QED
    BY <2>1, <2>2, FilledType
<1>4. \A i \in I : /\ left[i] \in Int /\ given[i] \in Int /\ part[i] \in Int
                   /\ before[i] = left[i] + given[i]
  <2> TAKE i \in I
  <2> DEFINE r == Remaining(makers[i])
             p == makers[i].price
             q == qty[i]
             after1 == Filled(makers[i], q)
  <2>1. r \in Int /\ p \in Int /\ q \in Int /\ r - q \in Int
    BY <1>3
  <2>2. FillWorth(a, makers, qty)[i] = Worth(a, q, p)
    BY <1>1 DEF FillWorth
  <2>3. Worth(a, r, p) - Worth(a, q, p) = Worth(a, r - q, p)
    BY <2>1, WorthSum
  <2>4. Worth(a, r, p) \in Int /\ Worth(a, q, p) \in Int /\ Worth(a, r - q, p) \in Int
    BY <2>1, WorthType
  <2>5. after1.user = makers[i].user /\ after1.price = p /\ Remaining(after1) = r - q
    BY <1>3
  <2>6. left[i] = Slot(m, s, v, a, after1)
    BY <1>1
  <2>7. /\ part[i] = (IF makers[i].user = v THEN FillWorth(a, makers, qty)[i] ELSE 0)
        /\ given[i] = IF Pays(m, s) = a THEN part[i] ELSE 0
    BY <1>1
  <2>8. before[i] = IF makers[i].user = v /\ Pays(m, s) = a THEN Worth(a, r, p) ELSE 0
    BY <1>1 DEF Slot
  <2>9. left[i] = IF makers[i].user = v /\ Pays(m, s) = a THEN Worth(a, r - q, p) ELSE 0
    BY <2>5, <2>6 DEF Slot
  <2> HIDE DEF r, p, q, after1, left, part, given, before
  <2> QED
    BY <2>2, <2>3, <2>4, <2>7, <2>8, <2>9
<1>5. SumOver(K, after) = SumOver(I, left)
  <2>1. \A b \in I : left[b] \in Int
    BY <1>4
  <2>2. \A k \in K : h[k] \in I /\ after[k] = left[h[k]]
    <3> TAKE k \in K
    <3>1. h[k] \in I /\ far[k] = Filled(makers[h[k]], qty[h[k]])
      BY DEF KeptAt
    <3>2. left[h[k]] = Slot(m, s, v, a, Filled(makers[h[k]], qty[h[k]]))
      BY <1>1, <3>1
    <3> HIDE DEF left, after
    <3> QED
      BY <1>2, <3>1, <3>2
  <2>3. \A k, l \in K : h[k] = h[l] => k = l
    <3> SUFFICES ASSUME NEW k \in K, NEW l \in K, h[k] = h[l] PROVE k = l
      OBVIOUS
    <3>1. /\ k < l => h[k] < h[l]
          /\ l < k => h[l] < h[k]
          /\ h[k] \in Int /\ h[l] \in Int
      BY DEF KeptAt
    <3> QED
      BY <3>1
  <2>4. \A b \in I : left[b] = 0 \/ \E k \in K : h[k] = b
    <3> TAKE b \in I
    <3>1. CASE Remaining(makers[b]) - qty[b] > 0
      BY <1>3, <3>1 DEF KeptAt
    <3>2. CASE Remaining(makers[b]) - qty[b] = 0
      <4>1. left[b] = Slot(m, s, v, a, Filled(makers[b], qty[b]))
        BY <1>1
      <4>2. Remaining(Filled(makers[b], qty[b])) = 0 /\ Filled(makers[b], qty[b]).price \in Int
        BY <1>3, <3>2
      <4>3. Worth(a, 0, Filled(makers[b], qty[b]).price) = 0
        BY <4>2, WorthSum
      <4> HIDE DEF left
      <4> QED
        BY <4>1, <4>2, <4>3 DEF Slot
    <3>3. Remaining(makers[b]) - qty[b] >= 0
      <4>1. qty[b] <= Remaining(makers[b])
        BY <1>1
      <4>2. qty[b] \in Int /\ Remaining(makers[b]) \in Int
        BY <1>3
      <4> QED
        BY <4>1, <4>2
    <3> QED
      BY <1>3, <3>1, <3>2, <3>3
  <2>5. IsFiniteSet(K) /\ IsFiniteSet(I)
    BY <1>1, <1>2
  <2> HIDE DEF left, after, I, K
  <2>6. Matches(h, K, after, I, left)
    BY <2>1, <2>2, <2>3, <2>4 DEF Matches
  <2> QED
    BY ONLY <2>5, <2>6, SumOverThrough
<1>6. SumOver(I, before) = SumOver(I, left) + SumOver(I, given)
  <2> HIDE DEF left, before, given, part, I
  <2> QED
    BY <1>1, <1>4, SumOverPlus
<1>7. SumOver(I, left) \in Int
  <2> HIDE DEF left, I
  <2> QED
    BY <1>1, <1>4, SumOverType
<1>8. SumOver(I, given) = IF Pays(m, s) = a THEN MakerPart(v, a, makers, qty) ELSE 0
  <2>1. CASE Pays(m, s) = a
    <3>1. given = part
      BY <2>1
    <3>2. part \in Seq(Int) /\ Len(part) = Len(makers)
      BY <1>1, <1>4
    <3>3. MakerPart(v, a, makers, qty) = Total(part)
      BY DEF MakerPart
    <3> HIDE DEF part, given
    <3>4. Total(part) = SumOver(I, part)
      BY <3>2, TotalIsSum
    <3> QED
      BY <2>1, <3>1, <3>3, <3>4
  <2>2. CASE Pays(m, s) # a
    <3>1. \A i \in I : given[i] = 0
      BY <1>1, <2>2
    <3> HIDE DEF given, I
    <3>2. SumOver(I, given) = 0
      BY <1>1, <3>1, SumOverZero
    <3> QED
      BY <2>2, <3>2
  <2> QED
    BY <2>1, <2>2
<1>9. MakerPart(v, a, makers, qty) \in Int
  BY PartsType
<1> HIDE DEF left, before, after, given, part
<1> QED
  BY <1>1, <1>2, <1>5, <1>6, <1>7, <1>8, <1>9

\* An order that rests adds what it keeps locked.
LEMMA NearLocks ==
  ASSUME NEW m, NEW s, NEW v, NEW a,
         NEW old \in Seq(OrderOf(Users)), NEW near \in Seq(OrderOf(Users)),
         NEW rest \in OrderOf(Users), NEW rests, NEW g, JoinedAt(old, rest, rests, near, g)
  PROVE  ListLocks(m, s, v, a, near)
           = ListLocks(m, s, v, a, old) + (IF rests THEN Slot(m, s, v, a, rest) ELSE 0)
<1> DEFINE before == Slots(m, s, v, a, old)
           after == Slots(m, s, v, a, near)
           I == 1..Len(old)
           K == 1..Len(near)
           added == IF rests THEN Slot(m, s, v, a, rest) ELSE 0
           all == [i \in I \cup {0} |-> IF i = 0 THEN added ELSE before[i]]
<1>1. /\ \A i \in I : before[i] = Slot(m, s, v, a, old[i]) /\ before[i] \in Int
      /\ ListLocks(m, s, v, a, old) = SumOver(I, before)
      /\ DOMAIN old = I /\ IsFiniteSet(I) /\ Len(old) \in Nat
  BY ListLocksSum
<1>2. /\ \A k \in K : after[k] = Slot(m, s, v, a, near[k]) /\ after[k] \in Int
      /\ ListLocks(m, s, v, a, near) = SumOver(K, after)
      /\ DOMAIN near = K /\ IsFiniteSet(K)
  BY ListLocksSum
<1>3. added \in Int
  BY SlotType
<1>4. IsFiniteSet(I \cup {0}) /\ 0 \notin I
  <2>1. IsFiniteSet({0})
    BY FS_Singleton
  <2>2. IsFiniteSet(I \cup {0})
    BY <1>1, <2>1, FS_Union
  <2> QED
    BY <1>1, <2>2
<1> HIDE DEF added, before, after
<1>5. (\A i \in I : all[i] = before[i]) /\ all[0] = added
  BY <1>4
<1>6. \A i \in I \cup {0} : all[i] \in Int
  BY <1>1, <1>3, <1>5
<1>7. \A k \in K : g[k] \in I \cup {0} /\ after[k] = all[g[k]]
  <2> TAKE k \in K
  <2>1. g[k] \in 0..Len(old) /\ (IF g[k] = 0 THEN near[k] = rest /\ rests ELSE near[k] = old[g[k]])
    BY <1>2 DEF JoinedAt
  <2>2. CASE g[k] = 0
    BY <1>2, <1>5, <2>1, <2>2 DEF added
  <2>3. CASE g[k] # 0
    <3>1. g[k] \in I
      BY <1>1, <2>1, <2>3
    <3> QED
      BY <1>1, <1>2, <1>5, <2>1, <2>3, <3>1
  <2> QED
    BY <2>2, <2>3
<1>8. \A k, l \in K : g[k] = g[l] => k = l
  BY <1>2 DEF JoinedAt
<1>9. \A i \in I \cup {0} : all[i] = 0 \/ \E k \in K : g[k] = i
  BY <1>1, <1>2, <1>5 DEF JoinedAt, added
<1> HIDE DEF all, I, K
<1>10. SumOver(K, after) = SumOver(I \cup {0}, all)
  <2> DEFINE B == I \cup {0}
  <2>1. \A b \in B : all[b] \in Int
    BY <1>6
  <2>2. \A k \in K : g[k] \in B /\ after[k] = all[g[k]]
    BY <1>7
  <2>3. \A b \in B : all[b] = 0 \/ \E k \in K : g[k] = b
    BY <1>9
  <2>4. IsFiniteSet(B) /\ IsFiniteSet(K)
    BY <1>2, <1>4
  <2> HIDE DEF B
  <2>5. Matches(g, K, after, B, all)
    BY <1>8, <2>1, <2>2, <2>3 DEF Matches
  <2>6. SumOver(K, after) = SumOver(B, all)
    BY ONLY <2>4, <2>5, SumOverThrough
  <2> QED
    BY <2>6 DEF B
<1>11. SumOver(I \cup {0}, all) = SumOver(I, all) + all[0]
  BY <1>1, <1>4, <1>6, SumOverAdd
<1>12. SumOver(I, all) = SumOver(I, before)
  <2>1. \A i \in I : all[i] \in Int /\ all[i] = before[i]
    BY <1>5, <1>6
  <2> QED
    BY <1>1, <2>1, SumOverSame
<1> QED
  BY <1>1, <1>2, <1>5, <1>10, <1>11, <1>12 DEF added

\* A cancelled order takes away what it kept locked.
LEMMA CancelLocks ==
  ASSUME NEW m, NEW s, NEW v, NEW a,
         NEW old \in Seq(OrderOf(Users)), NEW c \in DOMAIN old
  PROVE  ListLocks(m, s, v, a, RemoveAt(old, c))
           = ListLocks(m, s, v, a, old) - Slot(m, s, v, a, old[c])
<1> DEFINE new == RemoveAt(old, c)
           before == Slots(m, s, v, a, old)
           after == Slots(m, s, v, a, new)
           I == 1..Len(old)
           K == 1..Len(new)
           h == [k \in K |-> IF k < c THEN k ELSE k + 1]
<1>1. new \in Seq(OrderOf(Users))
  BY RemoveAtType
<1>2. /\ Len(new) = Len(old) - 1
      /\ \A k \in 1..(Len(old) - 1) : new[k] = IF k < c THEN old[k] ELSE old[k + 1]
  BY RemovedWhere
<1> HIDE DEF new
<1>3. /\ \A i \in I : before[i] = Slot(m, s, v, a, old[i]) /\ before[i] \in Int
      /\ ListLocks(m, s, v, a, old) = SumOver(I, before)
      /\ DOMAIN old = I /\ IsFiniteSet(I) /\ Len(old) \in Nat
  BY ListLocksSum
<1>4. /\ \A k \in K : after[k] = Slot(m, s, v, a, new[k]) /\ after[k] \in Int
      /\ ListLocks(m, s, v, a, new) = SumOver(K, after)
      /\ IsFiniteSet(K)
  BY <1>1, ListLocksSum
<1> HIDE DEF before, after
<1>5. c \in I
  BY <1>3
<1>6. \A k \in K : h[k] \in I \ {c} /\ after[k] = before[h[k]]
  <2> TAKE k \in K
  <2>1. k \in 1..(Len(old) - 1) /\ h[k] = IF k < c THEN k ELSE k + 1
    BY <1>2
  <2>2. h[k] \in I \ {c} /\ new[k] = old[h[k]]
    BY <1>2, <1>3, <1>5, <2>1
  <2> HIDE DEF h
  <2> QED
    BY <1>3, <1>4, <2>2
<1>7. \A k, l \in K : h[k] = h[l] => k = l
  BY <1>3, <1>5
<1>8. \A i \in I \ {c} : \E k \in K : h[k] = i
  <2> TAKE i \in I \ {c}
  <2>1. CASE i < c
    <3>1. i \in K /\ h[i] = i
      BY <1>2, <1>3, <1>5, <2>1
    <3> QED
      BY <3>1
  <2>2. CASE i > c
    <3>1. i - 1 \in K /\ h[i - 1] = i
      BY <1>2, <1>3, <1>5, <2>2
    <3> QED
      BY <3>1
  <2> QED
    BY <1>3, <1>5, <2>1, <2>2
<1> HIDE DEF h, I, K
<1>9. IsFiniteSet(I \ {c}) /\ \A i \in I \ {c} : before[i] \in Int
  BY <1>3, FS_Subset
<1>10. SumOver(K, after) = SumOver(I \ {c}, before)
  <2> DEFINE B == I \ {c}
  <2>1. PICK t : /\ \A k \in K : t[k] \in B /\ after[k] = before[t[k]]
                 /\ \A k, l \in K : t[k] = t[l] => k = l
                 /\ \A b \in B : before[b] = 0 \/ \E k \in K : t[k] = b
    BY <1>6, <1>7, <1>8
  <2>2. \A b \in B : before[b] \in Int
    BY <1>9
  <2>3. IsFiniteSet(B) /\ IsFiniteSet(K)
    BY <1>4, <1>9
  <2>4. Matches(t, K, after, B, before)
    BY <2>1, <2>2 DEF Matches
  <2> HIDE DEF B
  <2>5. SumOver(K, after) = SumOver(B, before)
    BY ONLY <2>3, <2>4, SumOverThrough
  <2> QED
    BY <2>5 DEF B
<1>11. SumOver(I, before) = before[c] + SumOver(I \ {c}, before)
  BY <1>3, <1>5, SumOverRemove
<1>12. SumOver(I \ {c}, before) \in Int
  BY <1>9, SumOverType
<1>13. before[c] = Slot(m, s, v, a, old[c]) /\ before[c] \in Int
  BY <1>3, <1>5
<1> QED
  BY <1>3, <1>4, <1>10, <1>11, <1>12, <1>13 DEF new

\* What books b and c that differ in market m alone keep locked.
DifferIn(m, b, c, v, a) ==
  /\ Locks(c, v, a) = Locks(b, v, a) - MarketLocks(b, v, a)[m] + MarketLocks(c, v, a)[m]
  /\ Locks(b, v, a) \in Int
  /\ MarketLocks(b, v, a)[m] = ListLocks(m, "buy", v, a, b[m]["buy"])
                                 + ListLocks(m, "sell", v, a, b[m]["sell"])
  /\ MarketLocks(c, v, a)[m] = ListLocks(m, "buy", v, a, c[m]["buy"])
                                 + ListLocks(m, "sell", v, a, c[m]["sell"])
  /\ \A s \in Sides : /\ ListLocks(m, s, v, a, b[m][s]) \in Int
                      /\ ListLocks(m, s, v, a, c[m][s]) \in Int

LEMMA LocksChange ==
  ASSUME NEW b \in Books, NEW c \in Books, NEW m \in Markets,
         \A n \in Markets, s \in Sides : n # m => c[n][s] = b[n][s], NEW v, NEW a
  PROVE  DifferIn(m, b, c, v, a)
<1> DEFINE old == MarketLocks(b, v, a)
           new == MarketLocks(c, v, a)
<1>1. \A n \in Markets, s \in Sides : /\ b[n][s] \in Seq(OrderOf(Users))
                                      /\ c[n][s] \in Seq(OrderOf(Users))
  BY DEF Books
<1>2. \A n \in Markets, s \in Sides : /\ ListLocks(n, s, v, a, b[n][s]) \in Int
                                      /\ ListLocks(n, s, v, a, c[n][s]) \in Int
  BY <1>1, ListLocksSum
<1>3. \A n \in Markets :
        /\ old[n] = ListLocks(n, "buy", v, a, b[n]["buy"]) + ListLocks(n, "sell", v, a, b[n]["sell"])
        /\ new[n] = ListLocks(n, "buy", v, a, c[n]["buy"]) + ListLocks(n, "sell", v, a, c[n]["sell"])
  BY DEF MarketLocks
<1> HIDE DEF old, new
<1>4. \A n \in Markets : old[n] \in Int /\ new[n] \in Int /\ (n # m => old[n] = new[n])
  BY <1>2, <1>3 DEF Sides
<1>5. SumOver(Markets, new) = SumOver(Markets, old) - old[m] + new[m]
  BY <1>4, ConstantsAssumption, SumOverSplit
<1>6. SumOver(Markets, old) \in Int
  BY <1>4, ConstantsAssumption, SumOverType
<1> QED
  BY <1>2, <1>3, <1>5, <1>6 DEF DifferIn, Locks, old, new

-----------------------------------------------------------------------------
(* What a trade does to the balances *)

\* With no dust to sweep, releaseFunds moves what it is asked to.
LEMMA ReleaseExact ==
  ASSUME NEW b \in Balance, NEW amount \in Nat, NEW dust \in Nat,
         b.locked - amount \in Nat, b.locked - amount = 0 \/ b.locked - amount >= dust
  PROVE  /\ Release(b, amount, dust).available = b.available + amount
         /\ Release(b, amount, dust).locked = b.locked - amount
<1> DEFINE moved == IF amount > 0 THEN Lock(b, -amount) ELSE b
<1>1. b.available \in Int /\ b.locked \in Int
  BY DEF Balance
<1>2. moved.available = b.available + amount /\ moved.locked = b.locked - amount
  BY <1>1 DEF Lock
<1>3. Release(b, amount, dust) =
        IF -dust < moved.locked /\ moved.locked < dust
        THEN [available |-> moved.available + moved.locked, locked |-> 0]
        ELSE moved
  BY DEF Release
<1> HIDE DEF moved
<1> QED
  BY <1>1, <1>2, <1>3

Need(m, side, price, quantity) == Worth(Pays(m, side), quantity, price)

Excess(m, side, u, type, price, quantity) ==
  OverLock(Pays(m, side), price, quantity, Total(Given(m, side, u, price, quantity)),
           TakerPart(Pays(m, side), Makers(m, side), Given(m, side, u, price, quantity)),
           type # "market")

LEMMA AcceptMoney ==
  ASSUME NEW m, NEW side, NEW u, NEW type, NEW price, NEW quantity,
         Accept(m, side, u, type, price, quantity)
  PROVE  bal' = After(m, side, u, Makers(m, side), Given(m, side, u, price, quantity),
                      Need(m, side, price, quantity), Excess(m, side, u, type, price, quantity))
BY DEF Accept, After, Settled, Makers, Given, Taker, Need, Excess

\* What the fills do to the two fields of a balance.
LEMMA SettledFields ==
  ASSUME TypeOK, NEW m \in Markets, NEW side \in Sides, NEW u \in Users,
         NEW makers \in Seq(OrderOf(Users)), NEW qty \in [DOMAIN makers -> Int],
         NEW need \in Int, NEW v \in Users, NEW a \in Assets
  PROVE  /\ Settled(m, side, u, makers, qty, need)[v][a] \in Balance
         /\ Settled(m, side, u, makers, qty, need)[v][a].available
              = bal[v][a].available - (IF v = u /\ a = Pays(m, side) THEN need ELSE 0)
                  + (IF a = Pays(m, side) THEN MakerPart(v, a, makers, qty) ELSE 0)
                  + (IF v = u /\ a = Gets(m, side) THEN TakerPart(a, makers, qty) ELSE 0)
         /\ Settled(m, side, u, makers, qty, need)[v][a].locked
              = bal[v][a].locked + (IF v = u /\ a = Pays(m, side) THEN need ELSE 0)
                  - (IF a = Gets(m, side) THEN MakerPart(v, a, makers, qty) ELSE 0)
                  - (IF v = u /\ a = Pays(m, side) THEN TakerPart(a, makers, qty) ELSE 0)
<1> DEFINE pays == Pays(m, side)
           gets == Gets(m, side)
           made == MakerPart(v, a, makers, qty)
           taken == TakerPart(a, makers, qty)
           locked == [bal EXCEPT ![u][pays] = Lock(@, need)]
           gain == (IF a = pays THEN made ELSE 0) + (IF v = u /\ a = gets THEN taken ELSE 0)
           spend == - (IF a = gets THEN made ELSE 0) - (IF v = u /\ a = pays THEN taken ELSE 0)
<1>1. made \in Int /\ taken \in Int
  BY PartsType
<1>2. pays \in Assets
  BY AssetFacts
<1>3. bal \in [Users -> [Assets -> Balance]]
  BY DEF TypeOK
<1>4. bal[v][a] \in Balance /\ bal[u][pays] \in Balance
  BY <1>2, <1>3
<1>5. locked[v][a] = IF v = u /\ a = pays THEN Lock(bal[u][pays], need) ELSE bal[v][a]
  BY <1>2, <1>3
<1>6. Settled(m, side, u, makers, qty, need)[v][a] = Adjust(locked[v][a], gain, spend)
  BY DEF Settled, UpdateBalance
<1> DEFINE b == locked[v][a]
           need1 == IF v = u /\ a = pays THEN need ELSE 0
<1>7. bal[v][a].available \in Int /\ bal[v][a].locked \in Int
  BY <1>4 DEF Balance
<1>8. b.available = bal[v][a].available - need1 /\ b.locked = bal[v][a].locked + need1
  BY <1>5, <1>7 DEF Lock
<1>9. Adjust(b, gain, spend) =
        [available |-> b.available + gain, locked |-> b.locked + spend]
  BY DEF Adjust
<1>10. gain \in Int /\ spend \in Int /\ need1 \in Int
  BY <1>1
<1>11. b.available \in Int /\ b.locked \in Int
  BY <1>7, <1>8, <1>10
<1> HIDE DEF b
<1>12. Adjust(b, gain, spend) \in Balance
  BY <1>9, <1>10, <1>11 DEF Balance
<1>13. /\ Adjust(b, gain, spend).available = b.available + gain
       /\ Adjust(b, gain, spend).locked = b.locked + spend
  BY <1>9
<1>14. Settled(m, side, u, makers, qty, need)[v][a] = Adjust(b, gain, spend)
  BY <1>6 DEF b
<1>15. /\ Settled(m, side, u, makers, qty, need)[v][a] \in Balance
       /\ Settled(m, side, u, makers, qty, need)[v][a].available = bal[v][a].available - need1 + gain
       /\ Settled(m, side, u, makers, qty, need)[v][a].locked = bal[v][a].locked + need1 + spend
  BY <1>8, <1>12, <1>13, <1>14
<1> HIDE DEF made, taken, pays, gets
<1> QED
  BY <1>1, <1>7, <1>10, <1>15, SMTT(30) DEF made, taken, pays, gets

LEMMA ProductLeq ==
  ASSUME NEW q \in Nat, NEW p \in Int, NEW r \in Int, p <= r
  PROVE  q * p <= q * r
<1>1. r - p \in Nat
  OBVIOUS
<1>2. q * (r - p) \in Nat
  BY <1>1, ProductNat
<1>3. q * (r - p) = q * r - q * p
  OBVIOUS
<1>4. q * r \in Int /\ q * p \in Int
  OBVIOUS
<1> QED
  BY <1>2, <1>3, <1>4

\* A limit order is filled at its price or better: the fills are worth no more
\* than what was locked for the quantity filled.
LEMMA TradeParts ==
  ASSUME AmountsAboveDust, TypeOK, OrdersSound, NEW m \in Markets, NEW side \in Sides,
         NEW u \in Users, NEW price \in Nat, NEW quantity \in Quantities,
         NEW v, NEW a
  PROVE  /\ MakerPart(v, a, Makers(m, side), Given(m, side, u, price, quantity)) \in Nat
         /\ TakerPart(a, Makers(m, side), Given(m, side, u, price, quantity)) \in Nat
         /\ TakerPart(Pays(m, side), Makers(m, side), Given(m, side, u, price, quantity))
              <= Worth(Pays(m, side), Total(Given(m, side, u, price, quantity)), price)
<1> DEFINE makers == Makers(m, side)
           qty == Given(m, side, u, price, quantity)
           taker == Taker(side, u, price, quantity)
           pays == Pays(m, side)
           I == 1..Len(makers)
<1>1. price \in Int /\ quantity \in Nat
  BY ConstantsAssumption
<1>2. /\ makers \in Seq(OrderOf(Users)) /\ qty \in Seq(Int) /\ qty \in [DOMAIN makers -> Int]
      /\ DOMAIN makers = I /\ Len(makers) \in Nat /\ Len(qty) = Len(makers)
  BY <1>1, TradeTypes
<1>3. \A i \in I : /\ qty[i] \in Nat /\ makers[i].price \in Nat
                   /\ FormatNum(makers[i].price, PriceTick) = makers[i].price
  <2> TAKE i \in I
  <2>1. makers[i].price \in Prices /\ qty[i] \in Int /\ 0 <= qty[i]
    BY <1>1, <1>2, TradeSound
  <2>2. makers[i].price \in Nat
    BY <2>1, ConstantsAssumption
  <2>3. FormatNum(makers[i].price, PriceTick) = makers[i].price
    BY <2>1 DEF AmountsAboveDust
  <2> HIDE DEF makers, qty
  <2> QED
    BY <2>1, <2>2, <2>3
<1>4. ASSUME NEW c
      PROVE  /\ \A i \in I : /\ FillWorth(c, makers, qty)[i] = Worth(c, qty[i], makers[i].price)
                             /\ FillWorth(c, makers, qty)[i] \in Nat
             /\ FillWorth(c, makers, qty) \in Seq(Int)
             /\ Len(FillWorth(c, makers, qty)) = Len(makers)
  <2>1. FillWorth(c, makers, qty) = [i \in I |-> Worth(c, qty[i], FormatNum(makers[i].price, PriceTick))]
    BY <1>2 DEF FillWorth
  <2>2. \A i \in I : FillWorth(c, makers, qty)[i] = Worth(c, qty[i], makers[i].price)
    BY <1>3, <2>1
  <2>3. \A i \in I : Worth(c, qty[i], makers[i].price) \in Nat
    BY <1>3, WorthNat
  <2> HIDE DEF makers, qty
  <2>4. \A i \in I : FillWorth(c, makers, qty)[i] \in Nat
    BY <2>2, <2>3
  <2>5. FillWorth(c, makers, qty) \in [I -> Nat] /\ I = 1..Len(makers) /\ Len(makers) \in Nat
    BY <1>2, <2>1, <2>4
  <2>6. FillWorth(c, makers, qty) \in Seq(Int) /\ Len(FillWorth(c, makers, qty)) = Len(makers)
    BY <2>5
  <2> QED
    BY <2>2, <2>4, <2>6
<1>5. Nat \in SUBSET Int /\ 0 \in Nat /\ \A c, d \in Nat : c + d \in Nat
  OBVIOUS
<1>6. ASSUME NEW w \in Seq(Int), \A i \in 1..Len(w) : w[i] \in Nat
      PROVE  Total(w) \in Nat
  BY <1>5, <1>6, TotalWithin
<1>7. TakerPart(a, makers, qty) \in Nat
  <2>1. TakerPart(a, makers, qty) = Total(FillWorth(a, makers, qty))
    BY DEF TakerPart
  <2> QED
    BY <1>4, <1>6, <2>1
<1>8. MakerPart(v, a, makers, qty) \in Nat
  <2> DEFINE mine == [i \in DOMAIN makers |->
                        IF makers[i].user = v THEN FillWorth(a, makers, qty)[i] ELSE 0]
  <2>1. MakerPart(v, a, makers, qty) = Total(mine)
    BY DEF MakerPart
  <2>2. mine \in Seq(Int) /\ Len(mine) = Len(makers) /\ \A i \in I : mine[i] \in Nat
    BY <1>2, <1>4
  <2> HIDE DEF mine
  <2> QED
    BY <1>6, <2>1, <2>2
<1> DEFINE worth == FillWorth(pays, makers, qty)
           asked == [i \in I |-> Worth(pays, qty[i], price)]
<1>9. \A i \in I : /\ worth[i] = Worth(pays, qty[i], makers[i].price) /\ worth[i] \in Nat
                   /\ asked[i] = Worth(pays, qty[i], price) /\ asked[i] \in Nat
  <2>1. \A i \in I : Worth(pays, qty[i], price) \in Nat
    BY <1>3, WorthNat
  <2> QED
    BY <1>4, <2>1
<1> HIDE DEF worth, asked
<1>10. \A i \in I : worth[i] <= asked[i]
  <2> TAKE i \in I
  <2>1. CASE pays # Quote
    BY <1>3, <1>9, <2>1 DEF Worth
  <2>2. CASE pays = Quote /\ qty[i] = 0
    <3>1. 0 * makers[i].price = 0 /\ 0 * price = 0
      BY <1>3
    <3> QED
      BY <1>9, <2>2, <3>1 DEF Worth
  <2>3. CASE pays = Quote /\ qty[i] > 0
    <3>1. side = "buy"
      BY <2>3, ConstantsAssumption DEF Pays, Sides
    <3>2. makers[i] \in OrderOf(Users) /\ taker \in OrderOf(Users) /\ qty[i] \in Int
      BY <1>1, <1>2, TradeTypes
    <3>3. 0 < qty[i] /\ qty[i] <= Offer(taker, makers[i])
      BY <1>1, <1>2, <1>3, <2>3, GivenInOrder
    <3>4. Crosses(taker, makers[i])
      BY <3>2, <3>3, GivingAllLeavesNothing
    <3>5. taker.side = "buy" /\ taker.price = price
      BY <3>1 DEF Taker
    <3>6. makers[i].price <= price
      BY <1>3, <3>4, <3>5 DEF Crosses, Better
    <3>7. qty[i] * makers[i].price <= qty[i] * price
      BY <1>3, <3>6, ProductLeq
    <3> QED
      BY <1>9, <2>3, <3>7 DEF Worth
  <2> QED
    BY <1>3, <2>1, <2>2, <2>3
<1>11. IsFiniteSet(I)
  BY <1>2, FS_Interval
<1>12. SumOver(I, worth) <= SumOver(I, asked)
  <2>1. \A i \in I : worth[i] \in Int /\ asked[i] \in Int /\ worth[i] <= asked[i]
    BY <1>9, <1>10
  <2> HIDE DEF I
  <2> QED
    BY <1>11, <2>1, SumOverLeq
<1>13. TakerPart(pays, makers, qty) = SumOver(I, worth)
  <2>1. worth \in Seq(Int) /\ Len(worth) = Len(makers)
    BY <1>4 DEF worth
  <2>2. Total(worth) = SumOver(1..Len(worth), worth)
    BY <2>1, TotalIsSum
  <2>3. TakerPart(pays, makers, qty) = Total(worth)
    BY DEF TakerPart, worth
  <2> QED
    BY <2>1, <2>2, <2>3
<1>14. Total(qty) = SumOver(I, qty)
  BY <1>2, TotalIsSum
<1>15. SumOver(I, asked) = Worth(pays, Total(qty), price)
  <2>1. CASE pays = Quote
    <3>1. \A i \in I : qty[i] \in Int /\ asked[i] = qty[i] * price
      BY <1>3, <1>9, <2>1 DEF Worth
    <3> HIDE DEF qty, I
    <3>2. SumOver(I, asked) = SumOver(I, qty) * price
      BY <1>1, <1>11, <3>1, SumOverScale
    <3> QED
      BY <1>14, <2>1, <3>2 DEF Worth
  <2>2. CASE pays # Quote
    <3>1. \A i \in I : asked[i] \in Int /\ asked[i] = qty[i]
      BY <1>3, <1>9, <2>2 DEF Worth
    <3> HIDE DEF qty, I
    <3>2. SumOver(I, asked) = SumOver(I, qty)
      BY <1>11, <3>1, SumOverSame
    <3> QED
      BY <1>14, <2>2, <3>2 DEF Worth
  <2> QED
    BY <2>1, <2>2
<1> QED
  BY <1>7, <1>8, <1>12, <1>13, <1>15

AvailableOK == \A v \in Users, a \in Assets : bal[v][a].available >= 0

\* What the books keep locked after a trade: what they did, less what the
\* makers gave, and what rests of the taker's order.
LEMMA TradedLocks ==
  ASSUME AmountsAboveDust, TypeOK, TypeOK', OrdersSound,
         NEW m \in Markets, NEW side \in Sides, NEW u \in Users, NEW type,
         NEW price \in Int, NEW quantity \in Quantities,
         Accept(m, side, u, type, price, quantity), NEW v, NEW a
  PROVE  Locks(book', v, a)
           = Locks(book, v, a)
               - (IF a = Gets(m, side)
                  THEN MakerPart(v, a, Makers(m, side), Given(m, side, u, price, quantity)) ELSE 0)
               + (IF type # "market" /\ v = u /\ a = Pays(m, side)
                  THEN Worth(a, quantity - Total(Given(m, side, u, price, quantity)), price) ELSE 0)
<1> DEFINE makers == Makers(m, side)
           qty == Given(m, side, u, price, quantity)
           other == Opposite(side)
           far == Far(m, side, u, price, quantity)
           near == Near(m, side, u, type, price, quantity)
           rest == Rest(m, side, u, price, quantity)
           rests == Rests(m, side, u, type, price, quantity)
           made == MakerPart(v, a, makers, qty)
           new == book'
<1>1. quantity \in Int
  BY ConstantsAssumption
<1>2. /\ other \in Sides /\ other # side /\ makers = book[m][other]
      /\ book[m][side] \in Seq(OrderOf(Users)) /\ makers \in Seq(OrderOf(Users))
      /\ qty \in [DOMAIN makers -> Int] /\ rest \in OrderOf(Users) /\ Total(qty) \in Int
  BY <1>1, TradeTypes DEF Makers
<1>3. \A n \in Markets, s \in Sides :
        new[n][s] = IF n # m THEN book[n][s] ELSE IF s = side THEN near ELSE far
  BY <1>1, AcceptLists
<1>4. book \in Books /\ new \in Books
  BY DEF TypeOK, Books
<1>5. far \in Seq(OrderOf(Users)) /\ near \in Seq(OrderOf(Users))
  BY <1>1, FarSide, NearSide
<1>6. PICK h : KeptAt(makers, qty, 0, far, h)
  BY FarSound
<1>7. PICK g : JoinedAt(book[m][side], rest, rests, near, g)
  BY <1>1, NearSide
<1>8. \A i \in DOMAIN makers : /\ FormatNum(makers[i].price, PriceTick) = makers[i].price
                               /\ qty[i] <= Remaining(makers[i])
  <2> TAKE i \in DOMAIN makers
  <2>1. makers[i].price \in Prices /\ qty[i] <= Remaining(makers[i])
    BY TradeSound
  <2> QED
    BY <2>1 DEF AmountsAboveDust
<1>9. Pays(m, other) = Gets(m, side)
  BY DEF Pays, Gets, Opposite, Sides
<1>10. rest.user = u /\ rest.price = price /\ Remaining(rest) = quantity - Total(qty)
  BY <1>1, <1>2 DEF Rest, Taker, Remaining
<1>11. rests <=> type # "market" /\ Total(qty) < quantity
  BY DEF Rests
<1>12. Total(qty) <= quantity
  BY TradeSound
<1>13. made \in Int
  BY <1>2, PartsType
<1> DEFINE lists(b, s) == ListLocks(m, s, v, a, b[m][s])
<1>14. lists(new, other) = lists(book, other) - (IF a = Gets(m, side) THEN made ELSE 0)
  <2>1. ListLocks(m, other, v, a, far)
           = ListLocks(m, other, v, a, makers) - (IF Pays(m, other) = a THEN made ELSE 0)
    <3>1. makers \in Seq(OrderOf(Users)) /\ qty \in [DOMAIN makers -> Int] /\ far \in Seq(OrderOf(Users))
      BY <1>2, <1>5
    <3> HIDE DEF makers, qty, far, other
    <3> QED
      BY ONLY <1>6, <1>8, <3>1, FarLocks
  <2>2. new[m][other] = far
    BY <1>2, <1>3
  <2> HIDE DEF far, other, made, new, makers
  <2> QED
    BY <1>2, <1>9, <2>1, <2>2
<1> DEFINE added == IF type # "market" /\ v = u /\ a = Pays(m, side)
                    THEN Worth(a, quantity - Total(qty), price) ELSE 0
<1>15. lists(new, side) = lists(book, side) + added
  <2>1. ListLocks(m, side, v, a, near)
           = ListLocks(m, side, v, a, book[m][side]) + (IF rests THEN Slot(m, side, v, a, rest) ELSE 0)
    <3> HIDE DEF near, rest, rests
    <3> QED
      BY <1>2, <1>5, <1>7, NearLocks
  <2>2. Slot(m, side, v, a, rest)
          = IF u = v /\ Pays(m, side) = a THEN Worth(a, quantity - Total(qty), price) ELSE 0
    BY <1>10 DEF Slot
  <2>3. new[m][side] = near
    BY <1>3
  <2>4. Worth(a, 0, price) = 0
    BY WorthSum
  <2>5. (IF rests THEN Slot(m, side, v, a, rest) ELSE 0) = added
    <3>1. CASE Total(qty) < quantity
      <4> HIDE DEF rest, qty, rests
      <4> QED
        BY <1>11, <2>2, <3>1
    <3>2. CASE Total(qty) = quantity
      <4>1. quantity - Total(qty) = 0 /\ ~rests
        BY <1>1, <1>11, <3>2
      <4> HIDE DEF rest, qty, rests
      <4> QED
        BY <2>4, <4>1
    <3> QED
      BY <1>1, <1>2, <1>12, <3>1, <3>2
  <2> HIDE DEF near, rests, rest, added, new
  <2> QED
    BY <2>1, <2>3, <2>5
<1>16. added \in Int
  BY <1>1, <1>2, WorthType
<1>17. \A n \in Markets, s \in Sides : n # m => new[n][s] = book[n][s]
  BY <1>3
<1> HIDE DEF new
<1>18. /\ Locks(new, v, a) = Locks(book, v, a) - MarketLocks(book, v, a)[m] + MarketLocks(new, v, a)[m]
       /\ Locks(book, v, a) \in Int
       /\ MarketLocks(book, v, a)[m] = lists(book, "buy") + lists(book, "sell")
       /\ MarketLocks(new, v, a)[m] = lists(new, "buy") + lists(new, "sell")
       /\ \A s \in Sides : lists(book, s) \in Int /\ lists(new, s) \in Int
  <2> DEFINE old == book
  <2>1. old \in Books /\ new \in Books /\ \A n \in Markets, s \in Sides : n # m => new[n][s] = old[n][s]
    BY <1>4, <1>17
  <2> HIDE DEF old
  <2>2. DifferIn(m, old, new, v, a)
    BY ONLY <2>1, m \in Markets, LocksChange
  <2> QED
    BY <2>2 DEF DifferIn, old
<1> HIDE DEF lists, added, made
<1>19. /\ MarketLocks(book, v, a)[m] = lists(book, side) + lists(book, other)
       /\ MarketLocks(new, v, a)[m] = lists(new, side) + lists(new, other)
  BY <1>2, <1>18 DEF Sides
<1>20. Locks(new, v, a) = Locks(book, v, a) - (IF a = Gets(m, side) THEN made ELSE 0) + added
  <2>1. lists(book, side) \in Int /\ lists(book, other) \in Int
    BY <1>2, <1>18
  <2> HIDE DEF other
  <2> QED
    BY <1>13, <1>14, <1>15, <1>16, <1>18, <1>19, <2>1
<1> QED
  BY <1>20 DEF new, made, added

LEMMA SoundBooksKept == OrdersSound => SoundBooks(book)
BY DEF OrdersSound, SoundBooks

\* A trade keeps every lock covered and nobody pays with what they do not have.
LEMMA TradedMoney ==
  ASSUME AmountsAboveDust, TypeOK, TypeOK', OrdersSound, OrdersSound', LocksCoverBook, AvailableOK,
         NEW m \in Markets, NEW side \in Sides, NEW u \in Users, NEW type,
         NEW price \in Int, NEW quantity \in Int,
         Places(m, side, u, type, price, quantity), NEW v \in Users, NEW a \in Assets
  PROVE  bal'[v][a].locked = Locks(book', v, a) /\ bal'[v][a].available >= 0
<1> DEFINE makers == Makers(m, side)
           qty == Given(m, side, u, price, quantity)
           executed == Total(qty)
           pays == Pays(m, side)
           gets == Gets(m, side)
           need == Need(m, side, price, quantity)
           excess == Excess(m, side, u, type, price, quantity)
           settled == Settled(m, side, u, makers, qty, need)
           made == MakerPart(v, a, makers, qty)
           taken == TakerPart(a, makers, qty)
           spent == TakerPart(pays, makers, qty)
           all == Worth(pays, quantity, price)
           done == Worth(pays, executed, price)
           left == Worth(pays, quantity - executed, price)
           resting == IF type # "market" THEN left ELSE 0
           old == Locks(book, v, a)
           new == Locks(book', v, a)
<1>1. /\ quantity \in Quantities /\ Accept(m, side, u, type, price, quantity)
      /\ price \in Nat /\ quantity \in Nat /\ CanPay(u, pays, all)
  BY DEF Places
<1>2. /\ makers \in Seq(OrderOf(Users)) /\ qty \in [DOMAIN makers -> Int]
      /\ executed \in Int /\ 0 <= executed /\ executed <= quantity
  BY <1>1, TradeTypes, TradeSound
<1>3. executed \in Nat /\ quantity - executed \in Nat
  BY <1>1, <1>2
<1>4. pays \in Assets /\ gets \in Assets /\ pays # gets /\ Dust[pays] \in Nat
  BY AssetFacts, ConstantsAssumption
<1>5. all \in Nat /\ done \in Nat /\ left \in Nat /\ all - done = left
  <2> HIDE DEF executed, pays
  <2>1. all \in Nat /\ done \in Nat /\ left \in Nat
    BY <1>1, <1>3, WorthNat
  <2>2. all - done = left
    BY <1>1, <1>3, WorthSum
  <2> QED
    BY <2>1, <2>2
<1>6. made \in Nat /\ taken \in Nat /\ spent \in Nat /\ spent <= done
  BY <1>1, TradeParts
<1>7. need = all /\ excess = done - spent + (IF type # "market" THEN 0 ELSE left)
  BY DEF Need, Excess, OverLock
<1>8. need - spent - excess = resting /\ excess \in Nat /\ resting \in Nat
  <2> HIDE DEF need, spent, excess, done, all, left
  <2> QED
    BY <1>5, <1>6, <1>7
<1>9. bal' = [settled EXCEPT ![u][pays] = Release(@, excess, Dust[pays])]
  BY <1>1, AcceptMoney DEF After
<1>10. settled \in [Users -> [Assets -> Balance]]
  <2>1. [bal EXCEPT ![u][pays] = Lock(@, need)] \in [Users -> [Assets -> Balance]]
    <3>1. bal \in [Users -> [Assets -> Balance]]
      BY DEF TypeOK
    <3>2. Lock(bal[u][pays], need) \in Balance
      <4>1. bal[u][pays] \in Balance
        BY <1>4, <3>1
      <4>2. need \in Int
        BY <1>5, <1>7
      <4> HIDE DEF need
      <4> QED
        BY <4>1, <4>2, LockKeepsTotal
    <3> QED
      BY <1>4, <3>1, <3>2
  <2> QED
    BY <1>2, <2>1, UpdateBalanceFollowsLedger DEF Settled
<1>11. /\ settled[v][a] \in Balance
       /\ settled[v][a].available
              = bal[v][a].available - (IF v = u /\ a = pays THEN need ELSE 0)
                  + (IF a = pays THEN made ELSE 0)
                  + (IF v = u /\ a = gets THEN taken ELSE 0)
       /\ settled[v][a].locked
              = bal[v][a].locked + (IF v = u /\ a = pays THEN need ELSE 0)
                  - (IF a = gets THEN made ELSE 0)
                  - (IF v = u /\ a = pays THEN taken ELSE 0)
  <2>1. need \in Int
    BY <1>5, <1>7
  <2> HIDE DEF need
  <2> QED
    BY <1>2, <2>1, SettledFields
<1>12. bal[v][a].available \in Int /\ bal[v][a].available >= 0 /\ bal[v][a].locked = old
  BY CoveredByLocks DEF TypeOK, Balance, AvailableOK
<1>13. old \in Int
  <2>1. bal[v][a] \in Balance
    BY DEF TypeOK
  <2> QED
    BY <1>12, <2>1 DEF Balance
<1>14. new = old - (IF a = gets THEN made ELSE 0)
                 + (IF type # "market" /\ v = u /\ a = pays
                    THEN Worth(a, quantity - executed, price) ELSE 0)
  BY <1>1, TradedLocks
<1>15. new \in Nat /\ (new = 0 \/ new >= Dust[a])
  <2>1. book' \in Books /\ SoundBooks(book')
    BY DEF TypeOK, Books, OrdersSound, SoundBooks
  <2> QED
    BY <2>1, LocksAboveDust
<1> HIDE DEF settled, made, taken, need, excess, new, old, spent
<1>16. CASE v = u /\ a = pays
  <2>1. new = old + resting /\ taken = spent /\ a # gets
    BY <1>4, <1>13, <1>14, <1>16 DEF taken, spent
  <2>2. settled[v][a].locked = old + need - spent
    <3> HIDE DEF pays, gets
    <3> QED
      BY <1>5, <1>6, <1>7, <1>11, <1>12, <1>13, <1>16, <2>1
  <2>3. settled[v][a].locked - excess = new
    <3> HIDE DEF resting
    <3> QED
      BY <1>6, <1>8, <1>7, <1>5, <1>13, <2>1, <2>2
  <2>4. bal'[v][a] = Release(settled[v][a], excess, Dust[a])
    BY <1>9, <1>10, <1>4, <1>16
  <2>5. /\ Release(settled[v][a], excess, Dust[a]).available = settled[v][a].available + excess
        /\ Release(settled[v][a], excess, Dust[a]).locked = settled[v][a].locked - excess
    BY <1>4, <1>8, <1>11, <1>15, <1>16, <2>3, ReleaseExact
  <2>6. bal[v][a].available >= need
    BY <1>1, <1>7, <1>16 DEF CanPay
  <2>7. settled[v][a].available = bal[v][a].available - need + made
    <3> HIDE DEF pays, gets
    <3> QED
      BY <1>4, <1>5, <1>6, <1>7, <1>11, <1>12, <1>16, <2>1
  <2>8. settled[v][a].available >= 0 /\ settled[v][a].available \in Int
    BY <1>5, <1>6, <1>7, <1>12, <2>6, <2>7
  <2> QED
    BY <1>8, <2>3, <2>4, <2>5, <2>8 DEF new
<1>17. CASE ~(v = u /\ a = pays)
  <2>1. bal'[v][a] = settled[v][a]
    BY <1>9, <1>10, <1>4, <1>17
  <2>2. new = old - (IF a = gets THEN made ELSE 0)
    BY <1>6, <1>13, <1>14, <1>17
  <2>3. settled[v][a].locked = old - (IF a = gets THEN made ELSE 0)
    <3> HIDE DEF pays, gets
    <3> QED
      BY <1>6, <1>11, <1>12, <1>13, <1>17
  <2>4. settled[v][a].available >= 0
    <3> HIDE DEF pays, gets
    <3> QED
      BY <1>6, <1>11, <1>12, <1>17
  <2> QED
    BY <2>1, <2>2, <2>3, <2>4 DEF new
<1> QED
  BY <1>16, <1>17

\* A cancel gives back exactly what the order kept locked, in an account that
\* has an entry for it.
LEMMA CancelledBalance ==
  ASSUME AmountsAboveDust, TypeOK, TypeOK', Filed, OrdersSound, OrdersSound', LocksCoverBook,
         NEW m \in Markets, NEW side \in Sides, NEW c \in DOMAIN book[m][side],
         Cancels(m, side, c), NEW v \in Users, NEW a \in Assets
  PROVE  LET o == book[m][side][c]
             worth == Slot(m, side, v, a, o)
         IN  /\ worth \in Nat
             /\ bal'[v][a] = Lock(bal[v][a], -worth)
             /\ Locks(book', v, a) = Locks(book, v, a) - worth
<1> DEFINE o == book[m][side][c]
           pays == Pays(m, side)
           worth == Slot(m, side, v, a, o)
           old == book
           new == book'
<1>1. old[m][side] \in Seq(OrderOf(Users)) /\ o \in OrderOf(Users)
  <2>1. book[m][side] \in Seq(OrderOf(Users))
    BY DEF TypeOK
  <2> QED
    BY <2>1
<1>2. /\ o.side = side /\ o.price \in Prices /\ Remaining(o) \in Whole /\ Remaining(o) > 0
      /\ pays \in held[o.user] /\ o.user \in Users
  BY <1>1 DEF Filed, OrdersSound, OrderOf
<1>3. o.price \in Nat /\ Remaining(o) \in Nat
  <2> HIDE DEF o
  <2>1. o.price \in Nat
    BY <1>2, ConstantsAssumption
  <2>2. Remaining(o) \in Int
    BY <1>2, WholeAmounts
  <2> QED
    BY <1>2, <2>1, <2>2
<1>4. pays \in Assets /\ Dust[pays] \in Nat
  BY AssetFacts, ConstantsAssumption
<1> DEFINE given == Worth(pays, Remaining(o), o.price)
<1>5. given \in Nat
  BY <1>3, WorthNat
<1>6. worth = IF o.user = v /\ pays = a THEN given ELSE 0
  BY DEF Slot
<1>7. worth \in Nat
  BY <1>5, <1>6
<1>8. bal' = [bal EXCEPT ![o.user][pays] = Release(@, given, Dust[pays])]
  BY <1>2 DEF Cancels
<1> HIDE DEF given
<1>9. bal \in [Users -> [Assets -> Balance]]
  BY DEF TypeOK
<1>10. bal'[v][a] = IF v = o.user /\ a = pays THEN Release(bal[v][a], given, Dust[a]) ELSE bal[v][a]
  BY <1>2, <1>4, <1>8, <1>9
<1>11. /\ old \in Books /\ new \in Books
       /\ \A n \in Markets, s \in Sides :
            new[n][s] = IF n = m /\ s = side THEN RemoveAt(old[m][side], c) ELSE old[n][s]
  <2>1. old \in Books /\ new \in Books
    BY DEF TypeOK, Books
  <2>2. \A n \in Markets, s \in Sides :
          book'[n][s] = IF n = m /\ s = side THEN RemoveAt(book[m][side], c) ELSE book[n][s]
    BY CancelLists
  <2> QED
    BY <2>1, <2>2
<1>12. c \in DOMAIN old[m][side] /\ worth = Slot(m, side, v, a, old[m][side][c])
  OBVIOUS
<1>13. SoundBooks(new)
  BY DEF OrdersSound, SoundBooks
<1> HIDE DEF new, old, worth, o, pays
<1>14. DifferIn(m, old, new, v, a)
  <2>1. \A n \in Markets, s \in Sides : n # m => new[n][s] = old[n][s]
    BY <1>11
  <2>2. m \in Markets /\ old \in Books /\ new \in Books
    BY <1>11
  <2> QED
    BY ONLY <2>1, <2>2, LocksChange
<1> DEFINE lists(b, s) == ListLocks(m, s, v, a, b[m][s])
<1>15. lists(new, side) = lists(old, side) - worth
  <2>1. ListLocks(m, side, v, a, RemoveAt(old[m][side], c))
          = ListLocks(m, side, v, a, old[m][side]) - Slot(m, side, v, a, old[m][side][c])
    BY <1>1, <1>12, CancelLocks
  <2> QED
    BY <1>11, <1>12, <2>1
<1>16. \A s \in Sides : s # side => lists(new, s) = lists(old, s)
  BY <1>11
<1>17. Locks(new, v, a) = Locks(old, v, a) - worth
  <2>1. /\ Locks(new, v, a) = Locks(old, v, a) - MarketLocks(old, v, a)[m] + MarketLocks(new, v, a)[m]
        /\ Locks(old, v, a) \in Int
        /\ MarketLocks(old, v, a)[m] = lists(old, "buy") + lists(old, "sell")
        /\ MarketLocks(new, v, a)[m] = lists(new, "buy") + lists(new, "sell")
        /\ \A s \in Sides : lists(old, s) \in Int /\ lists(new, s) \in Int
    BY <1>14 DEF DifferIn
  <2> HIDE DEF lists
  <2>2. CASE side = "buy"
    BY <1>7, <1>15, <1>16, <2>1, <2>2 DEF Sides
  <2>3. CASE side = "sell"
    BY <1>7, <1>15, <1>16, <2>1, <2>3 DEF Sides
  <2> QED
    BY <2>2, <2>3 DEF Sides
<1>18. Locks(new, v, a) \in Nat /\ (Locks(new, v, a) = 0 \/ Locks(new, v, a) >= Dust[a])
  BY <1>11, <1>13, LocksAboveDust
<1>19. bal[v][a].locked = Locks(old, v, a) /\ bal[v][a] \in Balance
  BY <1>9, CoveredByLocks DEF old
<1>20. bal[v][a].available \in Int /\ bal[v][a].locked \in Int
  BY <1>19 DEF Balance
<1>21. bal'[v][a] = Lock(bal[v][a], -worth)
  <2>1. Lock(bal[v][a], -worth) =
          [available |-> bal[v][a].available + worth, locked |-> bal[v][a].locked - worth]
    BY <1>7, <1>20 DEF Lock
  <2>2. CASE v = o.user /\ a = pays
    <3>1. worth = given /\ given \in Nat /\ Dust[a] \in Nat
      BY <1>4, <1>5, <1>6, <2>2
    <3>2. bal[v][a].locked - given \in Nat /\ (bal[v][a].locked - given = 0 \/ bal[v][a].locked - given >= Dust[a])
      BY <1>17, <1>18, <1>19, <3>1
    <3>3. /\ Release(bal[v][a], given, Dust[a]).available = bal[v][a].available + given
          /\ Release(bal[v][a], given, Dust[a]).locked = bal[v][a].locked - given
      BY <1>19, <3>1, <3>2, ReleaseExact
    <3>4. Release(bal[v][a], given, Dust[a]) \in Balance
      BY <1>19, <3>1, ReleaseKeepsTotal
    <3>5. \A b \in Balance : b = [available |-> b.available, locked |-> b.locked]
      BY DEF Balance
    <3>6. Release(bal[v][a], given, Dust[a])
            = [available |-> bal[v][a].available + given, locked |-> bal[v][a].locked - given]
      BY <3>3, <3>4, <3>5
    <3> QED
      BY <1>10, <2>1, <2>2, <3>1, <3>6
  <2>3. CASE ~(v = o.user /\ a = pays)
    <3>1. worth = 0
      BY <1>6, <2>3
    <3>2. \A b \in Balance : b = [available |-> b.available, locked |-> b.locked]
      BY DEF Balance
    <3>3. bal[v][a] = [available |-> bal[v][a].available, locked |-> bal[v][a].locked]
      BY <1>19, <3>2
    <3>4. bal[v][a].available + worth = bal[v][a].available /\ bal[v][a].locked - worth = bal[v][a].locked
      BY <1>20, <3>1
    <3> QED
      BY <1>10, <2>1, <2>3, <3>3, <3>4
  <2> QED
    BY <2>2, <2>3
<1> QED
  BY <1>7, <1>17, <1>21 DEF worth, o, old, new

\* Locking and releasing the same amount leaves a balance as it was: there is
\* no dust in its lock to sweep.
LEMMA TakenBack ==
  ASSUME AmountsAboveDust, TypeOK, OrdersSound, LocksCoverBook,
         NEW u \in Users, NEW pays \in Assets, NEW need \in Nat, TakesBack(u, pays, need)
  PROVE  bal' = bal
<1> DEFINE b == bal[u][pays]
           locked == Lock(b, need)
           back == Release(locked, need, Dust[pays])
<1>1. bal \in [Users -> [Assets -> Balance]]
  BY DEF TypeOK
<1>2. b \in Balance /\ locked \in Balance /\ Dust[pays] \in Nat /\ need \in Int
  BY <1>1, LockKeepsTotal, ConstantsAssumption
<1>3. b.locked \in Nat /\ (b.locked = 0 \/ b.locked >= Dust[pays])
  <2>1. book \in Books /\ SoundBooks(book)
    BY SoundBooksKept DEF TypeOK, Books
  <2> QED
    BY <2>1, LocksAboveDust, CoveredByLocks
<1>4. b.available \in Int
  BY <1>2 DEF Balance
<1>5. locked.available = b.available - need /\ locked.locked = b.locked + need
  BY DEF Lock
<1>6. bal' = [bal EXCEPT ![u][pays] = back]
  BY DEF TakesBack
<1>7. \A c \in Balance : c = [available |-> c.available, locked |-> c.locked]
  BY DEF Balance
<1> HIDE DEF locked
<1>8. back.available = locked.available + need /\ back.locked = locked.locked - need
  BY <1>2, <1>3, <1>5, ReleaseExact
<1>9. back \in Balance
  BY <1>2, ReleaseKeepsTotal
<1> HIDE DEF b, back
<1>10. back = b
  <2>1. back.available = b.available /\ back.locked = b.locked
    BY <1>3, <1>4, <1>5, <1>8
  <2> QED
    BY <1>2, <1>7, <1>9, <2>1
<1>11. bal' = [bal EXCEPT ![u] = [bal[u] EXCEPT ![pays] = b]]
  BY <1>6, <1>10
<1> QED
  BY <1>1, <1>11 DEF b

\* What an account has free is never less than nothing, and what it has locked
\* is what the books keep.
Covered(b, bk) ==
  \A v \in Users, a \in Assets : b[v][a].locked = Locks(bk, v, a) /\ b[v][a].available >= 0

LEMMA CoveredMeans ==
  Covered(bal, book) <=> LocksCoverBook /\ AvailableOK
BY CoveredByLocks DEF Covered, AvailableOK

\* A deposit adds to what is free.
LEMMA CreditedMoney ==
  ASSUME TypeOK, Covered(bal, book), NEW u \in Users, NEW assets \in SUBSET Assets,
         NEW amount \in Nat, Credit(u, assets, amount), UNCHANGED book
  PROVE  Covered(bal', book')
<1>1. bal \in [Users -> [Assets -> Balance]]
  BY DEF TypeOK
<1>2. bal' = [bal EXCEPT ![u] =
               [a \in Assets |-> IF a \in assets THEN Adjust(@[a], amount, 0) ELSE @[a]]]
  BY DEF Credit
<1>3. \A v \in Users, a \in Assets :
        bal'[v][a] = IF v = u /\ a \in assets THEN Adjust(bal[v][a], amount, 0) ELSE bal[v][a]
  BY <1>1, <1>2
<1>4. \A v \in Users, a \in Assets :
        bal'[v][a].locked = bal[v][a].locked /\ bal'[v][a].available >= 0
  <2> TAKE v \in Users, a \in Assets
  <2>1. bal[v][a].available \in Int /\ bal[v][a].locked \in Int /\ bal[v][a].available >= 0
    <3>1. bal[v][a] \in Balance
      BY <1>1
    <3> QED
      BY <3>1 DEF Balance, Covered
  <2>2. Adjust(bal[v][a], amount, 0)
          = [available |-> bal[v][a].available + amount, locked |-> bal[v][a].locked + 0]
    BY DEF Adjust
  <2> QED
    BY <1>3, <2>1, <2>2
<1> QED
  BY <1>4 DEF Covered

LEMMA MoneyKept ==
  ASSUME AmountsAboveDust, TypeOK, TypeOK', Filed, RowsInv, RowsInv', LocksCoverBook, AvailableOK,
         Outcome
  PROVE  LocksCoverBook' /\ AvailableOK'
<1> SUFFICES Covered(bal', book')
  <2>1. Covered(bal, book)' <=> LocksCoverBook' /\ AvailableOK'
    BY CoveredMeans, PTL
  <2>2. Covered(bal, book)' <=> Covered(bal', book')
    BY DEF Covered
  <2> QED
    BY <2>1, <2>2
<1>1. Covered(bal, book) /\ OrdersSound /\ OrdersSound'
  BY CoveredMeans DEF RowsInv
<1>2. CASE UNCHANGED <<book, bal>>
  BY <1>1, <1>2
<1>3. ASSUME NEW u \in Users, NEW pays \in Assets, NEW need \in Nat, TakesBack(u, pays, need)
      PROVE  Covered(bal', book')
  <2>1. bal' = bal
    BY <1>1, <1>3, TakenBack
  <2>2. book' = book
    BY <1>3 DEF TakesBack
  <2> QED
    BY <1>1, <2>1, <2>2
<1>4. ASSUME NEW m \in Markets, NEW side \in Sides, NEW u \in Users, NEW type \in {"limit", "market"},
             NEW price \in Int, NEW quantity \in Int, Places(m, side, u, type, price, quantity)
      PROVE  Covered(bal', book')
  BY <1>1, <1>4, TradedMoney DEF Covered
<1>5. ASSUME NEW m \in Markets, NEW side \in Sides, NEW i \in DOMAIN book[m][side],
             Cancels(m, side, i)
      PROVE  Covered(bal', book')
  <2> SUFFICES ASSUME NEW v \in Users, NEW a \in Assets
               PROVE  bal'[v][a].locked = Locks(book', v, a) /\ bal'[v][a].available >= 0
    BY DEF Covered
  <2> DEFINE worth == Slot(m, side, v, a, book[m][side][i])
  <2>1. /\ worth \in Nat
        /\ bal'[v][a] = Lock(bal[v][a], -worth)
        /\ Locks(book', v, a) = Locks(book, v, a) - worth
    BY <1>1, <1>5, CancelledBalance
  <2> HIDE DEF worth
  <2>2. bal[v][a].locked = Locks(book, v, a) /\ bal[v][a].available >= 0
    BY <1>1 DEF Covered
  <2>3. bal[v][a].available \in Int /\ bal[v][a].locked \in Int
    <3>1. bal[v][a] \in Balance
      BY DEF TypeOK
    <3> QED
      BY <3>1 DEF Balance
  <2> QED
    BY <2>1, <2>2, <2>3 DEF Lock
<1>6. ASSUME NEW u \in Users, NEW assets \in SUBSET Assets, NEW amount \in Nat \ {0},
             Deposited(u, assets, amount)
      PROVE  Covered(bal', book')
  BY <1>1, <1>6, CreditedMoney DEF Deposited
<1>7. ASSUME NEW u \in Users, NEW pays \in Assets, RefusesForFunds(u, pays)
      PROVE  UNCHANGED <<book, bal>>
  BY <1>7 DEF RefusesForFunds
<1>8. ASSUME NEW u \in Users, Enrols(u)
      PROVE  UNCHANGED <<book, bal>>
  BY <1>8 DEF Enrols
<1>9. UNCHANGED vars => UNCHANGED <<book, bal>>
  BY DEF vars
<1> QED
  BY <1>2, <1>3, <1>4, <1>5, <1>6, <1>7, <1>8, <1>9 DEF Outcome

-----------------------------------------------------------------------------
(* The theorems *)

\* What the engine keeps of money, books and rows, for amounts above dust.
MoneyInv ==
  /\ BookInv
  /\ RowsInv
  /\ TapeMatchesOrders
  /\ LocksCoverBook /\ AvailableOK

LEMMA InitMoneyInv == Init => MoneyInv
<1> SUFFICES ASSUME Init PROVE MoneyInv
  OBVIOUS
<1>1. BookInv
  BY InitBookInv
<1>2. \A m \in Markets, side \in Sides : book[m][side] = << >>
  BY DEF Init
<1>3. orders = << >> /\ \A m \in Markets : volume[m] = 0
  BY DEF Init
<1>4. RowsInv
  BY <1>2, <1>3 DEF RowsInv, OrdersSound, RowsTell, OpenRests, FilledIsAll
<1>5. TapeMatchesOrders
  <2>1. orders \in Seq(RowType)
    BY <1>3
  <2>2. ASSUME NEW n \in Markets PROVE Total(Executed(orders, n)) = 0
    <3>1. Total(Executed(orders, n)) = SumOver(1..Len(orders), Executed(orders, n))
      BY <2>1, ExecutedSum
    <3>2. 1..Len(orders) = {}
      BY <1>3
    <3> QED
      BY <3>1, <3>2, SumOverEmpty
  <2> QED
    BY <1>3, <2>2, TapeByRows
<1>6. \A v \in Users, a \in Assets : bal[v][a].locked = 0 /\ bal[v][a].available >= 0
  BY ConstantsAssumption DEF Init
<1>7. ASSUME NEW v \in Users, NEW a \in Assets PROVE Locks(book, v, a) = 0
  <2>1. ASSUME NEW m \in Markets, NEW side \in Sides
        PROVE  ListLocks(m, side, v, a, book[m][side]) = 0
    <3> DEFINE list == book[m][side]
    <3>1. list = << >> /\ list \in Seq(OrderOf(Users))
      <4>1. list = << >>
        BY <1>2
      <4> HIDE DEF list
      <4> QED
        BY <4>1
    <3> HIDE DEF list
    <3>2. ListLocks(m, side, v, a, list) = SumOver(1..Len(list), Slots(m, side, v, a, list))
      BY <3>1, ListLocksSum
    <3>3. 1..Len(list) = {}
      BY <3>1
    <3> QED
      BY <3>2, <3>3, SumOverEmpty DEF list
  <2>2. \A m \in Markets : MarketLocks(book, v, a)[m] = 0
    BY <2>1 DEF MarketLocks, Sides
  <2> QED
    BY <2>2, ConstantsAssumption, SumOverZero DEF Locks
<1>8. LocksCoverBook /\ AvailableOK
  BY <1>6, <1>7, CoveredByLocks DEF AvailableOK
<1> QED
  BY <1>1, <1>4, <1>5, <1>8 DEF MoneyInv

LEMMA NextMoneyInv ==
  ASSUME AmountsAboveDust
  PROVE  MoneyInv /\ [Next]_vars => MoneyInv'
<1> SUFFICES ASSUME MoneyInv, [Next]_vars PROVE MoneyInv'
  OBVIOUS
<1>1. BookInv /\ BookInv'
  BY NextBookInv DEF MoneyInv
<1>2. TypeOK /\ TypeOK' /\ Filed /\ OnceOnBook
  BY <1>1 DEF BookInv, Inv
<1>3. Outcome
  BY <1>2, NextOutcome
<1>4. RowsInv'
  BY <1>2, <1>3, RowsKept DEF MoneyInv
<1>5. TapeMatchesOrders'
  BY <1>2, <1>3, TapeKept DEF MoneyInv
<1>6. LocksCoverBook' /\ AvailableOK'
  BY <1>2, <1>3, <1>4, MoneyKept DEF MoneyInv
<1> QED
  BY <1>1, <1>4, <1>5, <1>6 DEF MoneyInv

LEMMA MoneyInvariant ==
  ASSUME AmountsAboveDust
  PROVE  Spec => []MoneyInv
BY InitMoneyInv, NextMoneyInv, PTL DEF Spec

\* Every lock is for an order on a book and every order on a book is paid for:
\* fills, refunds and cancels, at any price, strand nothing.
THEOREM EveryLockHasItsOrder ==
  ASSUME AmountsAboveDust
  PROVE  Spec => []LocksCoverBook
<1>1. MoneyInv => LocksCoverBook
  BY DEF MoneyInv
<1> QED
  BY <1>1, MoneyInvariant, PTL

\* CheckAndLockFunds lets nobody spend what they do not have, and no later
\* fill, refund or cancel takes more out of a balance than is in it.
THEOREM NobodyOverdraws ==
  ASSUME AmountsAboveDust
  PROVE  Spec => []NeverNegative
<1>1. MoneyInv => NeverNegative
  <2> SUFFICES ASSUME MoneyInv, NEW u \in Users, NEW a \in Assets
               PROVE  bal[u][a].available >= 0 /\ bal[u][a].locked >= 0
    BY DEF NeverNegative
  <2>1. TypeOK /\ OrdersSound /\ LocksCoverBook /\ AvailableOK
    BY DEF MoneyInv, BookInv, Inv, RowsInv
  <2>2. book \in Books /\ SoundBooks(book)
    BY <2>1, SoundBooksKept DEF TypeOK, Books
  <2>3. Locks(book, u, a) \in Nat
    BY <2>2, LocksAboveDust
  <2>4. bal[u][a].locked = Locks(book, u, a) /\ bal[u][a].available >= 0
    BY <2>1, CoveredByLocks DEF AvailableOK
  <2> QED
    BY <2>3, <2>4
<1> QED
  BY <1>1, MoneyInvariant, PTL

\* The orders table says of every order where it is, what is left of it and
\* whether all of it was executed.
THEOREM RowsTellTheBooks ==
  ASSUME AmountsAboveDust
  PROVE  Spec => []RowsMatchBook
<1>1. MoneyInv => RowsMatchBook
  BY RowsInvMatches DEF MoneyInv, BookInv, Inv
<1> QED
  BY <1>1, MoneyInvariant, PTL

\* What the trade tape adds up to is half of what the rows say was executed.
THEOREM TapeTellsTheTrades ==
  ASSUME AmountsAboveDust
  PROVE  Spec => []TapeMatchesOrders
<1>1. MoneyInv => TapeMatchesOrders
  BY DEF MoneyInv
<1> QED
  BY <1>1, MoneyInvariant, PTL

\* A refused command leaves no trace but an empty entry: what CheckAndLockFunds
\* locked for an unknown side is back in full.
THEOREM RefusalsLeaveNoTrace ==
  ASSUME AmountsAboveDust
  PROVE  Spec => RejectionChangesNothing
<1> DEFINE same == UNCHANGED <<book, lastTrade, bal, named, ledger, orders, volume>>
<1>1. MoneyInv /\ [Next]_vars => [reply'.type = "ORDER_REJECTED" => same]_vars
  <2> SUFFICES ASSUME MoneyInv, [Next]_vars, reply'.type = "ORDER_REJECTED" PROVE same
    OBVIOUS
  <2>1. TypeOK /\ OrdersSound /\ LocksCoverBook
    BY DEF MoneyInv, BookInv, Inv, RowsInv
  <2>2. Outcome
    BY <2>1, NextOutcome
  <2>3. ASSUME NEW u \in Users, NEW pays \in Assets, NEW need \in Nat, TakesBack(u, pays, need)
        PROVE  same
    BY <2>1, <2>3, TakenBack DEF TakesBack
  <2>4. ASSUME NEW u \in Users, NEW pays \in Assets, RefusesForFunds(u, pays)
        PROVE  same
    BY <2>4 DEF RefusesForFunds
  <2>5. ASSUME NEW m \in Markets, NEW side \in Sides, NEW u \in Users, NEW type \in {"limit", "market"},
               NEW price \in Int, NEW quantity \in Int, Places(m, side, u, type, price, quantity)
        PROVE  FALSE
    BY <2>5, AcceptRows DEF Places
  <2>6. ASSUME NEW m \in Markets, NEW side \in Sides, NEW i \in DOMAIN book[m][side],
               Cancels(m, side, i)
        PROVE  FALSE
    BY <2>6 DEF Cancels, Answered
  <2>7. ASSUME NEW u \in Users, NEW assets \in SUBSET Assets, NEW amount \in Nat \ {0},
               Deposited(u, assets, amount)
        PROVE  FALSE
    BY <2>7 DEF Deposited
  <2>8. ASSUME NEW u \in Users, Enrols(u)
        PROVE  FALSE
    BY <2>8 DEF Enrols
  <2>9. UNCHANGED vars => same
    BY DEF vars
  <2> HIDE DEF same
  <2>10. reply'.type = "ORDER_REJECTED"
         /\ UNCHANGED <<book, lastTrade, bal, held, named, ledger, orders, volume>> => same
    BY DEF same
  <2> QED
    BY <2>2, <2>3, <2>4, <2>5, <2>6, <2>7, <2>8, <2>9, <2>10 DEF Outcome
<1>2. Spec => [][reply'.type = "ORDER_REJECTED" => same]_vars
  <2>1. Spec => [][Next]_vars
    BY DEF Spec
  <2> HIDE DEF same
  <2> QED
    BY <1>1, <2>1, MoneyInvariant, PTL
<1> QED
  BY <1>2 DEF RejectionChangesNothing

\* Whoever cancels an order, its owner gets back exactly what it still had
\* locked, and no other balance changes.
THEOREM CancelsRefund ==
  ASSUME AmountsAboveDust
  PROVE  Spec => CancelRefundsTheLock
<1> DEFINE record == orders[reply'.id]
           asset == Pays(record.market, record.side)
           found == CHOOSE o \in {book[record.market][record.side][i] :
                                    i \in PositionsOf(book[record.market][record.side], reply'.id)} : TRUE
           refunded == bal' = [bal EXCEPT ![record.user][asset] =
                                 Lock(@, -Worth(asset, Remaining(found), found.price))]
           cancelled == reply'.type = "ORDER_CANCELLED" /\ reply' # reply
<1>1. MoneyInv /\ MoneyInv' /\ [Next]_vars => [cancelled => refunded]_vars
  <2> SUFFICES ASSUME MoneyInv, MoneyInv', [Next]_vars, cancelled PROVE refunded
    OBVIOUS
  <2>1. /\ TypeOK /\ Filed /\ OnceOnBook /\ OrdersSound /\ RowsTell /\ LocksCoverBook
        /\ TypeOK' /\ OrdersSound'
    BY DEF MoneyInv, BookInv, Inv, RowsInv
  <2>2. Outcome
    BY <2>1, NextOutcome
  <2>3. PICK m \in Markets, side \in Sides : \E i \in DOMAIN book[m][side] : Cancels(m, side, i)
    <3>1. ASSUME NEW n \in Markets, NEW s \in Sides, NEW u \in Users, NEW type \in {"limit", "market"},
                 NEW price \in Int, NEW quantity \in Int, Places(n, s, u, type, price, quantity)
          PROVE  FALSE
      BY <3>1, AcceptRows DEF Places
    <3>2. ASSUME NEW u \in Users, NEW a \in Assets, NEW need \in Nat, TakesBack(u, a, need)
          PROVE  FALSE
      BY <3>2 DEF TakesBack, Rejected
    <3>3. ASSUME NEW u \in Users, NEW a \in Assets, RefusesForFunds(u, a)
          PROVE  FALSE
      BY <3>3 DEF RefusesForFunds, Rejected
    <3>4. ASSUME NEW u \in Users, NEW assets \in SUBSET Assets, NEW amount \in Nat \ {0},
                 Deposited(u, assets, amount)
          PROVE  FALSE
      BY <3>4 DEF Deposited
    <3>5. ASSUME NEW u \in Users, Enrols(u)
          PROVE  FALSE
      BY <3>5 DEF Enrols
    <3>6. ~(UNCHANGED vars) /\ reply'.type = "ORDER_CANCELLED"
      BY DEF vars
    <3> QED
      BY <2>2, <3>1, <3>2, <3>3, <3>4, <3>5, <3>6 DEF Outcome
  <2>4. PICK c \in DOMAIN book[m][side] : Cancels(m, side, c)
    BY <2>3
  <2> DEFINE o == book[m][side][c]
             owed == Worth(Pays(m, side), Remaining(o), o.price)
  <2>5. reply'.id = o.id
    BY <2>4 DEF Cancels, Answered
  <2>6. record.market = m /\ record.side = side /\ record.user = o.user
    BY <2>1, <2>5 DEF RowsTell, RowFits
  <2>7. asset = Pays(m, side) /\ asset \in Assets
    BY <2>6, AssetFacts
  <2>8. found = o
    <3>1. PositionsOf(book[m][side], o.id) = {c}
      BY <2>1 DEF PositionsOf, OnceOnBook
    <3>2. {book[record.market][record.side][i] : i \in PositionsOf(book[record.market][record.side], reply'.id)} = {o}
      BY <2>5, <2>6, <3>1
    <3> QED
      BY <3>2
  <2>9. o.user \in Users
    <3>1. book[m][side] \in Seq(OrderOf(Users))
      BY <2>1 DEF TypeOK
    <3>2. o \in OrderOf(Users)
      BY <3>1
    <3> QED
      BY <3>2 DEF OrderOf
  <2>10. \A v \in Users, a \in Assets :
           bal'[v][a] = Lock(bal[v][a], -Slot(m, side, v, a, o))
    BY <2>1, <2>4, CancelledBalance DEF MoneyInv
  <2>11. bal \in [Users -> [Assets -> Balance]] /\ bal' \in [Users -> [Assets -> Balance]]
    BY <2>1 DEF TypeOK
  <2>12. \A v \in Users, a \in Assets :
           bal'[v][a] = IF v = o.user /\ a = Pays(m, side) THEN Lock(bal[v][a], -owed) ELSE bal[v][a]
    <3> TAKE v \in Users, a \in Assets
    <3>1. Slot(m, side, v, a, o) = IF v = o.user /\ a = Pays(m, side) THEN owed ELSE 0
      BY DEF Slot
    <3>2. Lock(bal[v][a], -0) = bal[v][a]
      <4>1. bal[v][a] \in Balance
        BY <2>11
      <4>2. bal[v][a] = [available |-> bal[v][a].available, locked |-> bal[v][a].locked]
            /\ bal[v][a].available \in Int /\ bal[v][a].locked \in Int
        BY <4>1 DEF Balance
      <4> QED
        BY <4>2 DEF Lock
    <3> HIDE DEF owed, o
    <3> QED
      BY <2>10, <3>1, <3>2
  <2> HIDE DEF found, o, owed, record
  <2>13. refunded <=> bal' = [bal EXCEPT ![o.user][Pays(m, side)] = Lock(@, -Worth(asset, Remaining(found), found.price))]
    BY <2>6, <2>7
  <2>14. Worth(asset, Remaining(found), found.price) = owed
    BY <2>7, <2>8 DEF owed
  <2> HIDE DEF refunded, asset
  <2>15. bal' = [bal EXCEPT ![o.user][Pays(m, side)] = Lock(@, -owed)]
    BY <2>7, <2>9, <2>11, <2>12
  <2> QED
    BY <2>13, <2>14, <2>15
<1>2. MoneyInv /\ MoneyInv' /\ [Next]_vars =>
        [reply'.type = "ORDER_CANCELLED" /\ reply' # reply =>
           LET row  == orders[reply'.id]
               pays == Pays(row.market, row.side)
               o    == CHOOSE o \in {book[row.market][row.side][i] :
                                       i \in PositionsOf(book[row.market][row.side], reply'.id)} : TRUE
           IN  bal' = [bal EXCEPT ![row.user][pays] =
                         Lock(@, -Worth(pays, Remaining(o), o.price))]]_vars
  BY <1>1
<1> QED
  BY <1>2, MoneyInvariant, PTL DEF Spec, CancelRefundsTheLock
=============================================================================
