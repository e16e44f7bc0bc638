---------------------------- MODULE EngineProofs ----------------------------
(***************************************************************************)
(* The engine keeps its types and always reconciles with its ledger, for   *)
(* every set of accounts and markets, every price and quantity, any tick   *)
(* and dust threshold: rounding and dust move value between Available and  *)
(* Locked, or between two accounts, but never past the ledger.  Trading    *)
(* neither makes nor loses value, and a new account starts with nothing.   *)
(* The order books stay in price-time order and uncrossed, an order is on  *)
(* one of them at most once, and nobody trades ahead of an order with      *)
(* priority.                                                               *)
(***************************************************************************)
EXTENDS Engine, OperatorProofs

LEMMA AssetFacts ==
  ASSUME NEW m \in Markets, NEW side
  PROVE  /\ m \in Assets /\ Quote \in Assets
         /\ Pays(m, side) \in Assets /\ Gets(m, side) \in Assets
         /\ Pays(m, side) # Gets(m, side)
BY ConstantsAssumption DEF Assets, Pays, Gets

LEMMA WorthType ==
  ASSUME NEW asset, NEW q \in Int, NEW p \in Int
  PROVE  Worth(asset, q, p) \in Int
BY DEF Worth

LEMMA FormatNumType ==
  ASSUME NEW v \in Int, NEW tick \in Nat \ {0}
  PROVE  FormatNum(v, tick) \in Int
<1>1. tick \div 2 \in Int
  OBVIOUS
<1>2. (v + tick \div 2) \div tick \in Int
  BY <1>1
<1> QED
  BY <1>2 DEF FormatNum

\* releaseFunds only moves value between the two fields.
LEMMA ReleaseKeepsTotal ==
  ASSUME NEW b \in Balance, NEW amount \in Int, NEW dust \in Nat
  PROVE  /\ Release(b, amount, dust) \in Balance
         /\ Release(b, amount, dust).available + Release(b, amount, dust).locked
              = b.available + b.locked
<1> DEFINE moved == IF amount > 0 THEN Lock(b, -amount) ELSE b
<1>1. moved \in Balance /\ moved.available + moved.locked = b.available + b.locked
  BY DEF Lock, Balance
<1> HIDE DEF moved
<1>2. Release(b, amount, dust) =
        IF -dust < moved.locked /\ moved.locked < dust
        THEN [available |-> moved.available + moved.locked, locked |-> 0] ELSE moved
  BY DEF Release, moved
<1> QED
  BY <1>1, <1>2 DEF Balance

LEMMA LockKeepsTotal ==
  ASSUME NEW b \in Balance, NEW amount \in Int
  PROVE  /\ Lock(b, amount) \in Balance
         /\ Lock(b, amount).available + Lock(b, amount).locked = b.available + b.locked
BY DEF Lock, Balance

LEMMA AdjustTotal ==
  ASSUME NEW b \in Balance, NEW x \in Int, NEW y \in Int
  PROVE  /\ Adjust(b, x, y) \in Balance
         /\ Adjust(b, x, y).available + Adjust(b, x, y).locked = b.available + b.locked + x + y
BY DEF Adjust, Balance

-----------------------------------------------------------------------------
(* Settling *)

\* The parts of the fills are integers.
LEMMA PartsType ==
  ASSUME NEW makers \in Seq(OrderOf(Users)), NEW qty \in [DOMAIN makers -> Int],
         NEW a, NEW v
  PROVE  TakerPart(a, makers, qty) \in Int /\ MakerPart(v, a, makers, qty) \in Int
<1>1. DOMAIN makers = 1..Len(makers) /\ Len(makers) \in Nat
  OBVIOUS
<1>2. \A i \in DOMAIN makers :
        Worth(a, qty[i], FormatNum(makers[i].price, PriceTick)) \in Int
  <2> TAKE i \in DOMAIN makers
  <2>1. makers[i].price \in Int
    <3>1. makers[i] \in OrderOf(Users)
      BY <1>1
    <3> QED
      BY <3>1 DEF OrderOf
  <2>2. FormatNum(makers[i].price, PriceTick) \in Int
    BY <2>1, FormatNumType, ConstantsAssumption
  <2> QED
    BY <2>2, WorthType
<1>3. FillWorth(a, makers, qty) \in [1..Len(makers) -> Int]
  BY <1>1, <1>2 DEF FillWorth
<1>4. FillWorth(a, makers, qty) \in Seq(Int)
  BY <1>1, <1>3
<1> DEFINE mine == [i \in DOMAIN makers |->
                      IF makers[i].user = v THEN FillWorth(a, makers, qty)[i] ELSE 0]
<1>5. mine \in [1..Len(makers) -> Int]
  BY <1>1, <1>3
<1>6. mine \in Seq(Int)
  BY <1>1, <1>5
<1>7. TakerPart(a, makers, qty) \in Int
  BY <1>4, TotalType DEF TakerPart
<1>8. MakerPart(v, a, makers, qty) = Total(mine)
  BY DEF MakerPart
<1> HIDE DEF mine
<1> QED
  BY <1>6, <1>7, <1>8, TotalType

\* What a balance gains over all the fills is what its ledger legs add up to.
LEMMA UpdateBalanceFollowsLedger ==
  ASSUME NEW bals \in [Users -> [Assets -> Balance]],
         NEW m \in Markets, NEW side \in Sides, NEW u \in Users,
         NEW makers \in Seq(OrderOf(Users)), NEW qty \in [DOMAIN makers -> Int]
  PROVE  /\ UpdateBalance(bals, m, side, u, makers, qty) \in [Users -> [Assets -> Balance]]
         /\ LedgerLegs(m, side, u, makers, qty) \in [Users -> [Assets -> Int]]
         /\ \A v \in Users, a \in Assets :
              LET b == UpdateBalance(bals, m, side, u, makers, qty)[v][a]
              IN  b.available + b.locked = bals[v][a].available + bals[v][a].locked
                                             + LedgerLegs(m, side, u, makers, qty)[v][a]
<1> DEFINE made(v, a)  == MakerPart(v, a, makers, qty)
           taken(a)    == TakerPart(a, makers, qty)
           gain(v, a)  == (IF a = Pays(m, side) THEN made(v, a) ELSE 0)
                            + (IF v = u /\ a = Gets(m, side) THEN taken(a) ELSE 0)
           spend(v, a) == - (IF a = Gets(m, side) THEN made(v, a) ELSE 0)
                            - (IF v = u /\ a = Pays(m, side) THEN taken(a) ELSE 0)
           leg(v, a)   == LedgerLegs(m, side, u, makers, qty)[v][a]
<1>1. \A v \in Users, a \in Assets : made(v, a) \in Int /\ taken(a) \in Int
  BY PartsType
<1>2. UpdateBalance(bals, m, side, u, makers, qty) =
        [v \in Users |-> [a \in Assets |-> Adjust(bals[v][a], gain(v, a), spend(v, a))]]
  BY DEF UpdateBalance
<1>3. \A v \in Users, a \in Assets :
        leg(v, a) = IF a = Pays(m, side) THEN made(v, a) - (IF v = u THEN taken(a) ELSE 0)
                    ELSE IF a = Gets(m, side) THEN (IF v = u THEN taken(a) ELSE 0) - made(v, a)
                    ELSE 0
  BY DEF LedgerLegs
<1>4. Pays(m, side) # Gets(m, side)
  BY AssetFacts
<1> HIDE DEF made, taken
<1>5. \A v \in Users, a \in Assets :
        /\ gain(v, a) \in Int /\ spend(v, a) \in Int /\ leg(v, a) \in Int
        /\ gain(v, a) + spend(v, a) = leg(v, a)
  <2> TAKE v \in Users, a \in Assets
  <2>1. made(v, a) \in Int /\ taken(a) \in Int
    BY <1>1
  <2> HIDE DEF leg
  <2>2. CASE a = Pays(m, side)
    BY <1>3, <1>4, <2>1, <2>2
  <2>3. CASE a = Gets(m, side)
    BY <1>3, <1>4, <2>1, <2>3
  <2>4. CASE a # Pays(m, side) /\ a # Gets(m, side)
    BY <1>3, <2>1, <2>4
  <2> QED
    BY <2>2, <2>3, <2>4
<1>6. LedgerLegs(m, side, u, makers, qty) =
        [v \in Users |-> [a \in Assets |-> leg(v, a)]]
  BY DEF LedgerLegs
<1> HIDE DEF gain, spend, leg
<1>7. \A v \in Users, a \in Assets : bals[v][a] \in Balance
  OBVIOUS
<1>8. \A v \in Users, a \in Assets :
        LET b == Adjust(bals[v][a], gain(v, a), spend(v, a))
        IN  /\ b \in Balance
            /\ b.available + b.locked = bals[v][a].available + bals[v][a].locked + leg(v, a)
  <2> TAKE v \in Users, a \in Assets
  <2>1. /\ bals[v][a] \in Balance
        /\ gain(v, a) \in Int /\ spend(v, a) \in Int
        /\ gain(v, a) + spend(v, a) = leg(v, a)
    BY <1>5, <1>7
  <2>2. bals[v][a].available \in Int /\ bals[v][a].locked \in Int
    BY <2>1 DEF Balance
  <2> QED
    BY <2>1, <2>2, AdjustTotal
<1>9. UpdateBalance(bals, m, side, u, makers, qty) \in [Users -> [Assets -> Balance]]
  BY <1>2, <1>8
<1>10. LedgerLegs(m, side, u, makers, qty) \in [Users -> [Assets -> Int]]
  BY <1>5, <1>6
<1>11. \A v \in Users, a \in Assets :
         UpdateBalance(bals, m, side, u, makers, qty)[v][a]
           = Adjust(bals[v][a], gain(v, a), spend(v, a))
  BY <1>2
<1> QED
  BY <1>8, <1>9, <1>10, <1>11 DEF leg
-----------------------------------------------------------------------------
(* The invariant *)

Inv == TypeOK /\ Reconciles

\* The initial seeds are all in the ledger.
LEMMA InitInv == Init => Inv
<1> SUFFICES ASSUME Init PROVE TypeOK /\ Reconciles
  BY DEF Inv
<1> DEFINE seed(u, a) == IF u \in Seeded THEN Seed[a] ELSE 0
<1>1. \A u \in Users, a \in Assets : seed(u, a) \in Int
  BY ConstantsAssumption
<1>2. /\ bal = [u \in Users |-> [a \in Assets |-> [available |-> seed(u, a), locked |-> 0]]]
      /\ ledger = [u \in Users |-> [a \in Assets |-> seed(u, a)]]
  BY DEF Init
<1> HIDE DEF seed
<1>3. bal \in [Users -> [Assets -> Balance]]
  BY <1>1, <1>2 DEF Balance
<1>4. ledger \in [Users -> [Assets -> Int]]
  BY <1>1, <1>2
<1>5. book \in [Markets -> [Sides -> Seq(OrderOf(Users))]]
  <2>1. << >> \in Seq(OrderOf(Users))
    OBVIOUS
  <2> QED
    BY <2>1 DEF Init
<1>6. lastTrade \in [Markets -> Nat] /\ volume \in [Markets -> Int]
  <2>1. 0 \in Nat /\ 0 \in Int
    OBVIOUS
  <2>2. lastTrade = [m \in Markets |-> 0] /\ volume = [m \in Markets |-> 0]
    BY DEF Init
  <2> QED
    BY <2>1, <2>2
<1>7. held \in [Users -> SUBSET Assets] /\ named \in SUBSET Users
  BY ConstantsAssumption DEF Init
<1>8. orders \in Seq(RowType)
  <2>1. << >> \in Seq(RowType)
    OBVIOUS
  <2> QED
    BY <2>1 DEF Init
<1>9. reply \in ReplyType
  BY DEF Init, Answered, ReplyType, Absent
<1>10. TypeOK
  BY <1>3, <1>4, <1>5, <1>6, <1>7, <1>8, <1>9 DEF TypeOK
<1>11. Reconciles
  <2> SUFFICES ASSUME NEW u \in Users, NEW a \in Assets
               PROVE  bal[u][a].available + bal[u][a].locked = ledger[u][a]
    BY DEF Reconciles
  <2>1. seed(u, a) \in Int /\ bal[u][a] = [available |-> seed(u, a), locked |-> 0]
        /\ ledger[u][a] = seed(u, a)
    BY <1>1, <1>2
  <2> QED
    BY <2>1
<1> QED
  BY <1>10, <1>11

\* A step that keeps the books, the ledger and the database rows, and the sum
\* of every balance, keeps the invariant.
LEMMA SameTotals ==
  ASSUME Inv,
         reply' \in ReplyType,
         UNCHANGED <<lastTrade, named, ledger, volume>>,
         book' \in [Markets -> [Sides -> Seq(OrderOf(Users))]],
         orders' \in Seq(RowType),
         held' \in [Users -> SUBSET Assets],
         bal' \in [Users -> [Assets -> Balance]],
         \A u \in Users, a \in Assets :
           bal'[u][a].available + bal'[u][a].locked = bal[u][a].available + bal[u][a].locked
  PROVE  Inv'
<1>1. TypeOK'
  BY DEF Inv, TypeOK
<1>2. Reconciles'
  BY DEF Inv, Reconciles
<1> QED
  BY <1>1, <1>2 DEF Inv

\* A refusal that leaves the balances alone.
LEMMA RejectInv ==
  ASSUME Inv,
         NEW code \in {"NO_ORDERBOOK", "NO_LIQUIDITY", "INVALID_ORDER", "INSUFFICIENT_FUNDS",
                       "ORDER_NOT_FOUND", "INVALID_AMOUNT", "INVALID_USER", "UNKNOWN_COMMAND"},
         Reject(code)
  PROVE  Inv'
<1>1. reply' \in ReplyType
  BY DEF Reject, Rejected, ReplyType, Absent
<1>2. UNCHANGED <<book, lastTrade, bal, held, named, ledger, orders, volume>>
  BY DEF Reject
<1>3. TypeOK'
  BY <1>1, <1>2 DEF Inv, TypeOK
<1>4. Reconciles'
  BY <1>2 DEF Inv, Reconciles
<1> QED
  BY <1>3, <1>4 DEF Inv

\* The price of a market order is an integer.
LEMMA AskedPriceType ==
  ASSUME TypeOK, NEW m \in Markets, NEW side \in Sides \cup {"hold"}, NEW type, NEW price \in Int
  PROVE  AskedPrice(m, side, type, price) \subseteq Int
<1> SUFFICES ASSUME NEW best \in BestPrice(book[m][Opposite(side)], Opposite(side))
             PROVE  (FormatNum(best, PriceTick) * (IF side = "buy" THEN 21 ELSE 19)) \div 20 \in Int
  BY DEF AskedPrice
<1>1. Opposite(side) \in Sides
  BY DEF Opposite, Sides
<1>2. book[m][Opposite(side)] \in Seq(OrderOf(Users))
  BY <1>1 DEF TypeOK
<1>3. PICK i \in DOMAIN book[m][Opposite(side)] : best = book[m][Opposite(side)][i].price
  BY DEF BestPrice, QuotedPrices
<1>4. book[m][Opposite(side)][i] \in OrderOf(Users)
  BY <1>2, <1>3
<1>5. best \in Int
  BY <1>3, <1>4 DEF OrderOf
<1>6. FormatNum(best, PriceTick) \in Int
  BY <1>5, FormatNumType, ConstantsAssumption
<1> QED
  BY <1>6

\* An increment of a row is a row.
LEMMA IncrementType ==
  ASSUME NEW row \in RowType, NEW delta \in Int, NEW status \in {Absent, "cancelled"}
  PROVE  Increment(row, delta, status) \in RowType
<1> DEFINE next == IF status # Absent THEN status
                   ELSE IF row.executed + delta >= row.quantity THEN "filled" ELSE row.status
<1>1. row.executed + delta \in Int
  <2>1. row.executed \in Int
    BY DEF RowType
  <2> QED
    BY <2>1
<1>2. next \in {"open", "filled", "partially_filled", "cancelled"}
  BY DEF RowType
<1>3. Increment(row, delta, status)
        = [row EXCEPT !.executed = row.executed + delta, !.status = next]
  BY DEF Increment, RowType
<1> HIDE DEF next
<1> QED
  BY <1>1, <1>2, <1>3 DEF RowType

\* OrderRows appends the new row and keeps the others rows.
LEMMA OrderRowsType ==
  ASSUME TypeOK, NEW row \in RowType,
         NEW makers \in Seq(OrderOf(Users)), NEW qty \in [DOMAIN makers -> Int]
  PROVE  OrderRows(row, makers, qty) \in Seq(RowType)
<1> DEFINE id == Len(orders) + 1
           part(o) == [i \in DOMAIN makers |-> IF makers[i].id = o THEN qty[i] ELSE 0]
           madeBy(o) == Total(part(o))
           new(o) == IF o = id THEN row
                     ELSE IF madeBy(o) = 0 THEN orders[o]
                     ELSE Increment(orders[o], madeBy(o), Absent)
<1>1. DOMAIN makers = 1..Len(makers) /\ Len(makers) \in Nat
  OBVIOUS
<1>2. \A o : part(o) \in Seq(Int)
  BY <1>1
<1>3. \A o : madeBy(o) \in Int
  <2> HIDE DEF part
  <2> QED
    BY <1>2, TotalType
<1>4. orders \in Seq(RowType) /\ Len(orders) \in Nat
  BY DEF TypeOK
<1>5. \A o \in 1..id : new(o) \in RowType
  <2> TAKE o \in 1..id
  <2>1. CASE o = id
    BY <2>1
  <2>2. CASE o # id
    <3>1. orders[o] \in RowType
      BY <1>4, <2>2
    <3>2. madeBy(o) \in Int
      BY <1>3
    <3> HIDE DEF madeBy
    <3>3. orders[o].executed + madeBy(o) \in Int
      BY <3>1, <3>2 DEF RowType
    <3>4. Increment(orders[o], madeBy(o), Absent) \in RowType
      BY <3>1, <3>2, IncrementType
    <3> QED
      BY <2>2, <3>1, <3>4
  <2> QED
    BY <2>1, <2>2
<1>6. OrderRows(row, makers, qty) = [o \in 1..id |-> new(o)]
  BY DEF OrderRows
<1> HIDE DEF new
<1> QED
  BY <1>4, <1>5, <1>6

-----------------------------------------------------------------------------
(* Orders *)

\* The quantity on the tape is an integer.
LEMMA TapeType ==
  ASSUME NEW makers \in Seq(OrderOf(Users)), NEW qty \in [DOMAIN makers -> Int]
  PROVE  Total([i \in DOMAIN makers |-> FormatNum(qty[i], QtyTick)]) \in Int
<1> DEFINE tape == [i \in DOMAIN makers |-> FormatNum(qty[i], QtyTick)]
<1>1. DOMAIN makers = 1..Len(makers) /\ Len(makers) \in Nat
  OBVIOUS
<1>2. \A i \in DOMAIN makers : FormatNum(qty[i], QtyTick) \in Int
  BY FormatNumType, ConstantsAssumption
<1>3. tape \in Seq(Int)
  BY <1>1, <1>2
<1>4. Total(tape) \in Int
  <2> HIDE DEF tape
  <2> QED
    BY <1>3, TotalType
<1> QED
  BY <1>4

\* The balances after the taker's lock and the fills, and after the release of
\* what was locked in excess.
Settled(m, side, u, makers, qty, need) ==
  UpdateBalance([bal EXCEPT ![u][Pays(m, side)] = Lock(@, need)], m, side, u, makers, qty)

After(m, side, u, makers, qty, need, excess) ==
  [Settled(m, side, u, makers, qty, need) EXCEPT
     ![u][Pays(m, side)] = Release(@, excess, Dust[Pays(m, side)])]

\* What is locked, settled and released for an accepted order changes the sums
\* of the balances by the legs of its fills.
LEMMA SettlementTotals ==
  ASSUME TypeOK, NEW m \in Markets, NEW side \in Sides, NEW u \in Users,
         NEW makers \in Seq(OrderOf(Users)), NEW qty \in [DOMAIN makers -> Int],
         NEW need \in Int, NEW excess \in Int
  PROVE  /\ After(m, side, u, makers, qty, need, excess) \in [Users -> [Assets -> Balance]]
         /\ \A v \in Users, a \in Assets :
              LET b == After(m, side, u, makers, qty, need, excess)[v][a]
              IN  b.available + b.locked = bal[v][a].available + bal[v][a].locked
                                             + LedgerLegs(m, side, u, makers, qty)[v][a]
<1> DEFINE pays == Pays(m, side)
           locked == [bal EXCEPT ![u][pays] = Lock(@, need)]
           settled == Settled(m, side, u, makers, qty, need)
           after == After(m, side, u, makers, qty, need, excess)
           sum(b) == b.available + b.locked
           leg(v, a) == LedgerLegs(m, side, u, makers, qty)[v][a]
<1>1. pays \in Assets /\ Dust[pays] \in Nat
  BY AssetFacts, ConstantsAssumption
<1>2. bal \in [Users -> [Assets -> Balance]]
  BY DEF TypeOK
<1>3. bal[u][pays] \in Balance
  BY <1>1, <1>2
<1>4. Lock(bal[u][pays], need) \in Balance /\ sum(Lock(bal[u][pays], need)) = sum(bal[u][pays])
  BY <1>3, LockKeepsTotal
<1>5. /\ locked \in [Users -> [Assets -> Balance]]
      /\ \A v \in Users, a \in Assets :
           locked[v][a] = IF v = u /\ a = pays THEN Lock(bal[u][pays], need) ELSE bal[v][a]
  BY <1>1, <1>2, <1>4
<1> HIDE DEF sum
<1>6. \A v \in Users, a \in Assets : sum(locked[v][a]) = sum(bal[v][a])
  BY <1>4, <1>5
<1>7. /\ settled = UpdateBalance(locked, m, side, u, makers, qty)
      /\ after = [settled EXCEPT ![u][pays] = Release(@, excess, Dust[pays])]
  BY DEF Settled, After
<1> HIDE DEF locked, leg, settled, after, pays
<1>8. /\ settled \in [Users -> [Assets -> Balance]]
      /\ \A v \in Users, a \in Assets : sum(settled[v][a]) = sum(locked[v][a]) + leg(v, a)
  <2>1. /\ UpdateBalance(locked, m, side, u, makers, qty) \in [Users -> [Assets -> Balance]]
        /\ \A v \in Users, a \in Assets :
             LET b == UpdateBalance(locked, m, side, u, makers, qty)[v][a]
             IN  b.available + b.locked = locked[v][a].available + locked[v][a].locked
                                            + LedgerLegs(m, side, u, makers, qty)[v][a]
    BY <1>5, UpdateBalanceFollowsLedger
  <2> QED
    BY <1>7, <2>1 DEF sum, leg
<1>9. settled[u][pays] \in Balance
  BY <1>1, <1>8
<1>10. /\ Release(settled[u][pays], excess, Dust[pays]) \in Balance
       /\ sum(Release(settled[u][pays], excess, Dust[pays])) = sum(settled[u][pays])
  BY <1>1, <1>9, ReleaseKeepsTotal DEF sum
<1>11. /\ after \in [Users -> [Assets -> Balance]]
       /\ \A v \in Users, a \in Assets :
            after[v][a] = IF v = u /\ a = pays
                          THEN Release(settled[u][pays], excess, Dust[pays]) ELSE settled[v][a]
  BY <1>1, <1>7, <1>8, <1>10
<1>12. \A v \in Users, a \in Assets : sum(after[v][a]) = sum(settled[v][a])
  BY <1>10, <1>11
<1>13. \A v \in Users, a \in Assets : sum(after[v][a]) = sum(bal[v][a]) + leg(v, a)
  <2> TAKE v \in Users, a \in Assets
  <2>1. sum(after[v][a]) = sum(settled[v][a])
    BY <1>12
  <2>2. sum(settled[v][a]) = sum(locked[v][a]) + leg(v, a)
    BY <1>8
  <2>3. sum(locked[v][a]) = sum(bal[v][a])
    BY <1>6
  <2> QED
    BY <2>1, <2>2, <2>3
<1> QED
  BY <1>11, <1>13 DEF sum, leg, after

\* An accepted order keeps the types, and its fills enter balances and ledger
\* alike.
LEMMA AcceptInv ==
  ASSUME Inv, NEW m \in Markets, NEW side \in Sides, NEW u \in Users, NEW type,
         NEW price \in Int, NEW quantity \in Int,
         Accept(m, side, u, type, price, quantity)
  PROVE  Inv'
<1> DEFINE id       == Len(orders) + 1
           taker    == [id |-> id, user |-> u, side |-> side,
                        price |-> price, quantity |-> quantity, filled |-> 0]
           makers   == book[m][Opposite(side)]
           qty      == FilledQty(makers, taker)
           executed == Total(qty)
           fills    == {i \in DOMAIN makers : qty[i] > 0}
           rests    == type # "market"
           pays     == Pays(m, side)
           need     == Worth(pays, quantity, price)
           excess   == OverLock(pays, price, quantity, executed,
                                TakerPart(pays, makers, qty), rests)
           settled  == UpdateBalance([bal EXCEPT ![u][pays] = Lock(@, need)],
                                     m, side, u, makers, qty)
           row      == [user |-> u, market |-> m, side |-> side,
                        quantity |-> FormatNum(quantity, QtyTick), executed |-> executed,
                        status |-> IF executed >= quantity THEN "filled"
                                   ELSE IF rests THEN "open" ELSE "partially_filled"]
           rest     == [taker EXCEPT !.quantity = @ - executed]
           legs     == LedgerLegs(m, side, u, makers, qty)
           far      == RemoveFullyFilled(WithFills(makers, qty), Dust[m])
           near     == IF rests /\ executed < quantity
                       THEN InsertInOrder(book[m][side], rest) ELSE book[m][side]
<1>0. TypeOK /\ Reconciles
  BY DEF Inv
<1>1. /\ makers \in Seq(OrderOf(Users)) /\ book[m][side] \in Seq(OrderOf(Users))
      /\ Opposite(side) \in Sides /\ Opposite(side) # side
  <2>1. Opposite(side) \in Sides /\ Opposite(side) # side
    BY DEF Opposite, Sides
  <2> QED
    BY <1>0, <2>1 DEF TypeOK
<1>2. id \in Nat /\ id # 0
  <2>1. orders \in Seq(RowType)
    BY <1>0 DEF TypeOK
  <2> QED
    BY <2>1
<1>3. taker \in OrderOf(Users)
  BY <1>2 DEF OrderOf
<1>4. qty \in Seq(Int) /\ qty \in [DOMAIN makers -> Int]
  BY <1>1, <1>3, FilledQtyType
<1>5. executed \in Int
  BY <1>4, TotalType
<1>6. Cardinality(fills) \in Nat
  <2>1. DOMAIN makers = 1..Len(makers) /\ Len(makers) \in Nat
    BY <1>1
  <2>2. IsFiniteSet(DOMAIN makers)
    BY <2>1, FS_Interval
  <2>3. fills \subseteq DOMAIN makers
    OBVIOUS
  <2> QED
    BY <2>2, <2>3, FS_Subset, FS_CardinalityType
<1>7. pays \in Assets /\ need \in Int
  BY AssetFacts, WorthType
<1>8. excess \in Int
  <2>1. quantity - executed \in Int /\ TakerPart(pays, makers, qty) \in Int
    <3> HIDE DEF executed, pays, qty, makers
    <3>1. quantity - executed \in Int
      BY <1>5
    <3>2. TakerPart(pays, makers, qty) \in Int
      BY <1>1, <1>4, PartsType
    <3> QED
      BY <3>1, <3>2
  <2>2. Worth(pays, executed, price) \in Int /\ Worth(pays, quantity - executed, price) \in Int
    BY <1>5, <2>1, WorthType
  <2> HIDE DEF executed, pays, qty, makers
  <2> QED
    BY <2>1, <2>2 DEF OverLock
<1>9. row \in RowType
  <2>1. FormatNum(quantity, QtyTick) \in Int
    BY FormatNumType, ConstantsAssumption
  <2> HIDE DEF executed
  <2> QED
    BY <1>5, <2>1 DEF RowType
<1>10. rest \in OrderOf(Users)
  <2> HIDE DEF executed
  <2> QED
    BY <1>2, <1>5 DEF OrderOf
<1>11. /\ book' = [book EXCEPT ![m][Opposite(side)] = far,
                               ![m][side] = IF rests /\ executed < quantity
                                            THEN InsertInOrder(@, rest) ELSE @]
       /\ lastTrade' = [lastTrade EXCEPT ![m] = @ + Cardinality(fills)]
       /\ bal' = [settled EXCEPT ![u][pays] = Release(@, excess, Dust[pays])]
       /\ held' = [v \in Users |-> held[v] \cup EntriesFor(m, u, makers, fills)[v]
                                          \cup (IF v = u THEN {pays} ELSE {})]
       /\ ledger' = [v \in Users |-> [a \in Assets |-> ledger[v][a] + legs[v][a]]]
       /\ orders' = OrderRows(row, makers, qty)
       /\ volume' = [volume EXCEPT ![m] =
            @ + Total([i \in DOMAIN makers |-> FormatNum(qty[i], QtyTick)])]
       /\ reply' = Answered("ORDER_PLACED", id, executed)
       /\ named' = named
  BY DEF Accept
<1>12. far \in Seq(OrderOf(Users)) /\ InsertInOrder(book[m][side], rest) \in Seq(OrderOf(Users))
  BY <1>1, <1>4, <1>10, WithFillsType, RemoveFullyFilledType, InsertInOrderType
<1>13. legs \in [Users -> [Assets -> Int]]
  BY <1>0, <1>1, <1>4, UpdateBalanceFollowsLedger DEF TypeOK
<1>14. /\ bal' \in [Users -> [Assets -> Balance]]
       /\ \A v \in Users, a \in Assets :
            bal'[v][a].available + bal'[v][a].locked
              = bal[v][a].available + bal[v][a].locked + legs[v][a]
  <2>1. bal' = After(m, side, u, makers, qty, need, excess)
    BY <1>11 DEF After, Settled
  <2> HIDE DEF makers, qty, need, excess
  <2> QED
    BY <1>0, <1>1, <1>4, <1>7, <1>8, <2>1, SettlementTotals
<1>15. orders' \in Seq(RowType)
  BY <1>0, <1>1, <1>4, <1>9, <1>11, OrderRowsType
<1>16. Total([i \in DOMAIN makers |-> FormatNum(qty[i], QtyTick)]) \in Int
  BY <1>1, <1>4, TapeType
<1> DEFINE tape == Total([i \in DOMAIN makers |-> FormatNum(qty[i], QtyTick)])
<1>17. volume' \in [Markets -> Int]
  <2>1. volume \in [Markets -> Int] /\ volume' = [volume EXCEPT ![m] = @ + tape] /\ tape \in Int
    BY <1>0, <1>11, <1>16 DEF TypeOK
  <2> HIDE DEF tape
  <2>2. volume[m] + tape \in Int
    BY <2>1
  <2> QED
    BY <2>1, <2>2
<1>18. reply' \in ReplyType
  <2> HIDE DEF id, executed
  <2> QED
    BY <1>2, <1>5, <1>11 DEF Answered, ReplyType, Absent
<1>19. held' \in [Users -> SUBSET Assets]
  <2>1. m \in Assets /\ Quote \in Assets
    BY AssetFacts
  <2>2. \A v \in Users : EntriesFor(m, u, makers, fills)[v] \subseteq Assets
    BY <2>1 DEF EntriesFor
  <2> HIDE DEF pays, fills, makers
  <2>3. \A v \in Users : held[v] \subseteq Assets
    BY <1>0 DEF TypeOK
  <2> QED
    BY <1>7, <1>11, <2>2, <2>3
<1>20. lastTrade' \in [Markets -> Nat]
  <2>1. lastTrade \in [Markets -> Nat] /\ lastTrade' = [lastTrade EXCEPT ![m] = @ + Cardinality(fills)]
    BY <1>0, <1>11 DEF TypeOK
  <2> HIDE DEF fills
  <2>2. lastTrade[m] + Cardinality(fills) \in Nat
    BY <1>6, <2>1
  <2> QED
    BY <2>1, <2>2
<1>21. book' \in [Markets -> [Sides -> Seq(OrderOf(Users))]]
  <2>1. book \in [Markets -> [Sides -> Seq(OrderOf(Users))]]
    BY <1>0 DEF TypeOK
  <2>2. near \in Seq(OrderOf(Users))
    BY <1>1, <1>12
  <2>3. book' = [book EXCEPT ![m][Opposite(side)] = far, ![m][side] = near]
    <3> HIDE DEF far, rest, executed, rests, makers
    <3>1. [book EXCEPT ![m][Opposite(side)] = far][m][side] = book[m][side]
      BY <1>1, <2>1
    <3> QED
      BY <1>11, <3>1
  <2> HIDE DEF far, near, makers
  <2> QED
    BY <1>1, <1>12, <2>1, <2>2, <2>3
<1>22. ledger' \in [Users -> [Assets -> Int]] /\ named' \in SUBSET Users
  <2>1. ledger \in [Users -> [Assets -> Int]]
    BY <1>0 DEF TypeOK
  <2> HIDE DEF legs
  <2>2. \A v \in Users, a \in Assets : ledger[v][a] + legs[v][a] \in Int
    BY <1>13, <2>1
  <2> QED
    BY <1>0, <1>11, <2>2 DEF TypeOK
<1>23. Reconciles'
  <2> HIDE DEF legs
  <2>1. \A v \in Users, a \in Assets : ledger'[v][a] = ledger[v][a] + legs[v][a]
    BY <1>11
  <2> QED
    BY <1>0, <1>14, <2>1 DEF Reconciles
<1>24. TypeOK'
  BY <1>14, <1>15, <1>17, <1>18, <1>19, <1>20, <1>21, <1>22 DEF TypeOK
<1> QED
  BY <1>23, <1>24 DEF Inv

\* Whatever becomes of an order, the invariant is kept: most refusals change
\* nothing, one leaves an empty entry and one locks and unlocks.
LEMMA CreateOrderInv ==
  ASSUME Inv, NEW m \in Assets, NEW side \in Sides \cup {"hold"}, NEW u \in Users, NEW type,
         NEW price \in Int, NEW quantity \in Int,
         CreateOrder(m, side, u, type, price, quantity)
  PROVE  Inv'
<1>0. TypeOK
  BY DEF Inv
<1>1. CASE Reject("NO_ORDERBOOK")
  BY <1>1, RejectInv
<1>2. CASE Reject("NO_LIQUIDITY")
  BY <1>2, RejectInv
<1>3. CASE ~(Reject("NO_ORDERBOOK") \/ Reject("NO_LIQUIDITY"))
  <2> DEFINE pays == Pays(m, side)
             need(asked) == Worth(pays, quantity, asked)
  <2>1. m \in Markets
    BY <1>3 DEF CreateOrder
  <2>2. PICK asked \in AskedPrice(m, side, type, price) :
          \/ Reject("INVALID_ORDER")
          \/ /\ held' = [held EXCEPT ![u] = @ \cup {pays}]
             /\ reply' = Rejected("INSUFFICIENT_FUNDS")
             /\ UNCHANGED <<book, lastTrade, bal, named, ledger, orders, volume>>
          \/ /\ held' = [held EXCEPT ![u] = @ \cup {pays}]
             /\ bal' = [bal EXCEPT ![u][pays] = Release(Lock(@, need(asked)), need(asked), Dust[pays])]
             /\ reply' = Rejected("INVALID_ORDER")
             /\ UNCHANGED <<book, lastTrade, named, ledger, orders, volume>>
          \/ side \in Sides /\ Accept(m, side, u, type, asked, quantity)
    BY <1>3 DEF CreateOrder
  <2>3. asked \in Int
    BY <1>0, <2>1, AskedPriceType
  <2>4. pays \in Assets
    BY <2>1, AssetFacts
  <2>5. Dust[pays] \in Nat
    BY <2>4, ConstantsAssumption
  <2>6. need(asked) \in Int
    BY <2>3, WorthType
  <2> HIDE DEF pays, need
  <2>7. /\ bal \in [Users -> [Assets -> Balance]] /\ held \in [Users -> SUBSET Assets]
        /\ book \in [Markets -> [Sides -> Seq(OrderOf(Users))]] /\ orders \in Seq(RowType)
    BY <1>0 DEF TypeOK
  <2>8. [held EXCEPT ![u] = @ \cup {pays}] \in [Users -> SUBSET Assets]
    BY <2>4, <2>7
  <2>9. CASE Reject("INVALID_ORDER")
    BY <2>9, RejectInv
  <2>10. CASE /\ held' = [held EXCEPT ![u] = @ \cup {pays}]
              /\ reply' = Rejected("INSUFFICIENT_FUNDS")
              /\ UNCHANGED <<book, lastTrade, bal, named, ledger, orders, volume>>
    <3>1. reply' \in ReplyType
      BY <2>10 DEF Rejected, ReplyType, Absent
    <3> QED
      BY <2>7, <2>8, <2>10, <3>1, SameTotals
  <2>11. CASE /\ held' = [held EXCEPT ![u] = @ \cup {pays}]
              /\ bal' = [bal EXCEPT ![u][pays] = Release(Lock(@, need(asked)), need(asked), Dust[pays])]
              /\ reply' = Rejected("INVALID_ORDER")
              /\ UNCHANGED <<book, lastTrade, named, ledger, orders, volume>>
    <3>1. reply' \in ReplyType
      BY <2>11 DEF Rejected, ReplyType, Absent
    <3> DEFINE b == bal[u][pays]
               c == Release(Lock(b, need(asked)), need(asked), Dust[pays])
    <3>2. b \in Balance
      BY <2>4, <2>7
    <3> HIDE DEF b
    <3>3. c \in Balance /\ c.available + c.locked = b.available + b.locked
      <4>1. /\ Lock(b, need(asked)) \in Balance
            /\ Lock(b, need(asked)).available + Lock(b, need(asked)).locked
                 = b.available + b.locked
        BY <2>6, <3>2, LockKeepsTotal
      <4> QED
        BY <2>5, <2>6, <4>1, ReleaseKeepsTotal
    <3>4. bal' = [bal EXCEPT ![u][pays] = c]
      BY <2>11 DEF b
    <3> HIDE DEF c
    <3>5. bal' \in [Users -> [Assets -> Balance]]
      BY <2>4, <2>7, <3>3, <3>4
    <3>6. \A v \in Users, a \in Assets :
            bal'[v][a].available + bal'[v][a].locked = bal[v][a].available + bal[v][a].locked
      BY <2>4, <2>7, <3>3, <3>4 DEF b
    <3> QED
      BY <2>7, <2>8, <2>11, <3>1, <3>5, <3>6, SameTotals
  <2>12. CASE side \in Sides /\ Accept(m, side, u, type, asked, quantity)
    BY <2>1, <2>3, <2>12, AcceptInv
  <2> QED
    BY <2>2, <2>9, <2>10, <2>11, <2>12
<1> QED
  BY <1>1, <1>2, <1>3

\* A cancel moves what the order kept locked back to its owner.
LEMMA CancelOrderInv ==
  ASSUME Inv, NEW m \in Assets, NEW id \in 0..Len(orders), CancelOrder(m, id)
  PROVE  Inv'
<1>0. TypeOK
  BY DEF Inv
<1>1. CASE Reject("NO_ORDERBOOK")
  BY <1>1, RejectInv
<1>2. CASE Reject("ORDER_NOT_FOUND")
  BY <1>2, RejectInv
<1>3. CASE ~(Reject("NO_ORDERBOOK") \/ Reject("ORDER_NOT_FOUND"))
  <2>1. m \in Markets
    BY <1>3 DEF CancelOrder
  <2> DEFINE Cancels(side, i) ==
          LET o    == book[m][side][i]
              pays == Pays(m, o.side)
          IN
          /\ book' = [book EXCEPT ![m][side] = RemoveAt(@, i)]
          /\ bal' = [bal EXCEPT ![o.user][pays] =
                       IF pays \in held[o.user]
                       THEN Release(@, Worth(pays, Remaining(o), o.price), Dust[pays])
                       ELSE @]
          /\ orders' = [orders EXCEPT ![id] = Increment(@, 0, "cancelled")]
          /\ reply' = Answered("ORDER_CANCELLED", id, o.filled)
          /\ UNCHANGED <<lastTrade, held, named, ledger, volume>>
  <2>1a. PICK side \in Sides : \E i \in PositionsOf(book[m][side], id) : Cancels(side, i)
    BY <1>3 DEF CancelOrder
  <2>2. PICK i \in PositionsOf(book[m][side], id) : Cancels(side, i)
    BY <2>1a
  <2> DEFINE o == book[m][side][i]
             pays == Pays(m, o.side)
             worth == Worth(pays, Remaining(o), o.price)
             b == bal[o.user][pays]
             c == IF pays \in held[o.user] THEN Release(b, worth, Dust[pays]) ELSE b
  <2>3. /\ bal \in [Users -> [Assets -> Balance]] /\ held \in [Users -> SUBSET Assets]
        /\ book \in [Markets -> [Sides -> Seq(OrderOf(Users))]] /\ orders \in Seq(RowType)
    BY <1>0 DEF TypeOK
  <2>4. book[m][side] \in Seq(OrderOf(Users)) /\ i \in DOMAIN book[m][side]
    BY <2>1, <2>3 DEF PositionsOf
  <2>5. o \in OrderOf(Users) /\ o.id = id
    BY <2>4 DEF PositionsOf
  <2>6. /\ book' = [book EXCEPT ![m][side] = RemoveAt(@, i)]
        /\ bal' = [bal EXCEPT ![o.user][pays] = c]
        /\ orders' = [orders EXCEPT ![id] = Increment(@, 0, "cancelled")]
        /\ reply' = Answered("ORDER_CANCELLED", id, o.filled)
        /\ UNCHANGED <<lastTrade, held, named, ledger, volume>>
    BY <2>2
  <2> HIDE DEF o
  <2>7. /\ o.user \in Users /\ o.side \in Sides /\ o.filled \in Int /\ o.price \in Int
        /\ Remaining(o) \in Int
    BY <2>5 DEF OrderOf, Remaining
  <2>8. pays \in Assets
    BY <2>1, AssetFacts
  <2>9. Dust[pays] \in Nat
    BY <2>8, ConstantsAssumption
  <2>10. worth \in Int
    BY <2>7, WorthType
  <2> HIDE DEF pays, worth
  <2>11. b \in Balance
    BY <2>3, <2>7, <2>8
  <2> HIDE DEF b
  <2>12. c \in Balance /\ c.available + c.locked = b.available + b.locked
    BY <2>9, <2>10, <2>11, ReleaseKeepsTotal
  <2> HIDE DEF c
  <2>13. bal' \in [Users -> [Assets -> Balance]]
    BY <2>3, <2>6, <2>7, <2>8, <2>12
  <2>14. \A v \in Users, a \in Assets :
           bal'[v][a].available + bal'[v][a].locked = bal[v][a].available + bal[v][a].locked
    BY <2>3, <2>6, <2>7, <2>8, <2>12 DEF b
  <2>15. book' \in [Markets -> [Sides -> Seq(OrderOf(Users))]]
    <3>1. RemoveAt(book[m][side], i) \in Seq(OrderOf(Users))
      BY <2>4, RemoveAtType
    <3> QED
      BY <2>1, <2>3, <2>6, <3>1
  <2>16. orders' \in Seq(RowType)
    <3>1. \A j \in DOMAIN orders : Increment(orders[j], 0, "cancelled") \in RowType
      <4> TAKE j \in DOMAIN orders
      <4>1. orders[j] \in RowType /\ 0 \in Int
        BY <2>3
      <4> QED
        BY <4>1, IncrementType
    <3>2. orders' = [j \in 1..Len(orders) |->
                       IF j = id THEN Increment(orders[j], 0, "cancelled") ELSE orders[j]]
      <4> DEFINE cancelled(r) == Increment(r, 0, "cancelled")
      <4>1. orders' = [orders EXCEPT ![id] = cancelled(orders[id])]
        BY <2>6
      <4>2. DOMAIN orders = 1..Len(orders)
        BY <2>3
      <4> HIDE DEF cancelled
      <4>3. orders' = [j \in 1..Len(orders) |->
                         IF j = id THEN cancelled(orders[j]) ELSE orders[j]]
        BY <4>1, <4>2
      <4> QED
        BY <4>3 DEF cancelled
    <3>3. \A j \in 1..Len(orders) : orders[j] \in RowType /\ j \in DOMAIN orders
      BY <2>3
    <3>4. Len(orders) \in Nat
      BY <2>3
    <3> QED
      BY <3>1, <3>2, <3>3, <3>4
  <2>17. reply' \in ReplyType
    <3>1. id \in Nat
      BY <2>3
    <3> QED
      BY <2>6, <2>7, <3>1 DEF Answered, ReplyType, Absent
  <2> QED
    BY <2>3, <2>6, <2>13, <2>14, <2>15, <2>16, <2>17, SameTotals
<1> QED
  BY <1>1, <1>2, <1>3

-----------------------------------------------------------------------------
(* Deposits *)

\* A credit enters the balance and the ledger alike.
LEMMA CreditInv ==
  ASSUME Inv, NEW u \in Users, NEW assets \in SUBSET Assets, NEW amount \in Int,
         Credit(u, assets, amount),
         reply' \in ReplyType, named' \in SUBSET Users,
         UNCHANGED <<book, lastTrade, orders, volume>>
  PROVE  Inv'
<1>1. /\ bal \in [Users -> [Assets -> Balance]] /\ held \in [Users -> SUBSET Assets]
      /\ ledger \in [Users -> [Assets -> Int]]
      /\ \A v \in Users, a \in Assets : bal[v][a].available + bal[v][a].locked = ledger[v][a]
  BY DEF Inv, TypeOK, Reconciles
<1> DEFINE b(a) == IF a \in assets THEN Adjust(bal[u][a], amount, 0) ELSE bal[u][a]
           l(a) == IF a \in assets THEN ledger[u][a] + amount ELSE ledger[u][a]
<1>2. /\ bal' = [bal EXCEPT ![u] = [a \in Assets |-> b(a)]]
      /\ held' = [held EXCEPT ![u] = @ \cup assets]
      /\ ledger' = [ledger EXCEPT ![u] = [a \in Assets |-> l(a)]]
  BY DEF Credit
<1>3. \A a \in Assets :
        b(a) \in Balance /\ l(a) \in Int /\ b(a).available + b(a).locked = l(a)
  <2> TAKE a \in Assets
  <2>1. /\ bal[u][a] \in Balance /\ ledger[u][a] \in Int
        /\ bal[u][a].available + bal[u][a].locked = ledger[u][a]
    BY <1>1
  <2>2. /\ Adjust(bal[u][a], amount, 0) \in Balance
        /\ Adjust(bal[u][a], amount, 0).available + Adjust(bal[u][a], amount, 0).locked
             = bal[u][a].available + bal[u][a].locked + amount + 0
    BY ONLY <2>1, amount \in Int, AdjustTotal, SMTT(30)
  <2> QED
    BY <2>1, <2>2
<1> HIDE DEF b, l
<1>4. bal' \in [Users -> [Assets -> Balance]] /\ ledger' \in [Users -> [Assets -> Int]]
  BY <1>1, <1>2, <1>3
<1>5. held' \in [Users -> SUBSET Assets]
  BY <1>1, <1>2
<1>6. TypeOK'
  BY <1>4, <1>5 DEF Inv, TypeOK
<1>7. Reconciles'
  <2> SUFFICES ASSUME NEW v \in Users, NEW a \in Assets
               PROVE  bal'[v][a].available + bal'[v][a].locked = ledger'[v][a]
    BY DEF Reconciles
  <2>1. CASE v = u
    <3>1. bal'[v][a] = b(a) /\ ledger'[v][a] = l(a)
      BY <1>1, <1>2, <2>1
    <3> QED
      BY <1>3, <3>1
  <2>2. CASE v # u
    <3>1. bal'[v][a] = bal[v][a] /\ ledger'[v][a] = ledger[v][a]
      BY <1>1, <1>2, <2>2
    <3> QED
      BY <1>1, <3>1
  <2> QED
    BY <2>1, <2>2
<1> QED
  BY <1>6, <1>7 DEF Inv

LEMMA OnRampInv ==
  ASSUME Inv, NEW u \in Users, NEW asset \in Assets \cup {Absent}, NEW amount \in Int,
         OnRamp(u, asset, amount)
  PROVE  Inv'
<1>1. CASE Reject("INVALID_AMOUNT")
  BY <1>1, RejectInv
<1>2. CASE ~Reject("INVALID_AMOUNT")
  <2> DEFINE credited == IF asset = Absent THEN Quote ELSE asset
  <2>1. /\ Credit(u, {credited}, amount)
        /\ reply' = Answered("ON_RAMP", 0, 0)
        /\ UNCHANGED <<book, lastTrade, named, orders, volume>>
    BY <1>2 DEF OnRamp
  <2>2. {credited} \in SUBSET Assets
    BY DEF Assets
  <2>3. reply' \in ReplyType
    BY <2>1 DEF Answered, ReplyType, Absent
  <2>4. named' \in SUBSET Users
    BY <2>1 DEF Inv, TypeOK
  <2> HIDE DEF credited
  <2> QED
    BY <2>1, <2>2, <2>3, <2>4, CreditInv
<1> QED
  BY <1>1, <1>2

LEMMA CreateUserInv ==
  ASSUME Inv, NEW name, NEW amount \in Int, CreateUser(name, amount)
  PROVE  Inv'
<1>1. CASE Reject("INVALID_USER")
  BY <1>1, RejectInv
<1>2. CASE ~Reject("INVALID_USER")
  <2>1. PICK u \in Users :
          /\ named' = named \cup {u}
          /\ IF amount > 0 THEN Credit(u, Assets, amount) ELSE UNCHANGED <<bal, held, ledger>>
          /\ reply' = Answered("CREATE_USER", Number[u], 0)
          /\ UNCHANGED <<book, lastTrade, orders, volume>>
    BY <1>2 DEF CreateUser
  <2>2. reply' \in ReplyType
    <3>1. Number[u] \in Nat
      BY ConstantsAssumption
    <3> QED
      BY <2>1, <3>1 DEF Answered, ReplyType, Absent
  <2>3. named' \in SUBSET Users
    BY <2>1 DEF Inv, TypeOK
  <2>4. CASE amount > 0
    BY <2>1, <2>2, <2>3, <2>4, CreditInv
  <2>5. CASE ~(amount > 0)
    <3>1. UNCHANGED <<book, lastTrade, bal, held, ledger, orders, volume>>
      BY <2>1, <2>5
    <3>2. TypeOK'
      BY <2>2, <2>3, <3>1 DEF Inv, TypeOK
    <3>3. Reconciles'
      BY <3>1 DEF Inv, Reconciles
    <3> QED
      BY <3>2, <3>3 DEF Inv
  <2> QED
    BY <2>4, <2>5
<1> QED
  BY <1>1, <1>2

-----------------------------------------------------------------------------
(* The theorems *)

\* The invariant is inductive.
LEMMA NextInv == Inv /\ [Next]_vars => Inv'
<1> SUFFICES ASSUME Inv, [Next]_vars PROVE Inv'
  OBVIOUS
<1>1. /\ \A x \in Prices \cup {0} : x \in Int
      /\ \A x \in Quantities \cup {0} : x \in Int
      /\ \A x \in Deposits \cup {0, -1} : x \in Int
  BY ConstantsAssumption
<1>2. ASSUME NEW m \in Assets, NEW side \in Sides \cup {"hold"}, NEW u \in Users,
             NEW quantity \in Quantities \cup {0},
             \/ \E price \in Prices \cup {0} : CreateOrder(m, side, u, "limit", price, quantity)
             \/ CreateOrder(m, side, u, "market", 0, quantity)
      PROVE  Inv'
  <2>1. CASE \E price \in Prices \cup {0} : CreateOrder(m, side, u, "limit", price, quantity)
    BY <1>1, <2>1, CreateOrderInv
  <2>2. CASE CreateOrder(m, side, u, "market", 0, quantity)
    <3>1. quantity \in Int /\ 0 \in Int
      BY <1>1
    <3> QED
      BY <2>2, <3>1, CreateOrderInv
  <2> QED
    BY <1>2, <2>1, <2>2
<1>3. ASSUME NEW m \in Assets, NEW id \in 0..Len(orders), CancelOrder(m, id)
      PROVE  Inv'
  BY <1>3, CancelOrderInv
<1>4. ASSUME NEW u \in Users, NEW asset \in Assets \cup {Absent}, NEW amount \in Deposits \cup {0},
             OnRamp(u, asset, amount)
      PROVE  Inv'
  BY <1>1, <1>4, OnRampInv
<1>5. ASSUME NEW name \in {Absent, "name"}, NEW amount \in Deposits \cup {0, -1},
             CreateUser(name, amount)
      PROVE  Inv'
  BY <1>1, <1>5, CreateUserInv
<1>6. CASE UnknownCommand
  BY <1>6, RejectInv DEF UnknownCommand
<1>7. CASE UNCHANGED vars
  <2>1. TypeOK'
    BY <1>7 DEF Inv, TypeOK, vars
  <2>2. Reconciles'
    BY <1>7 DEF Inv, Reconciles, vars
  <2> QED
    BY <2>1, <2>2 DEF Inv
<1> QED
  BY <1>2, <1>3, <1>4, <1>5, <1>6, <1>7 DEF Next

\* The state of the engine keeps its types: in particular every balance, every
\* ledger sum and every row stays what the database takes it for.
THEOREM TypeCorrect == Spec => []TypeOK
<1>1. Inv => TypeOK
  BY DEF Inv
<1> QED
  BY <1>1, InitInv, NextInv, PTL DEF Spec

\* The invariant pushLedger and GET /reconcile promise holds whatever is
\* ordered, matched, refused, cancelled or deposited.
THEOREM LedgerReconciles == Spec => []Reconciles
<1>1. Inv => Reconciles
  BY DEF Inv
<1> QED
  BY <1>1, InitInv, NextInv, PTL DEF Spec

-----------------------------------------------------------------------------
(* What a step can do *)

\* An account that cannot pay gets an empty entry.
RefusesForFunds(u, pays) ==
  /\ held' = [held EXCEPT ![u] = @ \cup {pays}]
  /\ reply' = Rejected("INSUFFICIENT_FUNDS")
  /\ UNCHANGED <<book, lastTrade, bal, named, ledger, orders, volume>>

\* An order with an unknown side is locked for and unlocked again.
TakesBack(u, pays, need) ==
  /\ held' = [held EXCEPT ![u] = @ \cup {pays}]
  /\ bal' = [bal EXCEPT ![u][pays] = Release(Lock(@, need), need, Dust[pays])]
  /\ reply' = Rejected("INVALID_ORDER")
  /\ UNCHANGED <<book, lastTrade, named, ledger, orders, volume>>

Places(m, side, u, type, price, quantity) ==
  /\ price > 0 /\ quantity \in Nat \ {0} /\ quantity \in Quantities
  /\ type # "market" => price \in Prices
  /\ CanPay(u, Pays(m, side), Worth(Pays(m, side), quantity, price))
  /\ Accept(m, side, u, type, price, quantity)

Cancels(m, side, i) ==
  LET o    == book[m][side][i]
      pays == Pays(m, o.side)
  IN  /\ book' = [book EXCEPT ![m][side] = RemoveAt(@, i)]
      /\ bal' = [bal EXCEPT ![o.user][pays] =
                   IF pays \in held[o.user]
                   THEN Release(@, Worth(pays, Remaining(o), o.price), Dust[pays])
                   ELSE @]
      /\ orders' = [orders EXCEPT ![o.id] = Increment(@, 0, "cancelled")]
      /\ reply' = Answered("ORDER_CANCELLED", o.id, o.filled)
      /\ UNCHANGED <<lastTrade, held, named, ledger, volume>>

\* A deposit, or the first deposit of a new account.
Deposited(u, assets, amount) ==
  /\ Credit(u, assets, amount)
  /\ \/ named' = named /\ reply'.type = "ON_RAMP"
     \/ /\ IsNextUserID(u) /\ named' = named \cup {u}
        /\ reply'.type = "CREATE_USER" /\ reply'.id = Number[u]
  /\ UNCHANGED <<book, lastTrade, orders, volume>>

\* A new account without money.
Enrols(u) ==
  /\ IsNextUserID(u)
  /\ named' = named \cup {u}
  /\ reply'.type = "CREATE_USER" /\ reply'.id = Number[u]
  /\ UNCHANGED <<book, lastTrade, bal, held, ledger, orders, volume>>

\* Everything a step of the engine can be.
Outcome ==
  \/ /\ reply'.type = "ORDER_REJECTED"
     /\ UNCHANGED <<book, lastTrade, bal, held, named, ledger, orders, volume>>
  \/ \E u \in Users, pays \in Assets : RefusesForFunds(u, pays)
  \/ \E u \in Users, pays \in Assets, need \in Nat : TakesBack(u, pays, need)
  \/ \E m \in Markets, side \in Sides, u \in Users, type \in {"limit", "market"}, price \in Int,
        quantity \in Int : Places(m, side, u, type, price, quantity)
  \/ \E m \in Markets, side \in Sides : \E i \in DOMAIN book[m][side] : Cancels(m, side, i)
  \/ \E u \in Users, assets \in SUBSET Assets, amount \in Nat \ {0} : Deposited(u, assets, amount)
  \/ \E u \in Users : Enrols(u)
  \/ UNCHANGED vars

LEMMA RejectOutcome ==
  ASSUME NEW code, Reject(code)
  PROVE  Outcome
BY DEF Reject, Rejected, Outcome

LEMMA WorthNat ==
  ASSUME NEW asset, NEW q \in Nat, NEW p \in Nat
  PROVE  Worth(asset, q, p) \in Nat
BY DEF Worth

LEMMA CreateOrderOutcome ==
  ASSUME TypeOK, NEW m \in Assets, NEW side \in Sides \cup {"hold"}, NEW u \in Users,
         NEW type \in {"limit", "market"}, NEW price \in Int, type # "market" => price \in Prices \cup {0},
         NEW quantity \in Quantities \cup {0},
         CreateOrder(m, side, u, type, price, quantity)
  PROVE  Outcome
<1>1. CASE Reject("NO_ORDERBOOK") \/ Reject("NO_LIQUIDITY") \/ Reject("INVALID_ORDER")
  BY <1>1, RejectOutcome
<1>2. CASE ~(Reject("NO_ORDERBOOK") \/ Reject("NO_LIQUIDITY") \/ Reject("INVALID_ORDER"))
  <2> DEFINE pays == Pays(m, side)
             need(asked) == Worth(pays, quantity, asked)
  <2>1. m \in Markets
    BY <1>2 DEF CreateOrder
  <2>2. PICK asked \in AskedPrice(m, side, type, price) :
          /\ asked > 0 /\ quantity > 0
          /\ \/ RefusesForFunds(u, pays)
             \/ TakesBack(u, pays, need(asked))
             \/ /\ side \in Sides /\ CanPay(u, pays, need(asked))
                /\ Accept(m, side, u, type, asked, quantity)
    BY <1>2 DEF CreateOrder, RefusesForFunds, TakesBack
  <2>3. asked \in Int /\ asked \in Nat
    <3>1. asked \in Int
      BY <2>1, <2>2, AskedPriceType
    <3> QED
      BY <2>2, <3>1
  <2>4. pays \in Assets
    BY <2>1, AssetFacts
  <2>5. quantity \in Nat \ {0} /\ quantity \in Quantities /\ quantity \in Int
    BY <2>2, ConstantsAssumption
  <2>6. type # "market" => asked \in Prices
    <3> SUFFICES ASSUME type # "market" PROVE asked \in Prices
      OBVIOUS
    <3>1. asked = price
      BY <2>2 DEF AskedPrice
    <3> QED
      BY <2>2, <3>1
  <2>7. need(asked) \in Nat
    BY <2>3, <2>5, WorthNat
  <2>8. CASE RefusesForFunds(u, pays)
    BY <2>4, <2>8 DEF Outcome
  <2>9. CASE TakesBack(u, pays, need(asked))
    <3> HIDE DEF pays, need
    <3> QED
      BY <2>4, <2>7, <2>9 DEF Outcome
  <2>10. CASE /\ side \in Sides /\ CanPay(u, pays, need(asked))
              /\ Accept(m, side, u, type, asked, quantity)
    <3>1. Places(m, side, u, type, asked, quantity)
      BY <2>2, <2>5, <2>6, <2>10 DEF Places
    <3> QED
      BY <2>1, <2>3, <2>5, <2>10, <3>1 DEF Outcome
  <2> QED
    BY <2>2, <2>8, <2>9, <2>10
<1> QED
  BY <1>1, <1>2

LEMMA CancelOrderOutcome ==
  ASSUME NEW m \in Assets, NEW id, CancelOrder(m, id)
  PROVE  Outcome
<1>1. CASE Reject("NO_ORDERBOOK") \/ Reject("ORDER_NOT_FOUND")
  BY <1>1, RejectOutcome
<1>2. CASE ~(Reject("NO_ORDERBOOK") \/ Reject("ORDER_NOT_FOUND"))
  <2>1. m \in Markets
    BY <1>2 DEF CancelOrder
  <2>2. PICK side \in Sides : \E i \in PositionsOf(book[m][side], id) : Cancels(m, side, i)
    <3>1. PICK side \in Sides : \E i \in PositionsOf(book[m][side], id) :
            LET o    == book[m][side][i]
                pays == Pays(m, o.side)
            IN
            /\ book' = [book EXCEPT ![m][side] = RemoveAt(@, i)]
            /\ bal' = [bal EXCEPT ![o.user][pays] =
                         IF pays \in held[o.user]
                         THEN Release(@, Worth(pays, Remaining(o), o.price), Dust[pays])
                         ELSE @]
            /\ orders' = [orders EXCEPT ![id] = Increment(@, 0, "cancelled")]
            /\ reply' = Answered("ORDER_CANCELLED", id, o.filled)
            /\ UNCHANGED <<lastTrade, held, named, ledger, volume>>
      BY <1>2 DEF CancelOrder
    <3>2. \A i \in PositionsOf(book[m][side], id) : book[m][side][i].id = id
      BY DEF PositionsOf
    <3> QED
      BY <3>1, <3>2 DEF Cancels
  <2>3. PICK i \in DOMAIN book[m][side] : Cancels(m, side, i)
    BY <2>2 DEF PositionsOf
  <2> QED
    BY <2>1, <2>3 DEF Outcome
<1> QED
  BY <1>1, <1>2

LEMMA OnRampOutcome ==
  ASSUME NEW u \in Users, NEW asset \in Assets \cup {Absent}, NEW amount \in Deposits \cup {0},
         OnRamp(u, asset, amount)
  PROVE  Outcome
<1>1. CASE Reject("INVALID_AMOUNT")
  BY <1>1, RejectOutcome
<1>2. CASE ~Reject("INVALID_AMOUNT")
  <2> DEFINE credited == IF asset = Absent THEN Quote ELSE asset
  <2>1. /\ amount > 0
        /\ Credit(u, {credited}, amount)
        /\ reply' = Answered("ON_RAMP", 0, 0)
        /\ UNCHANGED <<book, lastTrade, named, orders, volume>>
    BY <1>2 DEF OnRamp
  <2>2. {credited} \in SUBSET Assets /\ amount \in Nat \ {0}
    BY <2>1, ConstantsAssumption DEF Assets
  <2> HIDE DEF credited
  <2>3. Deposited(u, {credited}, amount)
    BY <2>1 DEF Deposited, Answered
  <2> QED
    BY <2>2, <2>3 DEF Outcome
<1> QED
  BY <1>1, <1>2

LEMMA CreateUserOutcome ==
  ASSUME NEW name, NEW amount \in Deposits \cup {0, -1}, CreateUser(name, amount)
  PROVE  Outcome
<1>1. CASE Reject("INVALID_USER")
  BY <1>1, RejectOutcome
<1>2. CASE ~Reject("INVALID_USER")
  <2>1. PICK u \in Users :
          /\ IsNextUserID(u)
          /\ named' = named \cup {u}
          /\ IF amount > 0 THEN Credit(u, Assets, amount) ELSE UNCHANGED <<bal, held, ledger>>
          /\ reply' = Answered("CREATE_USER", Number[u], 0)
          /\ UNCHANGED <<book, lastTrade, orders, volume>>
    BY <1>2 DEF CreateUser
  <2>2. reply'.type = "CREATE_USER" /\ reply'.id = Number[u]
    BY <2>1 DEF Answered
  <2>3. CASE amount > 0
    <3>1. amount \in Nat \ {0} /\ Assets \in SUBSET Assets
      BY <2>3, ConstantsAssumption
    <3>2. Deposited(u, Assets, amount)
      BY <2>1, <2>2, <2>3 DEF Deposited
    <3> QED
      BY <3>1, <3>2 DEF Outcome
  <2>4. CASE ~(amount > 0)
    <3>1. Enrols(u)
      BY <2>1, <2>2, <2>4 DEF Enrols
    <3> QED
      BY <3>1 DEF Outcome
  <2> QED
    BY <2>3, <2>4
<1> QED
  BY <1>1, <1>2

LEMMA NextOutcome ==
  ASSUME TypeOK, [Next]_vars
  PROVE  Outcome
<1>1. ASSUME NEW m \in Assets, NEW side \in Sides \cup {"hold"}, NEW u \in Users,
             NEW quantity \in Quantities \cup {0}, NEW price \in Prices \cup {0},
             CreateOrder(m, side, u, "limit", price, quantity)
      PROVE  Outcome
  <2>1. price \in Int
    BY ConstantsAssumption
  <2> QED
    BY <1>1, <2>1, CreateOrderOutcome
<1>2. ASSUME NEW m \in Assets, NEW side \in Sides \cup {"hold"}, NEW u \in Users,
             NEW quantity \in Quantities \cup {0},
             CreateOrder(m, side, u, "market", 0, quantity)
      PROVE  Outcome
  BY <1>2, CreateOrderOutcome
<1>3. ASSUME NEW m \in Assets, NEW id \in 0..Len(orders), CancelOrder(m, id)
      PROVE  Outcome
  BY <1>3, CancelOrderOutcome
<1>4. ASSUME NEW u \in Users, NEW asset \in Assets \cup {Absent}, NEW amount \in Deposits \cup {0},
             OnRamp(u, asset, amount)
      PROVE  Outcome
  BY <1>4, OnRampOutcome
<1>5. ASSUME NEW name, NEW amount \in Deposits \cup {0, -1}, CreateUser(name, amount)
      PROVE  Outcome
  BY <1>5, CreateUserOutcome
<1>6. CASE UnknownCommand
  BY <1>6, RejectOutcome DEF UnknownCommand
<1>7. CASE UNCHANGED vars
  BY <1>7 DEF Outcome
<1> QED
  BY <1>1, <1>2, <1>3, <1>4, <1>5, <1>6, <1>7 DEF Next

-----------------------------------------------------------------------------
(* What an accepted order does to the books *)

Taker(side, u, price, quantity) ==
  [id |-> Len(orders) + 1, user |-> u, side |-> side,
   price |-> price, quantity |-> quantity, filled |-> 0]

Makers(m, side) == book[m][Opposite(side)]

Given(m, side, u, price, quantity) ==
  FilledQty(Makers(m, side), Taker(side, u, price, quantity))

\* The side traded against, and the taker's own.
Far(m, side, u, price, quantity) ==
  RemoveFullyFilled(WithFills(Makers(m, side), Given(m, side, u, price, quantity)), Dust[m])

Rest(m, side, u, price, quantity) ==
  [Taker(side, u, price, quantity) EXCEPT !.quantity = @ - Total(Given(m, side, u, price, quantity))]

Near(m, side, u, type, price, quantity) ==
  IF type # "market" /\ Total(Given(m, side, u, price, quantity)) < quantity
  THEN InsertInOrder(book[m][side], Rest(m, side, u, price, quantity))
  ELSE book[m][side]

NewRow(m, side, u, type, price, quantity) ==
  LET executed == Total(Given(m, side, u, price, quantity))
  IN  [user |-> u, market |-> m, side |-> side,
       quantity |-> FormatNum(quantity, QtyTick), executed |-> executed,
       status |-> IF executed >= quantity THEN "filled"
                  ELSE IF type # "market" THEN "open" ELSE "partially_filled"]

\* An order, the makers it meets and what they give it are of their types.
LEMMA TradeTypes ==
  ASSUME TypeOK, NEW m \in Markets, NEW side \in Sides, NEW u \in Users,
         NEW price \in Int, NEW quantity \in Int
  PROVE  /\ Opposite(side) \in Sides /\ Opposite(side) # side /\ Opposite(Opposite(side)) = side
         /\ book[m][side] \in Seq(OrderOf(Users))
         /\ Makers(m, side) \in Seq(OrderOf(Users))
         /\ Len(orders) \in Nat
         /\ Taker(side, u, price, quantity) \in OrderOf(Users)
         /\ Given(m, side, u, price, quantity) \in Seq(Int)
         /\ Given(m, side, u, price, quantity) \in [DOMAIN Makers(m, side) -> Int]
         /\ Total(Given(m, side, u, price, quantity)) \in Int
         /\ Rest(m, side, u, price, quantity) \in OrderOf(Users)
<1>1. Opposite(side) \in Sides /\ Opposite(side) # side /\ Opposite(Opposite(side)) = side
  BY DEF Opposite, Sides
<1>2. book[m][side] \in Seq(OrderOf(Users)) /\ Makers(m, side) \in Seq(OrderOf(Users))
  BY <1>1 DEF TypeOK, Makers
<1>3. Len(orders) \in Nat
  <2>1. orders \in Seq(RowType)
    BY DEF TypeOK
  <2> QED
    BY <2>1
<1>4. Taker(side, u, price, quantity) \in OrderOf(Users)
  BY <1>3 DEF Taker, OrderOf
<1>5. /\ Given(m, side, u, price, quantity) \in Seq(Int)
      /\ Given(m, side, u, price, quantity) \in [DOMAIN Makers(m, side) -> Int]
  BY <1>2, <1>4, FilledQtyType DEF Given
<1>6. Total(Given(m, side, u, price, quantity)) \in Int
  BY <1>5, TotalType
<1>7. Rest(m, side, u, price, quantity) \in OrderOf(Users)
  <2> DEFINE executed == Total(Given(m, side, u, price, quantity))
  <2>1. executed \in Int /\ quantity - executed \in Int
    BY <1>6
  <2>2. Rest(m, side, u, price, quantity)
          = [Taker(side, u, price, quantity) EXCEPT !.quantity = quantity - executed]
    BY DEF Rest, Taker
  <2> HIDE DEF executed
  <2> QED
    BY <1>4, <2>1, <2>2 DEF OrderOf
<1> QED
  BY <1>1, <1>2, <1>3, <1>4, <1>5, <1>6, <1>7

\* The rows and the answer of an accepted order.
LEMMA AcceptRows ==
  ASSUME NEW m, NEW side, NEW u, NEW type, NEW price, NEW quantity,
         Accept(m, side, u, type, price, quantity)
  PROVE  /\ orders' = OrderRows(NewRow(m, side, u, type, price, quantity), Makers(m, side),
                                Given(m, side, u, price, quantity))
         /\ reply'.type = "ORDER_PLACED"
         /\ named' = named
BY DEF Accept, Answered, Makers, Given, Taker, NewRow

\* Accept changes the two sides of its book.
LEMMA AcceptLists ==
  ASSUME TypeOK, NEW m \in Markets, NEW side \in Sides, NEW u \in Users, NEW type,
         NEW price \in Int, NEW quantity \in Int,
         Accept(m, side, u, type, price, quantity),
         NEW n \in Markets, NEW s \in Sides
  PROVE  book'[n][s] = IF n # m THEN book[n][s]
                       ELSE IF s = side THEN Near(m, side, u, type, price, quantity)
                       ELSE Far(m, side, u, price, quantity)
<1> DEFINE executed == Total(Given(m, side, u, price, quantity))
           far == Far(m, side, u, price, quantity)
           rest == Rest(m, side, u, price, quantity)
<1>1. book' = [book EXCEPT ![m][Opposite(side)] = far,
                           ![m][side] = IF type # "market" /\ executed < quantity
                                        THEN InsertInOrder(@, rest) ELSE @]
  BY DEF Accept, Far, Rest, Makers, Given, Taker
<1> HIDE DEF far, rest, executed
<1>2. book \in [Markets -> [Sides -> Seq(OrderOf(Users))]]
  BY DEF TypeOK
<1>3. Opposite(side) \in Sides /\ Opposite(side) # side /\ (s # side => s = Opposite(side))
  BY DEF Opposite, Sides
<1>4. book'[n][s] = IF n # m THEN book[n][s]
                    ELSE IF s = side
                    THEN IF type # "market" /\ executed < quantity
                         THEN InsertInOrder(book[m][side], rest) ELSE book[m][side]
                    ELSE far
  BY <1>1, <1>2, <1>3
<1> QED
  BY <1>4 DEF Near, far, rest, executed

\* A cancelled order leaves its list; the others stay as they were.
LEMMA CancelLists ==
  ASSUME TypeOK, NEW m \in Markets, NEW side \in Sides, NEW i \in DOMAIN book[m][side],
         Cancels(m, side, i), NEW n \in Markets, NEW s \in Sides
  PROVE  book'[n][s] = IF n = m /\ s = side THEN RemoveAt(book[m][side], i) ELSE book[n][s]
<1> DEFINE left == RemoveAt(book[m][side], i)
<1>1. book' = [book EXCEPT ![m][side] = left]
  BY DEF Cancels
<1>2. book \in [Markets -> [Sides -> Seq(OrderOf(Users))]]
  BY DEF TypeOK
<1> HIDE DEF left
<1>3. book'[n][s] = IF n = m /\ s = side THEN left ELSE book[n][s]
  BY <1>1, <1>2
<1> QED
  BY <1>3 DEF left

\* A maker after its fill.
Filled(maker, q) == [maker EXCEPT !.filled = @ + q]

LEMMA FilledType ==
  ASSUME NEW maker \in OrderOf(Users), NEW q \in Int
  PROVE  /\ Filled(maker, q) \in OrderOf(Users)
         /\ Filled(maker, q).id = maker.id /\ Filled(maker, q).user = maker.user
         /\ Filled(maker, q).side = maker.side /\ Filled(maker, q).price = maker.price
         /\ Filled(maker, q).quantity = maker.quantity
         /\ Filled(maker, q).filled = maker.filled + q
         /\ Remaining(Filled(maker, q)) = Remaining(maker) - q
BY DEF Filled, OrderOf, Remaining

\* far[k] is the maker at h[k] after its fill: the makers with more than dust
\* remaining, in their order.
KeptAt(makers, qty, dust, far, h) ==
  /\ h \in [1..Len(far) -> 1..Len(makers)]
  /\ \A k \in 1..Len(far) :
       far[k] = Filled(makers[h[k]], qty[h[k]]) /\ Remaining(far[k]) > dust
  /\ \A k, l \in 1..Len(far) : k < l => h[k] < h[l]
  /\ \A i \in 1..Len(makers) :
       Remaining(Filled(makers[i], qty[i])) > dust => \E k \in 1..Len(far) : h[k] = i

LEMMA FarSide ==
  ASSUME TypeOK, NEW m \in Markets, NEW side \in Sides, NEW u \in Users,
         NEW price \in Int, NEW quantity \in Int
  PROVE  /\ Far(m, side, u, price, quantity) \in Seq(OrderOf(Users))
         /\ \E h : KeptAt(Makers(m, side), Given(m, side, u, price, quantity), Dust[m],
                          Far(m, side, u, price, quantity), h)
<1> DEFINE makers == Makers(m, side)
           qty == Given(m, side, u, price, quantity)
           far == Far(m, side, u, price, quantity)
           list == WithFills(makers, qty)
<1>1. makers \in Seq(OrderOf(Users)) /\ qty \in [DOMAIN makers -> Int]
  BY TradeTypes
<1>2. list \in Seq(OrderOf(Users)) /\ Len(list) = Len(makers)
  <2> HIDE DEF makers, qty
  <2> QED
    BY <1>1, WithFillsType
<1>3. \A i \in 1..Len(makers) : list[i] = Filled(makers[i], qty[i])
  BY <1>1 DEF WithFills, Filled
<1>4. far = RemoveFullyFilled(list, Dust[m])
  BY DEF Far
<1> HIDE DEF makers, qty, far, list
<1>5. far \in Seq(OrderOf(Users))
  BY <1>2, <1>4, RemoveFullyFilledType
<1>6. PICK h \in [1..Len(far) -> 1..Len(list)] :
        /\ \A k \in 1..Len(far) : far[k] = list[h[k]] /\ Remaining(list[h[k]]) > Dust[m]
        /\ \A k, l \in 1..Len(far) : k < l => h[k] < h[l]
        /\ \A i \in 1..Len(list) :
             Remaining(list[i]) > Dust[m] => \E k \in 1..Len(far) : h[k] = i
  BY <1>2, <1>4, RemoveFullyFilledKeeps
<1>7. h \in [1..Len(far) -> 1..Len(makers)]
  BY <1>2, <1>6
<1>8. \A k \in 1..Len(far) : h[k] \in 1..Len(makers)
  BY <1>7
<1>9. /\ \A k \in 1..Len(far) :
           far[k] = Filled(makers[h[k]], qty[h[k]]) /\ Remaining(far[k]) > Dust[m]
      /\ \A i \in 1..Len(makers) :
           Remaining(Filled(makers[i], qty[i])) > Dust[m] => \E k \in 1..Len(far) : h[k] = i
  BY <1>2, <1>3, <1>6, <1>8
<1>10. KeptAt(makers, qty, Dust[m], far, h)
  BY <1>6, <1>7, <1>9 DEF KeptAt
<1> QED
  BY <1>5, <1>10 DEF makers, qty, far

\* What the loop takes: FillsInOrder of the taker's makers.
LEMMA GivenInOrder ==
  ASSUME TypeOK, NEW m \in Markets, NEW side \in Sides, NEW u \in Users,
         NEW price \in Int, NEW quantity \in Nat
  PROVE  LET makers == Makers(m, side)
             taker == Taker(side, u, price, quantity)
             qty == Given(m, side, u, price, quantity)
         IN  /\ \A i \in DOMAIN makers : 0 <= qty[i] /\ qty[i] <= Offer(taker, makers[i])
             /\ \A i, j \in DOMAIN makers :
                  i < j /\ qty[j] > 0 => qty[i] = Offer(taker, makers[i])
             /\ 0 <= Total(qty) /\ Total(qty) <= quantity
             /\ Total(qty) < quantity => \A i \in DOMAIN makers : qty[i] = Offer(taker, makers[i])
<1> DEFINE makers == Makers(m, side)
           taker == Taker(side, u, price, quantity)
<1>1. makers \in Seq(OrderOf(Users)) /\ taker \in OrderOf(Users)
  BY TradeTypes
<1>2. taker.quantity = quantity
  BY DEF Taker
<1> HIDE DEF makers, taker
<1>3. taker.quantity >= 0
  BY <1>2
<1>4. Given(m, side, u, price, quantity) = FilledQty(makers, taker)
  BY DEF Given, makers, taker
<1> QED
  BY <1>1, <1>2, <1>3, <1>4, FillsInOrder DEF makers, taker

-----------------------------------------------------------------------------
(* The invariant of the books *)

\* Every order is filed under its own side, with an id that was issued.
Filed ==
  \A m \in Markets, side \in Sides : \A i \in DOMAIN book[m][side] :
    /\ book[m][side][i].side = side
    /\ book[m][side][i].id \in 1..Len(orders)

\* No order is on the books twice.
OnceOnBook ==
  \A m, n \in Markets, s, t \in Sides : \A i \in DOMAIN book[m][s], j \in DOMAIN book[n][t] :
    book[m][s][i].id = book[n][t][j].id => m = n /\ s = t /\ i = j


\* new holds orders of old, each at most once, with their identity and price,
\* and perhaps one that is issued now.
Descends(old, new, issued) ==
  \E g \in [DOMAIN new -> 0..Len(old)] :
    /\ \A k, l \in DOMAIN new : k # l => g[k] # g[l]
    /\ \A k \in DOMAIN new :
         IF g[k] = 0 THEN new[k] \in issued
         ELSE new[k].id = old[g[k]].id /\ new[k].price = old[g[k]].price
                /\ new[k].side = old[g[k]].side /\ new[k].user = old[g[k]].user

LEMMA SameDescends ==
  ASSUME NEW old \in Seq(OrderOf(Users))
  PROVE  Descends(old, old, {})
<1>1. DOMAIN old = 1..Len(old) /\ Len(old) \in Nat
  OBVIOUS
<1> DEFINE g == [k \in DOMAIN old |-> k]
<1>2. g \in [DOMAIN old -> 0..Len(old)] /\ \A k \in DOMAIN old : g[k] = k /\ g[k] # 0
  BY <1>1
<1> HIDE DEF g
<1> QED
  BY <1>2 DEF Descends

LEMMA FarDescends ==
  ASSUME TypeOK, NEW m \in Markets, NEW side \in Sides, NEW u \in Users,
         NEW price \in Int, NEW quantity \in Int
  PROVE  Descends(Makers(m, side), Far(m, side, u, price, quantity), {})
<1> DEFINE makers == Makers(m, side)
           qty == Given(m, side, u, price, quantity)
           far == Far(m, side, u, price, quantity)
<1>1. makers \in Seq(OrderOf(Users)) /\ qty \in [DOMAIN makers -> Int]
  BY TradeTypes
<1>2. PICK h : KeptAt(makers, qty, Dust[m], far, h)
  BY FarSide
<1>3. far \in Seq(OrderOf(Users))
  BY FarSide
<1> HIDE DEF makers, qty, far
<1>4. DOMAIN far = 1..Len(far) /\ Len(far) \in Nat /\ DOMAIN makers = 1..Len(makers) /\ Len(makers) \in Nat
  BY <1>1, <1>3
<1>5. h \in [DOMAIN far -> 0..Len(makers)] /\ \A k \in DOMAIN far : h[k] # 0
  BY <1>2, <1>4 DEF KeptAt
<1>6. \A k, l \in DOMAIN far : k # l => h[k] # h[l]
  <2> TAKE k, l \in DOMAIN far
  <2>1. k \in Int /\ l \in Int /\ h[k] \in Int /\ h[l] \in Int
    BY <1>2, <1>4 DEF KeptAt
  <2>2. (k < l => h[k] < h[l]) /\ (l < k => h[l] < h[k])
    BY <1>2, <1>4 DEF KeptAt
  <2> QED
    BY <2>1, <2>2
<1>7. \A k \in DOMAIN far : far[k].id = makers[h[k]].id /\ far[k].price = makers[h[k]].price
                              /\ far[k].side = makers[h[k]].side /\ far[k].user = makers[h[k]].user
  <2> TAKE k \in DOMAIN far
  <2> DEFINE maker == makers[h[k]]
             q == qty[h[k]]
  <2>1. maker \in OrderOf(Users) /\ q \in Int
    <3>1. h[k] \in DOMAIN makers
      BY <1>2, <1>4 DEF KeptAt
    <3> QED
      BY <1>1, <3>1
  <2>2. far[k] = Filled(maker, q)
    BY <1>2, <1>4 DEF KeptAt
  <2> HIDE DEF maker, q
  <2>3. far[k].id = maker.id /\ far[k].price = maker.price /\ far[k].side = maker.side
        /\ far[k].user = maker.user
    BY <2>1, <2>2, FilledType
  <2> QED
    BY <2>3 DEF maker
<1>8. Descends(makers, far, {})
  BY <1>5, <1>6, <1>7 DEF Descends
<1> QED
  BY <1>8 DEF makers, far

\* near holds the orders of old, each once, and the rest of a new one.
JoinedAt(old, rest, rests, near, g) ==
  /\ g \in [DOMAIN near -> 0..Len(old)]
  /\ \A k, l \in DOMAIN near : k # l => g[k] # g[l]
  /\ \A k \in DOMAIN near :
       IF g[k] = 0 THEN near[k] = rest /\ rests ELSE near[k] = old[g[k]]
  /\ \A i \in DOMAIN old : \E k \in DOMAIN near : g[k] = i
  /\ rests => \E k \in DOMAIN near : g[k] = 0

\* Something of the order is left for the book.
Rests(m, side, u, type, price, quantity) ==
  type # "market" /\ Total(Given(m, side, u, price, quantity)) < quantity

\* The taker's own side holds what it held and, when something of a limit
\* order is left, the rest of it.
LEMMA NearSide ==
  ASSUME TypeOK, NEW m \in Markets, NEW side \in Sides, NEW u \in Users, NEW type,
         NEW price \in Int, NEW quantity \in Int
  PROVE  /\ Near(m, side, u, type, price, quantity) \in Seq(OrderOf(Users))
         /\ \E g : JoinedAt(book[m][side], Rest(m, side, u, price, quantity),
                            Rests(m, side, u, type, price, quantity),
                            Near(m, side, u, type, price, quantity), g)
<1> DEFINE old == book[m][side]
           near == Near(m, side, u, type, price, quantity)
           rest == Rest(m, side, u, price, quantity)
           p == InsertPosition(old, rest)
           rests == Rests(m, side, u, type, price, quantity)
<1>1. old \in Seq(OrderOf(Users)) /\ rest \in OrderOf(Users)
  BY TradeTypes
<1>2. near = IF rests THEN InsertInOrder(old, rest) ELSE old
  BY DEF Near, Rests
<1> HIDE DEF old, near, rest, rests, p
<1>3. DOMAIN old = 1..Len(old) /\ Len(old) \in Nat
  BY <1>1
<1>4. CASE rests
  <2>1. near = InsertInOrder(old, rest)
    BY <1>2, <1>4
  <2>2. near \in Seq(OrderOf(Users))
    BY <1>1, <2>1, InsertInOrderType
  <2>3. p \in 1..(Len(old) + 1)
    BY <1>1, InsertPositionExists DEF p
  <2>4. /\ Len(near) = Len(old) + 1
        /\ \A k \in 1..Len(near) :
             near[k] = IF k < p THEN old[k] ELSE IF k = p THEN rest ELSE old[k - 1]
    BY <1>1, <2>1, InsertedWhere DEF p
  <2>5. DOMAIN near = 1..(Len(old) + 1)
    BY <2>2, <2>4
  <2> DEFINE g == [k \in DOMAIN near |-> IF k < p THEN k ELSE IF k = p THEN 0 ELSE k - 1]
  <2>6. g \in [DOMAIN near -> 0..Len(old)]
    BY <1>3, <2>3, <2>5
  <2>7. \A k, l \in DOMAIN near : k # l => g[k] # g[l]
    BY <1>3, <2>3, <2>5
  <2>8. \A k \in DOMAIN near : IF g[k] = 0 THEN near[k] = rest ELSE near[k] = old[g[k]]
    BY <1>3, <2>3, <2>4, <2>5
  <2>9. \A i \in DOMAIN old : \E k \in DOMAIN near : g[k] = i
    <3> TAKE i \in DOMAIN old
    <3>1. i < p \/ (i + 1 > p /\ i + 1 \in DOMAIN near)
      BY <1>3, <2>3, <2>5
    <3>2. CASE i < p
      BY <1>3, <2>5, <3>2
    <3>3. CASE i + 1 > p /\ i + 1 \in DOMAIN near
      <4>1. g[i + 1] = i
        BY <1>3, <2>3, <3>3
      <4> HIDE DEF g
      <4> QED
        BY <3>3, <4>1
    <3> QED
      BY <3>1, <3>2, <3>3
  <2>10. \E k \in DOMAIN near : g[k] = 0
    BY <2>3, <2>5
  <2> HIDE DEF g
  <2>11. JoinedAt(old, rest, rests, near, g)
    BY <1>4, <2>6, <2>7, <2>8, <2>9, <2>10 DEF JoinedAt
  <2> QED
    BY <2>2, <2>11 DEF old, near, rest, rests
<1>5. CASE ~rests
  <2>1. near = old
    BY <1>2, <1>5
  <2> DEFINE g == [k \in DOMAIN near |-> k]
  <2>2. /\ g \in [DOMAIN near -> 0..Len(old)]
        /\ \A k \in DOMAIN near : g[k] = k /\ g[k] # 0
    BY <1>3, <2>1
  <2> HIDE DEF g
  <2>3. JoinedAt(old, rest, rests, near, g)
    BY <1>5, <2>1, <2>2 DEF JoinedAt
  <2> QED
    BY <1>1, <2>1, <2>3 DEF old, near, rest, rests
<1> QED
  BY <1>4, <1>5

LEMMA CancelDescends ==
  ASSUME NEW old \in Seq(OrderOf(Users)), NEW p \in DOMAIN old
  PROVE  Descends(old, RemoveAt(old, p), {})
<1> DEFINE new == RemoveAt(old, p)
<1>1. /\ Len(new) = Len(old) - 1
      /\ \A k \in 1..(Len(old) - 1) : new[k] = IF k < p THEN old[k] ELSE old[k + 1]
  BY RemovedWhere
<1>2. new \in Seq(OrderOf(Users))
  BY RemoveAtType
<1> HIDE DEF new
<1>3. DOMAIN new = 1..(Len(old) - 1) /\ Len(old) \in Nat /\ p \in 1..Len(old)
  BY <1>1, <1>2
<1> DEFINE g == [k \in DOMAIN new |-> IF k < p THEN k ELSE k + 1]
<1>4. g \in [DOMAIN new -> 0..Len(old)]
  BY <1>3
<1>5. \A k, l \in DOMAIN new : k # l => g[k] # g[l]
  BY <1>3
<1>6. \A k \in DOMAIN new : g[k] # 0 /\ new[k] = old[g[k]]
  BY <1>1, <1>3
<1> HIDE DEF g
<1>7. Descends(old, new, {})
  BY <1>4, <1>5, <1>6 DEF Descends
<1> QED
  BY <1>7 DEF new

LEMMA NearDescends ==
  ASSUME TypeOK, NEW m \in Markets, NEW side \in Sides, NEW u \in Users, NEW type,
         NEW price \in Int, NEW quantity \in Int
  PROVE  Descends(book[m][side], Near(m, side, u, type, price, quantity),
                  {Rest(m, side, u, price, quantity)})
<1> DEFINE old == book[m][side]
           near == Near(m, side, u, type, price, quantity)
           rest == Rest(m, side, u, price, quantity)
           rests == Rests(m, side, u, type, price, quantity)
<1>1. PICK g : JoinedAt(old, rest, rests, near, g)
  BY NearSide
<1> HIDE DEF old, near, rest, rests
<1>2. Descends(old, near, {rest})
  BY <1>1 DEF Descends, JoinedAt
<1> QED
  BY <1>2 DEF old, near, rest

\* Accept adds one row; nothing else does.
LEMMA AcceptAddsOneRow ==
  ASSUME TypeOK, NEW m \in Markets, NEW side \in Sides, NEW u \in Users, NEW type,
         NEW price \in Int, NEW quantity \in Int,
         Accept(m, side, u, type, price, quantity)
  PROVE  Len(orders') = Len(orders) + 1
<1> DEFINE id == Len(orders) + 1
           row == NewRow(m, side, u, type, price, quantity)
           makers == Makers(m, side)
           qty == Given(m, side, u, price, quantity)
           madeBy(o) == Total([i \in DOMAIN makers |-> IF makers[i].id = o THEN qty[i] ELSE 0])
           new(o) == IF o = id THEN row
                     ELSE IF madeBy(o) = 0 THEN orders[o]
                     ELSE Increment(orders[o], madeBy(o), Absent)
<1>1. orders' = OrderRows(row, makers, qty)
  BY AcceptRows
<1> HIDE DEF row, makers, qty
<1>2. OrderRows(row, makers, qty) = [o \in 1..id |-> new(o)]
  BY DEF OrderRows
<1>3. id \in Nat
  BY TradeTypes
<1> HIDE DEF new, id
<1>4. orders' = [o \in 1..id |-> new(o)]
  BY <1>1, <1>2
<1>5. Len(orders') = id
  BY <1>3, <1>4
<1> QED
  BY <1>5 DEF id

\* The books after a step hold what they held, and what is issued on one side.
Traced(m, side, issued) ==
  \A n \in Markets, s \in Sides :
    Descends(book[n][s], book'[n][s], IF n = m /\ s = side THEN issued ELSE {})

\* Where the orders of the books come from, in any step.
LEMMA StepDescends ==
  ASSUME TypeOK, Outcome
  PROVE  \E m, side, issued :
           /\ Traced(m, side, issued)
           /\ \/ issued = {} /\ Len(orders') = Len(orders)
              \/ \E rest : /\ issued = {rest} /\ Len(orders') = Len(orders) + 1
                           /\ rest.id = Len(orders') /\ rest.side = side
<1>1. \A n \in Markets, s \in Sides : book[n][s] \in Seq(OrderOf(Users))
  BY DEF TypeOK
<1>2. orders \in Seq(RowType) /\ Len(orders) \in Nat
  BY TypeOK DEF TypeOK
<1>3. ASSUME UNCHANGED <<book, orders>>
      PROVE  /\ Len(orders') = Len(orders)
             /\ \A n \in Markets, s \in Sides : Descends(book[n][s], book'[n][s], {})
  <2>1. ASSUME NEW n \in Markets, NEW s \in Sides
        PROVE  Descends(book[n][s], book'[n][s], {})
    <3>1. book'[n][s] = book[n][s]
      BY <1>3
    <3>2. Descends(book[n][s], book[n][s], {})
      BY <1>1, SameDescends
    <3> QED
      BY <3>1, <3>2
  <2> QED
    BY <1>3, <2>1
<1>4. ASSUME NEW m \in Markets, NEW side \in Sides, NEW i \in DOMAIN book[m][side], Cancels(m, side, i)
      PROVE  /\ Len(orders') = Len(orders)
             /\ \A n \in Markets, s \in Sides : Descends(book[n][s], book'[n][s], {})
  <2>1. Len(orders') = Len(orders)
    <3> DEFINE id == book[m][side][i].id
               row == Increment(orders[id], 0, "cancelled")
    <3>1. orders' = [orders EXCEPT ![id] = row]
      BY <1>4 DEF Cancels
    <3> HIDE DEF id, row
    <3> QED
      BY <1>2, <3>1
  <2>2. ASSUME NEW n \in Markets, NEW s \in Sides
        PROVE  Descends(book[n][s], book'[n][s], {})
    <3>1. CASE n = m /\ s = side
      <4>1. book'[n][s] = RemoveAt(book[n][s], i) /\ i \in DOMAIN book[n][s]
        BY <1>4, <3>1, CancelLists
      <4>2. Descends(book[n][s], RemoveAt(book[n][s], i), {})
        BY <1>1, <4>1, CancelDescends
      <4> QED
        BY <4>1, <4>2
    <3>2. CASE ~(n = m /\ s = side)
      <4>1. book'[n][s] = book[n][s]
        BY <1>4, <3>2, CancelLists
      <4> QED
        BY <1>1, <4>1, SameDescends
    <3> QED
      BY <3>1, <3>2
  <2> QED
    BY <2>1, <2>2
<1>5. ASSUME NEW m \in Markets, NEW side \in Sides, NEW u \in Users, NEW type,
             NEW price \in Int, NEW quantity \in Int, Accept(m, side, u, type, price, quantity)
      PROVE  \E rest :
               /\ Len(orders') = Len(orders) + 1
               /\ rest.id = Len(orders') /\ rest.side = side
               /\ Traced(m, side, {rest})
  <2> DEFINE rest == Rest(m, side, u, price, quantity)
  <2>1. Len(orders') = Len(orders) + 1
    BY <1>5, AcceptAddsOneRow
  <2>2. rest.id = Len(orders) + 1 /\ rest.side = side
    BY DEF Rest, Taker
  <2>3. ASSUME NEW n \in Markets, NEW s \in Sides
        PROVE  Descends(book[n][s], book'[n][s], IF n = m /\ s = side THEN {rest} ELSE {})
    <3>1. CASE n = m /\ s = side
      <4>1. book'[n][s] = Near(m, side, u, type, price, quantity)
        BY <1>5, <3>1, AcceptLists
      <4>2. Descends(book[m][side], Near(m, side, u, type, price, quantity), {rest})
        BY NearDescends
      <4> HIDE DEF rest
      <4> QED
        BY <3>1, <4>1, <4>2
    <3>2. CASE n = m /\ s # side
      <4>1. book'[n][s] = Far(m, side, u, price, quantity)
        BY <1>5, <3>2, AcceptLists
      <4>2. book[n][s] = Makers(m, side)
        BY <3>2 DEF Makers, Opposite, Sides
      <4>3. Descends(Makers(m, side), Far(m, side, u, price, quantity), {})
        BY FarDescends
      <4> HIDE DEF rest
      <4> QED
        BY <3>2, <4>1, <4>2, <4>3
    <3>3. CASE n # m
      <4>1. book'[n][s] = book[n][s]
        BY <1>5, <3>3, AcceptLists
      <4>2. Descends(book[n][s], book[n][s], {})
        BY <1>1, SameDescends
      <4> HIDE DEF rest
      <4> QED
        BY <3>3, <4>1, <4>2
    <3> QED
      BY <3>1, <3>2, <3>3
  <2> HIDE DEF rest
  <2>4. Traced(m, side, {rest})
    BY <2>3 DEF Traced
  <2> QED
    BY <2>1, <2>2, <2>4
<1>6. Outcome => \/ UNCHANGED <<book, orders>>
                 \/ \E m \in Markets, side \in Sides : \E i \in DOMAIN book[m][side] : Cancels(m, side, i)
                 \/ \E m \in Markets, side \in Sides, u \in Users, type \in {"limit", "market"},
                       price \in Int, quantity \in Int : Accept(m, side, u, type, price, quantity)
  BY DEF Outcome, RefusesForFunds, TakesBack, Places, Deposited, Enrols, vars
<1>7. CASE \/ UNCHANGED <<book, orders>>
            \/ \E m \in Markets, side \in Sides : \E i \in DOMAIN book[m][side] : Cancels(m, side, i)
  <2>1. /\ Len(orders') = Len(orders)
        /\ \A n \in Markets, s \in Sides : Descends(book[n][s], book'[n][s], {})
    <3>1. CASE UNCHANGED <<book, orders>>
      BY ONLY <1>3, <3>1
    <3>2. CASE \E m \in Markets, side \in Sides : \E i \in DOMAIN book[m][side] : Cancels(m, side, i)
      <4>1. PICK m \in Markets, side \in Sides : \E i \in DOMAIN book[m][side] : Cancels(m, side, i)
        BY <3>2
      <4>2. PICK i \in DOMAIN book[m][side] : Cancels(m, side, i)
        BY <4>1
      <4> QED
        BY ONLY <1>4, <4>2, m \in Markets, side \in Sides, i \in DOMAIN book[m][side]
    <3> QED
      BY <1>7, <3>1, <3>2
  <2>2. Traced("none", "none", {})
    BY <2>1 DEF Traced
  <2> QED
    BY <2>1, <2>2
<1>8. CASE \E m \in Markets, side \in Sides, u \in Users, type \in {"limit", "market"},
              price \in Int, quantity \in Int : Accept(m, side, u, type, price, quantity)
  <2>1. PICK m \in Markets, side \in Sides, u \in Users, type \in {"limit", "market"},
             price \in Int, quantity \in Int : Accept(m, side, u, type, price, quantity)
    BY <1>8
  <2>2. PICK rest : /\ Len(orders') = Len(orders) + 1
                    /\ rest.id = Len(orders') /\ rest.side = side
                    /\ Traced(m, side, {rest})
    BY <1>5, <2>1
  <2> QED
    BY <2>2
<1> QED
  BY <1>6, <1>7, <1>8

-----------------------------------------------------------------------------
(* Each order once *)

\* The identity of the orders on the books survives every step.
LEMMA FiledOnce ==
  ASSUME TypeOK, Filed, OnceOnBook, Outcome
  PROVE  Filed' /\ OnceOnBook'
<1> DEFINE next == Len(orders) + 1
<1>0. Len(orders) \in Nat
  <2>1. orders \in Seq(RowType)
    BY DEF TypeOK
  <2> QED
    BY <2>1
<1>1. PICK m, side, issued :
        /\ Traced(m, side, issued)
        /\ \/ issued = {} /\ Len(orders') = Len(orders)
           \/ \E rest : /\ issued = {rest} /\ Len(orders') = Len(orders) + 1
                        /\ rest.id = Len(orders') /\ rest.side = side
  BY StepDescends
<1> DEFINE issuedAt(n, s) == IF n = m /\ s = side THEN issued ELSE {}
           From(n, s, g) ==
             /\ g \in [DOMAIN book'[n][s] -> 0..Len(book[n][s])]
             /\ \A k, l \in DOMAIN book'[n][s] : k # l => g[k] # g[l]
             /\ \A k \in DOMAIN book'[n][s] :
                  IF g[k] = 0 THEN book'[n][s][k] \in issuedAt(n, s)
                  ELSE book'[n][s][k].id = book[n][s][g[k]].id
                         /\ book'[n][s][k].side = book[n][s][g[k]].side
<1>2. \A n \in Markets, s \in Sides : \E g : From(n, s, g)
  <2> TAKE n \in Markets, s \in Sides
  <2>1. Descends(book[n][s], book'[n][s], issuedAt(n, s))
    BY <1>1 DEF Traced
  <2> HIDE DEF issuedAt
  <2> QED
    BY <2>1 DEF Descends
<1>3. \A n \in Markets, s \in Sides : DOMAIN book[n][s] = 1..Len(book[n][s]) /\ Len(book[n][s]) \in Nat
  BY DEF TypeOK
<1>4. ASSUME NEW n \in Markets, NEW s \in Sides, NEW g, From(n, s, g), NEW k \in DOMAIN book'[n][s]
      PROVE  \/ /\ g[k] = 0 /\ n = m /\ s = side
                /\ book'[n][s][k].id = next /\ Len(orders') = next /\ book'[n][s][k].side = side
             \/ /\ g[k] \in DOMAIN book[n][s]
                /\ book'[n][s][k].id = book[n][s][g[k]].id
                /\ book'[n][s][k].side = s
                /\ book'[n][s][k].id \in 1..Len(orders)
  <2>1. CASE g[k] = 0
    BY <1>1, <1>4, <2>1
  <2>2. CASE g[k] # 0
    <3>1. g[k] \in DOMAIN book[n][s]
      BY <1>3, <1>4, <2>2
    <3> QED
      BY <1>4, <2>2, <3>1 DEF Filed
  <2> QED
    BY <2>1, <2>2
<1>5. Filed'
  <2> SUFFICES ASSUME NEW n \in Markets, NEW s \in Sides, NEW k \in DOMAIN book'[n][s]
               PROVE  book'[n][s][k].side = s /\ book'[n][s][k].id \in 1..Len(orders')
    BY DEF Filed
  <2>1. PICK g : From(n, s, g)
    BY <1>2
  <2> HIDE DEF From
  <2>2. \/ s = side /\ book'[n][s][k].id = next /\ Len(orders') = next /\ book'[n][s][k].side = side
        \/ book'[n][s][k].side = s /\ book'[n][s][k].id \in 1..Len(orders)
    BY <1>4, <2>1
  <2> QED
    BY <1>0, <1>1, <2>2
<1>6. ASSUME NEW n \in Markets, NEW p \in Markets, NEW s \in Sides, NEW t \in Sides,
             NEW i \in DOMAIN book[n][s], NEW j \in DOMAIN book[p][t],
             book[n][s][i].id = book[p][t][j].id
      PROVE  n = p /\ s = t /\ i = j
  BY <1>6 DEF OnceOnBook
<1>7. ASSUME NEW n \in Markets, NEW s \in Sides, NEW k \in DOMAIN book'[n][s], NEW l \in DOMAIN book'[n][s],
             k # l
      PROVE  book'[n][s][k].id # book'[n][s][l].id
  <2>1. PICK g : From(n, s, g)
    BY <1>2
  <2>2. g[k] # g[l]
    BY <1>7, <2>1
  <2> HIDE DEF From
  <2> DEFINE a == g[k]
             b == g[l]
  <2>3. \/ a = 0 /\ book'[n][s][k].id = next
        \/ /\ a \in DOMAIN book[n][s] /\ book'[n][s][k].id = book[n][s][a].id
           /\ book'[n][s][k].id \in 1..Len(orders)
    BY <1>4, <2>1
  <2>4. \/ b = 0 /\ book'[n][s][l].id = next
        \/ /\ b \in DOMAIN book[n][s] /\ book'[n][s][l].id = book[n][s][b].id
           /\ book'[n][s][l].id \in 1..Len(orders)
    BY <1>4, <2>1
  <2>5. a # b
    BY <2>2
  <2> HIDE DEF a, b
  <2>6. CASE a \in DOMAIN book[n][s] /\ b \in DOMAIN book[n][s]
             /\ book'[n][s][k].id = book[n][s][a].id /\ book'[n][s][l].id = book[n][s][b].id
    <3>1. book[n][s][a].id # book[n][s][b].id
      BY <1>6, <2>5, <2>6
    <3> QED
      BY <2>6, <3>1
  <2> QED
    BY <1>0, <2>3, <2>4, <2>5, <2>6
<1>8. ASSUME NEW n \in Markets, NEW p \in Markets, NEW s \in Sides, NEW t \in Sides,
             NEW k \in DOMAIN book'[n][s], NEW l \in DOMAIN book'[p][t], ~(n = p /\ s = t)
      PROVE  book'[n][s][k].id # book'[p][t][l].id
  <2>1. PICK g : From(n, s, g)
    BY <1>2
  <2>2. PICK h : From(p, t, h)
    BY <1>2
  <2> HIDE DEF From
  <2> DEFINE a == g[k]
             b == h[l]
  <2>3. \/ n = m /\ s = side /\ book'[n][s][k].id = next
        \/ /\ a \in DOMAIN book[n][s] /\ book'[n][s][k].id = book[n][s][a].id
           /\ book'[n][s][k].id \in 1..Len(orders)
    BY <1>4, <2>1
  <2>4. \/ p = m /\ t = side /\ book'[p][t][l].id = next
        \/ /\ b \in DOMAIN book[p][t] /\ book'[p][t][l].id = book[p][t][b].id
           /\ book'[p][t][l].id \in 1..Len(orders)
    BY <1>4, <2>2
  <2> HIDE DEF a, b
  <2>5. CASE a \in DOMAIN book[n][s] /\ b \in DOMAIN book[p][t]
             /\ book'[n][s][k].id = book[n][s][a].id /\ book'[p][t][l].id = book[p][t][b].id
    <3>1. book[n][s][a].id # book[p][t][b].id
      BY <1>6, <1>8, <2>5
    <3> QED
      BY <2>5, <3>1
  <2> QED
    BY <1>0, <1>8, <2>3, <2>4, <2>5
<1>9. OnceOnBook'
  BY <1>7, <1>8 DEF OnceOnBook
<1> QED
  BY <1>5, <1>9

-----------------------------------------------------------------------------
(* Price-time order *)

LEMMA OrderByList ==
  PriceTimeOrder <=> \A m \in Markets, side \in Sides : InOrder(side, book[m][side])
BY DEF PriceTimeOrder, InOrder

\* The makers left are in the order they were in.
LEMMA FarInOrder ==
  ASSUME TypeOK, PriceTimeOrder, NEW m \in Markets, NEW side \in Sides, NEW u \in Users,
         NEW price \in Int, NEW quantity \in Int
  PROVE  InOrder(Opposite(side), Far(m, side, u, price, quantity))
<1> DEFINE makers == Makers(m, side)
           qty == Given(m, side, u, price, quantity)
           far == Far(m, side, u, price, quantity)
<1>1. makers \in Seq(OrderOf(Users)) /\ qty \in [DOMAIN makers -> Int] /\ Opposite(side) \in Sides
  BY TradeTypes
<1>2. far \in Seq(OrderOf(Users))
  BY FarSide
<1>3. PICK h : KeptAt(makers, qty, Dust[m], far, h)
  BY FarSide
<1>4. InOrder(Opposite(side), makers)
  BY <1>1, OrderByList DEF Makers
<1> HIDE DEF makers, qty, far
<1>5. DOMAIN far = 1..Len(far) /\ Len(far) \in Nat /\ DOMAIN makers = 1..Len(makers)
  BY <1>1, <1>2
<1>6. \A k \in 1..Len(far) : h[k] \in DOMAIN makers
  BY <1>3, <1>5 DEF KeptAt
<1>7. \A k \in 1..Len(far) : far[k].price = makers[h[k]].price /\ far[k].id = makers[h[k]].id
  <2> TAKE k \in 1..Len(far)
  <2> DEFINE maker == makers[h[k]]
             q == qty[h[k]]
  <2>1. maker \in OrderOf(Users) /\ q \in Int
    BY <1>1, <1>6
  <2>2. far[k] = Filled(maker, q)
    BY <1>3 DEF KeptAt
  <2> HIDE DEF maker, q
  <2>3. far[k].price = maker.price /\ far[k].id = maker.id
    BY <2>1, <2>2, FilledType
  <2> QED
    BY <2>3 DEF maker
<1>8. \A k, l \in 1..Len(far) : k < l => h[k] < h[l]
  BY <1>3 DEF KeptAt
<1>9. InOrder(Opposite(side), far)
  BY <1>4, <1>5, <1>6, <1>7, <1>8 DEF InOrder
<1> QED
  BY <1>9 DEF far

\* A new order has the youngest id, and goes behind those at its price.
LEMMA NearInOrder ==
  ASSUME TypeOK, Filed, PriceTimeOrder, NEW m \in Markets, NEW side \in Sides, NEW u \in Users,
         NEW type, NEW price \in Int, NEW quantity \in Int
  PROVE  InOrder(side, Near(m, side, u, type, price, quantity))
<1> DEFINE old == book[m][side]
           rest == Rest(m, side, u, price, quantity)
<1>1. old \in Seq(OrderOf(Users)) /\ rest \in OrderOf(Users) /\ Len(orders) \in Nat
  BY TradeTypes
<1>2. InOrder(side, old)
  BY OrderByList
<1>3. rest.id = Len(orders) + 1 /\ rest.side = side
  BY DEF Rest, Taker
<1>4. \A i \in DOMAIN old : old[i].id \in 1..Len(orders)
  BY DEF Filed
<1>5. Near(m, side, u, type, price, quantity) = InsertInOrder(old, rest)
        \/ Near(m, side, u, type, price, quantity) = old
  BY DEF Near
<1> HIDE DEF old, rest
<1>6. \A i \in DOMAIN old : old[i].id < rest.id
  BY <1>1, <1>3, <1>4
<1>7. InOrder(side, InsertInOrder(old, rest))
  BY <1>1, <1>2, <1>3, <1>6, InsertionInOrder
<1> QED
  BY <1>2, <1>5, <1>7

\* What a step can do to the books.
LEMMA BookOutcome ==
  ASSUME Outcome
  PROVE  \/ UNCHANGED <<book, orders>>
         \/ \E m \in Markets, side \in Sides : \E i \in DOMAIN book[m][side] : Cancels(m, side, i)
         \/ \E m \in Markets, side \in Sides, u \in Users, type \in {"limit", "market"},
               price \in Int, quantity \in Int : Places(m, side, u, type, price, quantity)
BY DEF Outcome, RefusesForFunds, TakesBack, Deposited, Enrols, vars

LEMMA OrderKept ==
  ASSUME TypeOK, Filed, PriceTimeOrder, Outcome
  PROVE  PriceTimeOrder'
<1>1. \A m \in Markets, side \in Sides : InOrder(side, book[m][side])
  BY OrderByList
<1>2. ASSUME NEW n \in Markets, NEW s \in Sides
      PROVE  InOrder(s, book'[n][s])
  <2>1. CASE UNCHANGED <<book, orders>>
    <3>1. book'[n][s] = book[n][s]
      BY <2>1
    <3> QED
      BY <1>1, <3>1
  <2>2. ASSUME NEW m \in Markets, NEW side \in Sides, NEW i \in DOMAIN book[m][side],
               Cancels(m, side, i)
        PROVE  InOrder(s, book'[n][s])
    <3>1. CASE n = m /\ s = side
      <4>1. book'[n][s] = RemoveAt(book[m][side], i) /\ book[m][side] \in Seq(OrderOf(Users))
        BY <2>2, <3>1, CancelLists DEF TypeOK
      <4>2. InOrder(side, book[m][side])
        BY <1>1
      <4>3. InOrder(side, RemoveAt(book[m][side], i))
        BY <4>1, <4>2, RemovalInOrder
      <4> QED
        BY <3>1, <4>1, <4>3
    <3>2. CASE ~(n = m /\ s = side)
      <4>1. book'[n][s] = book[n][s]
        BY <2>2, <3>2, CancelLists
      <4> QED
        BY <1>1, <4>1
    <3> QED
      BY <3>1, <3>2
  <2>3. ASSUME NEW m \in Markets, NEW side \in Sides, NEW u \in Users, NEW type,
               NEW price \in Int, NEW quantity \in Int, Accept(m, side, u, type, price, quantity)
        PROVE  InOrder(s, book'[n][s])
    <3>1. CASE n # m
      <4>1. book'[n][s] = book[n][s]
        BY <2>3, <3>1, AcceptLists
      <4> QED
        BY <1>1, <4>1
    <3>2. CASE n = m /\ s = side
      <4>1. book'[n][s] = Near(m, side, u, type, price, quantity)
        BY <2>3, <3>2, AcceptLists
      <4> QED
        BY <3>2, <4>1, NearInOrder
    <3>3. CASE n = m /\ s # side
      <4>1. book'[n][s] = Far(m, side, u, price, quantity)
        BY <2>3, <3>3, AcceptLists
      <4>2. s = Opposite(side)
        BY <3>3 DEF Opposite, Sides
      <4> QED
        BY <4>1, <4>2, FarInOrder
    <3> QED
      BY <3>1, <3>2, <3>3
  <2>4. CASE \E m \in Markets, side \in Sides : \E i \in DOMAIN book[m][side] : Cancels(m, side, i)
    BY <2>2, <2>4
  <2>5. CASE \E m \in Markets, side \in Sides, u \in Users, type \in {"limit", "market"},
                price \in Int, quantity \in Int : Places(m, side, u, type, price, quantity)
    BY <2>3, <2>5 DEF Places
  <2> QED
    BY <2>1, <2>4, <2>5, BookOutcome
<1> QED
  BY <1>2 DEF PriceTimeOrder, InOrder

-----------------------------------------------------------------------------
(* No crossed book *)

\* No price of one list crosses a price of the other.
Apart(side, near, far) ==
  \A i \in DOMAIN near, j \in DOMAIN far : Better(side, far[j].price, near[i].price)

LEMMA UncrossedApart ==
  ASSUME TypeOK
  PROVE  Uncrossed <=>
           \A m \in Markets, side \in Sides : Apart(side, book[m][side], book[m][Opposite(side)])
<1>1. \A m \in Markets, side \in Sides : \A i \in DOMAIN book[m][side] : book[m][side][i].price \in Int
  <2> TAKE m \in Markets, side \in Sides
  <2> TAKE i \in DOMAIN book[m][side]
  <2>1. book[m][side] \in Seq(OrderOf(Users))
    BY DEF TypeOK
  <2>2. book[m][side][i] \in OrderOf(Users)
    BY <2>1
  <2> QED
    BY <2>2 DEF OrderOf
<1>2. ASSUME Uncrossed, NEW m \in Markets, NEW side \in Sides
      PROVE  Apart(side, book[m][side], book[m][Opposite(side)])
  BY <1>1, <1>2 DEF Uncrossed, Apart, Opposite, Sides, Better
<1>3. ASSUME \A m \in Markets, side \in Sides : Apart(side, book[m][side], book[m][Opposite(side)])
      PROVE  Uncrossed
  <2> SUFFICES ASSUME NEW m \in Markets, NEW i \in DOMAIN book[m]["buy"], NEW j \in DOMAIN book[m]["sell"]
               PROVE  book[m]["buy"][i].price < book[m]["sell"][j].price
    BY DEF Uncrossed
  <2>1. Apart("buy", book[m]["buy"], book[m]["sell"])
    BY <1>3 DEF Opposite, Sides
  <2>2. Better("buy", book[m]["sell"][j].price, book[m]["buy"][i].price)
    BY <2>1 DEF Apart
  <2>3. book[m]["buy"][i].price \in Int /\ book[m]["sell"][j].price \in Int
    BY <1>1 DEF Sides
  <2> QED
    BY <2>2, <2>3 DEF Better
<1> QED
  BY <1>2, <1>3

LEMMA ApartMirrored ==
  ASSUME NEW side \in Sides, NEW near \in Seq(OrderOf(Users)), NEW far \in Seq(OrderOf(Users)),
         Apart(side, near, far)
  PROVE  Apart(Opposite(side), far, near)
<1>1. \A i \in DOMAIN near : near[i].price \in Int
  <2> TAKE i \in DOMAIN near
  <2>1. near[i] \in OrderOf(Users)
    OBVIOUS
  <2> QED
    BY <2>1 DEF OrderOf
<1>2. \A j \in DOMAIN far : far[j].price \in Int
  <2> TAKE j \in DOMAIN far
  <2>1. far[j] \in OrderOf(Users)
    OBVIOUS
  <2> QED
    BY <2>1 DEF OrderOf
<1> QED
  BY <1>1, <1>2 DEF Apart, Opposite, Sides, Better

\* Orders that only leave do not cross what stays.
LEMMA DescendsApart ==
  ASSUME NEW side, NEW near, NEW far, NEW newNear, NEW newFar,
         DOMAIN near = 1..Len(near), DOMAIN far = 1..Len(far), Len(near) \in Nat, Len(far) \in Nat,
         Apart(side, near, far), Descends(near, newNear, {}), Descends(far, newFar, {})
  PROVE  Apart(side, newNear, newFar)
<1>1. ASSUME NEW old, NEW new, DOMAIN old = 1..Len(old), Len(old) \in Nat, Descends(old, new, {}),
             NEW k \in DOMAIN new
      PROVE  \E i \in DOMAIN old : new[k].price = old[i].price
  <2>1. PICK g \in [DOMAIN new -> 0..Len(old)] :
          \A l \in DOMAIN new :
             IF g[l] = 0 THEN new[l] \in {} ELSE new[l].price = old[g[l]].price
    BY <1>1 DEF Descends
  <2>2. g[k] \in 0..Len(old) /\ g[k] # 0
    BY <2>1
  <2> QED
    BY <1>1, <2>1, <2>2
<1> SUFFICES ASSUME NEW k \in DOMAIN newNear, NEW l \in DOMAIN newFar
             PROVE  Better(side, newFar[l].price, newNear[k].price)
  BY DEF Apart
<1>2. PICK i \in DOMAIN near : newNear[k].price = near[i].price
  BY <1>1
<1>3. PICK j \in DOMAIN far : newFar[l].price = far[j].price
  BY <1>1
<1> QED
  BY <1>2, <1>3 DEF Apart

\* A maker left by an order that rests does not cross it: it would have given
\* everything and be gone.
LEMMA LeftDoesNotCross ==
  ASSUME TypeOK, NEW m \in Markets, NEW side \in Sides, NEW u \in Users, NEW type,
         NEW price \in Int, NEW quantity \in Nat,
         Rests(m, side, u, type, price, quantity),
         NEW l \in DOMAIN Far(m, side, u, price, quantity)
  PROVE  Better(side, Far(m, side, u, price, quantity)[l].price, price)
<1> DEFINE makers == Makers(m, side)
           taker == Taker(side, u, price, quantity)
           qty == Given(m, side, u, price, quantity)
           far == Far(m, side, u, price, quantity)
<1>1. /\ makers \in Seq(OrderOf(Users)) /\ qty \in [DOMAIN makers -> Int]
      /\ taker \in OrderOf(Users)
  BY TradeTypes
<1>2. taker.side = side /\ taker.price = price
  BY DEF Taker
<1>3. Total(qty) < quantity
  BY DEF Rests
<1>4. \A i \in DOMAIN makers : qty[i] = Offer(taker, makers[i])
  BY <1>3, GivenInOrder
<1>5. far \in Seq(OrderOf(Users))
  BY FarSide
<1>6. PICK h : KeptAt(makers, qty, Dust[m], far, h)
  BY FarSide
<1>7. Dust[m] \in Nat
  BY ConstantsAssumption DEF Assets
<1>8. l \in DOMAIN far
  OBVIOUS
<1> HIDE DEF makers, taker, qty, far
<1> DEFINE i == h[l]
           maker == makers[i]
           q == qty[i]
<1>9. i \in DOMAIN makers /\ far[l] = Filled(maker, q) /\ Remaining(far[l]) > Dust[m]
  BY <1>1, <1>5, <1>6, <1>8, SMTT(30) DEF KeptAt
<1>10. maker \in OrderOf(Users) /\ q \in Int /\ q = Offer(taker, maker)
  BY <1>1, <1>4, <1>9
<1> HIDE DEF i, maker, q
<1>11. Crosses(taker, maker) => Remaining(Filled(maker, q)) <= 0
  BY <1>1, <1>10, GivingAllLeavesNothing DEF Filled
<1>12. Remaining(far[l]) \in Int /\ far[l].price = maker.price
  <2>1. far[l].price = maker.price /\ Remaining(far[l]) = Remaining(maker) - q
    BY <1>9, <1>10, FilledType
  <2>2. Remaining(maker) \in Int
    BY <1>10 DEF Remaining, OrderOf
  <2> QED
    BY <1>10, <2>1, <2>2
<1>13. ~Crosses(taker, maker)
  BY <1>7, <1>9, <1>11, <1>12
<1>14. Better(side, maker.price, price)
  BY <1>2, <1>13 DEF Crosses
<1> QED
  BY <1>12, <1>14 DEF far

LEMMA TradedApart ==
  ASSUME TypeOK, Uncrossed, NEW m \in Markets, NEW side \in Sides, NEW u \in Users, NEW type,
         NEW price \in Int, NEW quantity \in Nat
  PROVE  Apart(side, Near(m, side, u, type, price, quantity), Far(m, side, u, price, quantity))
<1> DEFINE old == book[m][side]
           near == Near(m, side, u, type, price, quantity)
           rest == Rest(m, side, u, price, quantity)
           rests == Rests(m, side, u, type, price, quantity)
           makers == Makers(m, side)
           far == Far(m, side, u, price, quantity)
<1>1. old \in Seq(OrderOf(Users)) /\ makers \in Seq(OrderOf(Users))
  BY TradeTypes
<1>2. Apart(side, old, makers)
  BY UncrossedApart DEF Makers
<1>3. PICK g : JoinedAt(old, rest, rests, near, g)
  BY NearSide
<1>4. Descends(makers, far, {})
  BY FarDescends
<1>5. rests => \A l \in DOMAIN far : Better(side, far[l].price, price)
  BY LeftDoesNotCross
<1>6. rest.price = price
  BY DEF Rest, Taker
<1> HIDE DEF old, near, rest, rests, makers, far
<1>7. Apart(side, old, far)
  <2>1. Descends(old, old, {})
    BY <1>1, SameDescends
  <2>2. DOMAIN old = 1..Len(old) /\ DOMAIN makers = 1..Len(makers) /\ Len(old) \in Nat /\ Len(makers) \in Nat
    BY <1>1
  <2> QED
    BY <1>2, <1>4, <2>1, <2>2, DescendsApart
<1>8. ASSUME NEW k \in DOMAIN near, NEW l \in DOMAIN far
      PROVE  Better(side, far[l].price, near[k].price)
  <2>1. CASE g[k] = 0
    BY <1>3, <1>5, <1>6, <2>1 DEF JoinedAt
  <2>2. CASE g[k] # 0
    <3>1. g[k] \in DOMAIN old /\ near[k] = old[g[k]]
      BY <1>1, <1>3, <2>2 DEF JoinedAt
    <3> QED
      BY <1>7, <3>1 DEF Apart
  <2> QED
    BY <2>1, <2>2
<1>9. Apart(side, near, far)
  BY <1>8 DEF Apart
<1> QED
  BY <1>9 DEF near, far

LEMMA UncrossedKept ==
  ASSUME TypeOK, Uncrossed, Outcome, TypeOK'
  PROVE  Uncrossed'
<1>1. \A m \in Markets, side \in Sides : Apart(side, book[m][side], book[m][Opposite(side)])
  BY UncrossedApart
<1>2. \A m \in Markets, side \in Sides :
        /\ book[m][side] \in Seq(OrderOf(Users)) /\ book'[m][side] \in Seq(OrderOf(Users))
        /\ Opposite(side) \in Sides /\ Opposite(side) # side /\ Opposite(Opposite(side)) = side
  BY DEF TypeOK, Opposite, Sides
<1>3. ASSUME NEW n \in Markets, NEW s \in Sides,
             Descends(book[n][s], book'[n][s], {}),
             Descends(book[n][Opposite(s)], book'[n][Opposite(s)], {})
      PROVE  Apart(s, book'[n][s], book'[n][Opposite(s)])
  <2> DEFINE near == book[n][s]
             far == book[n][Opposite(s)]
             newNear == book'[n][s]
             newFar == book'[n][Opposite(s)]
  <2>1. near \in Seq(OrderOf(Users)) /\ far \in Seq(OrderOf(Users)) /\ Apart(s, near, far)
    BY <1>1, <1>2
  <2>2. Descends(near, newNear, {}) /\ Descends(far, newFar, {})
    BY <1>3
  <2> HIDE DEF near, far, newNear, newFar
  <2>3. DOMAIN near = 1..Len(near) /\ DOMAIN far = 1..Len(far) /\ Len(near) \in Nat /\ Len(far) \in Nat
    BY <2>1
  <2>4. Apart(s, newNear, newFar)
    BY <2>1, <2>2, <2>3, DescendsApart
  <2> QED
    BY <2>4 DEF newNear, newFar
<1>4. ASSUME NEW n \in Markets, NEW s \in Sides
      PROVE  Apart(s, book'[n][s], book'[n][Opposite(s)])
  <2>1. CASE UNCHANGED <<book, orders>>
    <3>1. book' = book
      BY <2>1
    <3> QED
      BY <1>1, <3>1
  <2>2. ASSUME NEW m \in Markets, NEW side \in Sides, NEW i \in DOMAIN book[m][side],
               Cancels(m, side, i)
        PROVE  Apart(s, book'[n][s], book'[n][Opposite(s)])
    <3>1. ASSUME NEW t \in Sides
          PROVE  Descends(book[n][t], book'[n][t], {})
      <4>1. CASE n = m /\ t = side
        <5>1. book'[n][t] = RemoveAt(book[n][t], i) /\ i \in DOMAIN book[n][t]
          BY <2>2, <4>1, CancelLists
        <5>2. Descends(book[n][t], RemoveAt(book[n][t], i), {})
          BY <1>2, <5>1, CancelDescends
        <5> QED
          BY <5>1, <5>2
      <4>2. CASE ~(n = m /\ t = side)
        <5>1. book'[n][t] = book[n][t]
          BY <2>2, <4>2, CancelLists
        <5> QED
          BY <1>2, <5>1, SameDescends
      <4> QED
        BY <4>1, <4>2
    <3> QED
      BY <1>2, <1>3, <3>1
  <2>3. ASSUME NEW m \in Markets, NEW side \in Sides, NEW u \in Users, NEW type,
               NEW price \in Int, NEW quantity \in Nat, Accept(m, side, u, type, price, quantity)
        PROVE  Apart(s, book'[n][s], book'[n][Opposite(s)])
    <3>1. CASE n # m
      <4>1. book'[n][s] = book[n][s] /\ book'[n][Opposite(s)] = book[n][Opposite(s)]
        BY <1>2, <2>3, <3>1, AcceptLists
      <4> QED
        BY <1>1, <4>1
    <3> DEFINE near == Near(m, side, u, type, price, quantity)
               far == Far(m, side, u, price, quantity)
    <3>2. Apart(side, near, far)
      BY TradedApart
    <3>3. near \in Seq(OrderOf(Users)) /\ far \in Seq(OrderOf(Users))
      BY NearSide, FarSide
    <3>4. n = m => book'[n][side] = near /\ book'[n][Opposite(side)] = far
      BY <1>2, <2>3, AcceptLists
    <3> HIDE DEF near, far
    <3>5. Apart(Opposite(side), far, near)
      BY <3>2, <3>3, ApartMirrored
    <3>6. CASE n = m /\ s = side
      BY <3>2, <3>4, <3>6
    <3>7. CASE n = m /\ s # side
      <4>1. s = Opposite(side) /\ Opposite(s) = side
        BY <3>7 DEF Opposite, Sides
      <4> QED
        BY <3>4, <3>5, <3>7, <4>1
    <3> QED
      BY <3>1, <3>6, <3>7
  <2>4. CASE \E m \in Markets, side \in Sides : \E i \in DOMAIN book[m][side] : Cancels(m, side, i)
    BY <2>2, <2>4
  <2>5. CASE \E m \in Markets, side \in Sides, u \in Users, type \in {"limit", "market"},
                price \in Int, quantity \in Int : Places(m, side, u, type, price, quantity)
    <3>1. PICK m \in Markets, side \in Sides, u \in Users, type \in {"limit", "market"},
                price \in Int, quantity \in Int : Places(m, side, u, type, price, quantity)
      BY <2>5
    <3>2. quantity \in Nat /\ Accept(m, side, u, type, price, quantity)
      BY <3>1 DEF Places
    <3> QED
      BY <2>3, <3>1, <3>2
  <2> QED
    BY <2>1, <2>4, <2>5, BookOutcome
<1>5. (\A m \in Markets, side \in Sides : Apart(side, book[m][side], book[m][Opposite(side)]))'
  BY <1>4
<1> QED
  BY <1>5, UncrossedApart, PTL

-----------------------------------------------------------------------------
(* The rows of the makers *)

MadeBy(m, side, u, price, quantity, o) ==
  LET makers == Makers(m, side)
      qty == Given(m, side, u, price, quantity)
  IN  Total([i \in DOMAIN makers |-> IF makers[i].id = o THEN qty[i] ELSE 0])

\* The orders table after an accepted order: the new row at the end, and an
\* increment for every maker that gave something.
LEMMA RowsAfter ==
  ASSUME TypeOK, NEW m \in Markets, NEW side \in Sides, NEW u \in Users, NEW type,
         NEW price \in Int, NEW quantity \in Int,
         Accept(m, side, u, type, price, quantity)
  PROVE  /\ DOMAIN orders' = 1..(Len(orders) + 1)
         /\ orders'[Len(orders) + 1] = NewRow(m, side, u, type, price, quantity)
         /\ \A o \in 1..Len(orders) :
              orders'[o] = IF MadeBy(m, side, u, price, quantity, o) = 0 THEN orders[o]
                           ELSE Increment(orders[o], MadeBy(m, side, u, price, quantity, o), Absent)
<1> DEFINE id == Len(orders) + 1
           row == NewRow(m, side, u, type, price, quantity)
           madeBy(o) == MadeBy(m, side, u, price, quantity, o)
<1>1. orders' = OrderRows(row, Makers(m, side), Given(m, side, u, price, quantity))
  BY AcceptRows
<1>2. OrderRows(row, Makers(m, side), Given(m, side, u, price, quantity))
        = [o \in 1..id |-> IF o = id THEN row
                           ELSE IF madeBy(o) = 0 THEN orders[o]
                           ELSE Increment(orders[o], madeBy(o), Absent)]
  BY DEF OrderRows, MadeBy
<1>3. Len(orders) \in Nat
  BY TradeTypes
<1> HIDE DEF row, madeBy
<1>4. orders' = [o \in 1..id |-> IF o = id THEN row
                                 ELSE IF madeBy(o) = 0 THEN orders[o]
                                 ELSE Increment(orders[o], madeBy(o), Absent)]
  BY <1>1, <1>2
<1>5. /\ DOMAIN orders' = 1..(Len(orders) + 1)
      /\ orders'[Len(orders) + 1] = row
      /\ \A o \in 1..Len(orders) :
           orders'[o] = IF madeBy(o) = 0 THEN orders[o]
                        ELSE Increment(orders[o], madeBy(o), Absent)
  BY <1>3, <1>4
<1> QED
  BY <1>5 DEF row, madeBy

\* What an order gave is what the one position it has gave.
LEMMA MadeByOne ==
  ASSUME TypeOK, OnceOnBook, NEW m \in Markets, NEW side \in Sides, NEW u \in Users,
         NEW price \in Int, NEW quantity \in Int
  PROVE  /\ \A i \in DOMAIN Makers(m, side) :
              MadeBy(m, side, u, price, quantity, Makers(m, side)[i].id)
                = Given(m, side, u, price, quantity)[i]
         /\ \A o : (\A i \in DOMAIN Makers(m, side) : Makers(m, side)[i].id # o)
                     => MadeBy(m, side, u, price, quantity, o) = 0
<1> DEFINE makers == Makers(m, side)
           qty == Given(m, side, u, price, quantity)
           part(o) == [i \in DOMAIN makers |-> IF makers[i].id = o THEN qty[i] ELSE 0]
<1>1. makers \in Seq(OrderOf(Users)) /\ qty \in [DOMAIN makers -> Int] /\ Opposite(side) \in Sides
  BY TradeTypes
<1>2. \A i, j \in DOMAIN makers : makers[i].id = makers[j].id => i = j
  BY <1>1 DEF Makers, OnceOnBook
<1>3. \A o : MadeBy(m, side, u, price, quantity, o) = Total(part(o))
  BY DEF MadeBy
<1> HIDE DEF makers, qty
<1>4. DOMAIN makers = 1..Len(makers) /\ Len(makers) \in Nat
  BY <1>1
<1>5. \A o : part(o) \in Seq(Int) /\ Len(part(o)) = Len(makers)
  <2> TAKE o
  <2>1. part(o) \in [1..Len(makers) -> Int]
    BY <1>1, <1>4
  <2> HIDE DEF part
  <2> QED
    BY <1>4, <2>1
<1>6. ASSUME NEW i \in DOMAIN makers
      PROVE  Total(part(makers[i].id)) = qty[i]
  <2> DEFINE o == makers[i].id
             w == part(o)
  <2>1. w[i] = qty[i] /\ \A j \in 1..Len(w) : j # i => w[j] = 0
    BY <1>2, <1>4, <1>5
  <2>2. w \in Seq(Int) /\ i \in 1..Len(w)
    BY <1>4, <1>5
  <2> HIDE DEF w
  <2>3. Total(w) = w[i]
    BY <2>1, <2>2, TotalSingle
  <2> QED
    BY <2>1, <2>3 DEF w
<1>7. ASSUME NEW o, \A i \in DOMAIN makers : makers[i].id # o
      PROVE  Total(part(o)) = 0
  <2> DEFINE w == part(o)
             none == 0
  <2>1. \A j \in 1..Len(w) : j # none => w[j] = 0
    BY <1>4, <1>5, <1>7
  <2>2. w \in Seq(Int)
    BY <1>5
  <2>4. none \notin 1..Len(w)
    BY <1>4, <1>5
  <2> HIDE DEF w, none
  <2>3. Total(w) = 0
    BY <2>1, <2>2, <2>4, TotalSingle
  <2> QED
    BY <2>3 DEF w
<1> QED
  BY <1>3, <1>6, <1>7 DEF makers, qty

\* A maker that is passed by has nothing left, and is not on its side again.
LEMMA ServedAndGone ==
  ASSUME TypeOK, OnceOnBook, PriceTimeOrder, NEW m \in Markets, NEW side \in Sides, NEW u \in Users,
         NEW price \in Int, NEW quantity \in Nat,
         NEW i \in DOMAIN Makers(m, side), NEW j \in DOMAIN Makers(m, side), i < j,
         Given(m, side, u, price, quantity)[j] > 0
  PROVE  PositionsOf(Far(m, side, u, price, quantity), Makers(m, side)[i].id) = {}
<1> DEFINE makers == Makers(m, side)
           taker == Taker(side, u, price, quantity)
           qty == Given(m, side, u, price, quantity)
           far == Far(m, side, u, price, quantity)
           o == makers[i]
           p == makers[j]
           q == qty[i]
<1>1. /\ makers \in Seq(OrderOf(Users)) /\ qty \in [DOMAIN makers -> Int] /\ taker \in OrderOf(Users)
      /\ Opposite(side) \in Sides
  BY TradeTypes
<1>2. taker.side = side /\ taker.price = price
  BY DEF Taker
<1>3. q = Offer(taker, o) /\ qty[j] <= Offer(taker, p) /\ qty[j] > 0
  BY GivenInOrder
<1>4. InOrder(Opposite(side), makers)
  BY <1>1, OrderByList DEF Makers
<1>5. \A k, l \in DOMAIN makers : makers[k].id = makers[l].id => k = l
  BY <1>1 DEF Makers, OnceOnBook
<1>6. PICK h : KeptAt(makers, qty, Dust[m], far, h)
  BY FarSide
<1>7. far \in Seq(OrderOf(Users)) /\ Dust[m] \in Nat
  BY FarSide, ConstantsAssumption DEF Assets
<1>0. i \in DOMAIN makers /\ j \in DOMAIN makers
  OBVIOUS
<1> HIDE DEF makers, taker, qty, far
<1>8. o \in OrderOf(Users) /\ p \in OrderOf(Users) /\ q \in Int /\ qty[j] \in Int
  BY <1>0, <1>1
<1>9. Better(Opposite(side), o.price, p.price) \/ o.price = p.price
  BY <1>0, <1>4 DEF InOrder
<1> HIDE DEF o, p, q
<1>10. Crosses(taker, o)
  <2>1. Crosses(taker, p)
    BY <1>1, <1>3, <1>8, GivingAllLeavesNothing
  <2>2. o.price \in Int /\ p.price \in Int
    BY <1>8 DEF OrderOf
  <2> QED
    BY <1>2, <1>9, <2>1, <2>2 DEF Crosses, Better, Opposite, Sides
<1>11. Remaining(Filled(o, q)) <= 0
  BY <1>1, <1>3, <1>8, <1>10, GivingAllLeavesNothing DEF Filled
<1>12. ASSUME NEW k \in DOMAIN far, far[k].id = o.id
       PROVE  FALSE
  <2> DEFINE c == h[k]
             maker == makers[c]
             r == qty[c]
  <2>1. c \in DOMAIN makers /\ far[k] = Filled(maker, r) /\ Remaining(far[k]) > Dust[m]
    BY <1>1, <1>6, <1>7 DEF KeptAt
  <2>2. maker \in OrderOf(Users) /\ r \in Int
    BY <1>1, <2>1
  <2>3. far[k].id = maker.id
    <3> HIDE DEF c, maker, r
    <3> QED
      BY <2>1, <2>2, FilledType, ZenonT(30)
  <2>4. c = i
    BY <1>0, <1>5, <1>12, <2>1, <2>3 DEF o
  <2>5. far[k] = Filled(o, q)
    BY <2>1, <2>4 DEF o, q
  <2> HIDE DEF c, maker, r
  <2>6. Remaining(Filled(o, q)) \in Int
    <3>1. Remaining(Filled(o, q)) = Remaining(o) - q
      BY <1>8, FilledType
    <3>2. Remaining(o) \in Int
      BY <1>8 DEF Remaining, OrderOf
    <3> QED
      BY <1>8, <3>1, <3>2
  <2> QED
    BY <1>7, <1>11, <2>1, <2>5, <2>6
<1> QED
  BY <1>12 DEF PositionsOf, far, o, makers

\* Only an order with nothing ahead of it is traded against, in any step.
Priority ==
  \A m \in Markets, side \in Sides : \A i, j \in DOMAIN book[m][side] :
    i < j /\ orders'[book[m][side][j].id].executed > orders[book[m][side][j].id].executed
      => PositionsOf(book'[m][side], book[m][side][i].id) = {}

LEMMA StepKeepsPriority ==
  ASSUME TypeOK, Filed, OnceOnBook, PriceTimeOrder, Outcome
  PROVE  Priority
<1> SUFFICES ASSUME NEW n \in Markets, NEW s \in Sides,
                    NEW i \in DOMAIN book[n][s], NEW j \in DOMAIN book[n][s], i < j,
                    orders'[book[n][s][j].id].executed > orders[book[n][s][j].id].executed
             PROVE  PositionsOf(book'[n][s], book[n][s][i].id) = {}
  BY DEF Priority
<1> DEFINE pid == book[n][s][j].id
<1>1. pid \in 1..Len(orders)
  BY DEF Filed
<1>2. orders[pid] \in RowType
  BY <1>1 DEF TypeOK
<1>3. orders[pid].executed \in Int
  BY <1>2 DEF RowType
<1>4. orders'[pid].executed > orders[pid].executed
  OBVIOUS
<1> HIDE DEF pid
<1>5. CASE UNCHANGED <<book, orders>>
  BY <1>3, <1>4, <1>5
<1>6. ASSUME NEW m \in Markets, NEW side \in Sides, NEW c \in DOMAIN book[m][side], Cancels(m, side, c)
      PROVE  FALSE
  <2> DEFINE id == book[m][side][c].id
             row == Increment(orders[id], 0, "cancelled")
  <2>1. orders' = [orders EXCEPT ![id] = row] /\ id \in 1..Len(orders)
    BY <1>6 DEF Cancels, Filed
  <2>2. row.executed = orders[id].executed
    <3>1. orders[id] \in RowType
      BY <2>1 DEF TypeOK
    <3> HIDE DEF id
    <3> QED
      BY <3>1 DEF Increment, RowType
  <2> HIDE DEF id, row
  <2>3. orders'[pid].executed = orders[pid].executed
    BY <1>1, <2>1, <2>2 DEF TypeOK
  <2> QED
    BY <1>3, <1>4, <2>3
<1>7. ASSUME NEW m \in Markets, NEW side \in Sides, NEW u \in Users, NEW type,
             NEW price \in Int, NEW quantity \in Nat, Accept(m, side, u, type, price, quantity)
      PROVE  PositionsOf(book'[n][s], book[n][s][i].id) = {}
  <2> DEFINE madeBy == MadeBy(m, side, u, price, quantity, pid)
             makers == Makers(m, side)
             qty == Given(m, side, u, price, quantity)
  <2>1. madeBy # 0
    <3>1. orders'[pid] = IF madeBy = 0 THEN orders[pid] ELSE Increment(orders[pid], madeBy, Absent)
      BY <1>1, <1>7, RowsAfter
    <3> HIDE DEF madeBy
    <3> QED
      BY <1>3, <1>4, <3>1
  <2>2. PICK c \in DOMAIN makers : makers[c].id = pid
    BY <2>1, MadeByOne
  <2>3. n = m /\ s = Opposite(side) /\ j = c
    <3>1. makers = book[m][Opposite(side)] /\ Opposite(side) \in Sides
      BY DEF Makers, Opposite, Sides
    <3> HIDE DEF makers
    <3> QED
      BY <2>2, <3>1 DEF pid, OnceOnBook
  <2>4. madeBy = qty[j] /\ qty[j] >= 0 /\ qty[j] \in Int
    <3>1. qty \in [DOMAIN makers -> Int]
      BY TradeTypes
    <3>2. \A i0 \in DOMAIN makers :
            MadeBy(m, side, u, price, quantity, makers[i0].id) = qty[i0]
      BY MadeByOne
    <3>3. qty[c] >= 0
      BY GivenInOrder
    <3>4. madeBy = qty[c]
      BY <2>2, <3>2
    <3> HIDE DEF makers, qty, madeBy
    <3>5. qty[c] \in Int
      BY <2>2, <3>1
    <3> QED
      BY <2>3, <3>3, <3>4, <3>5
  <2>5. qty[j] > 0
    BY <2>1, <2>4
  <2>6. book[n][s] = makers /\ book'[n][s] = Far(m, side, u, price, quantity)
    BY <1>7, <2>3, AcceptLists DEF Makers, Opposite, Sides
  <2>7. PositionsOf(Far(m, side, u, price, quantity), makers[i].id) = {}
    BY <2>5, <2>6, ServedAndGone
  <2> QED
    BY <2>6, <2>7
<1>8. CASE \E m \in Markets, side \in Sides : \E c \in DOMAIN book[m][side] : Cancels(m, side, c)
  BY <1>6, <1>8
<1>9. CASE \E m \in Markets, side \in Sides, u \in Users, type \in {"limit", "market"},
              price \in Int, quantity \in Int : Places(m, side, u, type, price, quantity)
  <2>1. PICK m \in Markets, side \in Sides, u \in Users, type \in {"limit", "market"},
              price \in Int, quantity \in Int : Places(m, side, u, type, price, quantity)
    BY <1>9
  <2>2. quantity \in Nat /\ Accept(m, side, u, type, price, quantity)
    BY <2>1 DEF Places
  <2> QED
    BY <1>7, <2>1, <2>2
<1> QED
  BY <1>5, <1>8, <1>9, BookOutcome

-----------------------------------------------------------------------------
(* New accounts *)

\* Whoever has an order has an entry in Balances.
OrderersHaveEntries == \A id \in DOMAIN orders : held[orders[id].user] # {}

\* No step takes an entry away, and every accepted order leaves one.
LEMMA EntriesKept ==
  ASSUME TypeOK, TypeOK', OrderersHaveEntries, Outcome
  PROVE  OrderersHaveEntries'
<1>1. /\ orders \in Seq(RowType) /\ orders' \in Seq(RowType)
      /\ held \in [Users -> SUBSET Assets] /\ held' \in [Users -> SUBSET Assets]
  BY DEF TypeOK
<1>2. \A id \in DOMAIN orders : orders[id].user \in Users
  <2> TAKE id \in DOMAIN orders
  <2>1. orders[id] \in RowType
    BY <1>1
  <2> QED
    BY <2>1 DEF RowType
<1>3. ASSUME \A v \in Users : held[v] \subseteq held'[v],
             DOMAIN orders' = DOMAIN orders,
             \A id \in DOMAIN orders : orders'[id].user = orders[id].user
      PROVE  OrderersHaveEntries'
  BY <1>2, <1>3 DEF OrderersHaveEntries
<1>4. ASSUME NEW m \in Markets, NEW side \in Sides, NEW i \in DOMAIN book[m][side], Cancels(m, side, i)
      PROVE  OrderersHaveEntries'
  <2> DEFINE id == book[m][side][i].id
             row == Increment(orders[id], 0, "cancelled")
  <2>1. orders' = [orders EXCEPT ![id] = row] /\ held' = held
    BY <1>4 DEF Cancels
  <2>2. row.user = orders[id].user
    BY DEF Increment
  <2> HIDE DEF id, row
  <2> QED
    BY <1>1, <1>3, <2>1, <2>2
<1>5. ASSUME NEW m \in Markets, NEW side \in Sides, NEW u \in Users, NEW type,
             NEW price \in Int, NEW quantity \in Int, Accept(m, side, u, type, price, quantity)
      PROVE  OrderersHaveEntries'
  <2> DEFINE madeBy(o) == MadeBy(m, side, u, price, quantity, o)
  <2>1. \A v \in Users : held[v] \subseteq held'[v] /\ Pays(m, side) \in held'[u]
    BY <1>1, <1>5 DEF Accept
  <2>2. /\ DOMAIN orders' = 1..(Len(orders) + 1)
        /\ orders'[Len(orders) + 1] = NewRow(m, side, u, type, price, quantity)
        /\ \A o \in 1..Len(orders) :
             orders'[o] = IF madeBy(o) = 0 THEN orders[o] ELSE Increment(orders[o], madeBy(o), Absent)
    BY <1>5, RowsAfter
  <2>3. NewRow(m, side, u, type, price, quantity).user = u
    BY DEF NewRow
  <2> HIDE DEF madeBy
  <2>4. \A o \in 1..Len(orders) : orders'[o].user = orders[o].user
    <3> TAKE o \in 1..Len(orders)
    <3>1. orders[o] \in RowType
      BY <1>1
    <3>2. \A delta : Increment(orders[o], delta, Absent).user = orders[o].user
      BY <3>1 DEF Increment, RowType
    <3> QED
      BY <2>2, <3>2
  <2>5. DOMAIN orders = 1..Len(orders) /\ Len(orders) \in Nat
    BY <1>1
  <2> SUFFICES ASSUME NEW o \in DOMAIN orders' PROVE held'[orders'[o].user] # {}
    BY DEF OrderersHaveEntries
  <2>6. CASE o = Len(orders) + 1
    BY <2>1, <2>2, <2>3, <2>6
  <2>7. CASE o \in 1..Len(orders)
    BY <1>2, <2>1, <2>4, <2>5, <2>7 DEF OrderersHaveEntries
  <2> QED
    BY <2>2, <2>5, <2>6, <2>7
<1>6. CASE UNCHANGED orders /\ \A v \in Users : held[v] \subseteq held'[v]
  BY <1>3, <1>6
<1>7. \/ UNCHANGED orders /\ \A v \in Users : held[v] \subseteq held'[v]
      \/ \E m \in Markets, side \in Sides : \E i \in DOMAIN book[m][side] : Cancels(m, side, i)
      \/ \E m \in Markets, side \in Sides, u \in Users, type \in {"limit", "market"},
            price \in Int, quantity \in Int : Places(m, side, u, type, price, quantity)
  <2>1. \A assets : \A u \in Users : held' = [held EXCEPT ![u] = @ \cup assets]
                                        => \A v \in Users : held[v] \subseteq held'[v]
    BY <1>1
  <2> QED
    BY <2>1 DEF Outcome, RefusesForFunds, TakesBack, Deposited, Credit, Enrols, vars
<1>8. CASE \E m \in Markets, side \in Sides : \E i \in DOMAIN book[m][side] : Cancels(m, side, i)
  BY <1>4, <1>8
<1>9. CASE \E m \in Markets, side \in Sides, u \in Users, type \in {"limit", "market"},
              price \in Int, quantity \in Int : Places(m, side, u, type, price, quantity)
  BY <1>5, <1>9 DEF Places
<1> QED
  BY <1>6, <1>7, <1>8, <1>9

\* Whoever has the number of the account just created left no trace before.
Fresh ==
  reply'.type = "CREATE_USER" =>
    \A u \in Users : Number[u] = reply'.id =>
      /\ u \notin named
      /\ held[u] = {}
      /\ \A id \in DOMAIN orders : orders[id].user # u

LEMMA StepTakesFreshAccounts ==
  ASSUME TypeOK, OrderersHaveEntries, Outcome, ~UNCHANGED vars
  PROVE  Fresh
<1> SUFFICES ASSUME reply'.type = "CREATE_USER", NEW u \in Users, Number[u] = reply'.id
             PROVE  u \notin named /\ held[u] = {} /\ \A id \in DOMAIN orders : orders[id].user # u
  BY DEF Fresh
<1>1. PICK v \in Users : IsNextUserID(v) /\ reply'.id = Number[v]
  <2>1. \A m \in Markets, side \in Sides, w \in Users, type \in {"limit", "market"}, price \in Int,
           quantity \in Int : Places(m, side, w, type, price, quantity)
                                => reply'.type = "ORDER_PLACED"
    BY DEF Places, Accept, Answered
  <2>2. Rejected("INSUFFICIENT_FUNDS").type # "CREATE_USER" /\ Rejected("INVALID_ORDER").type # "CREATE_USER"
    BY DEF Rejected
  <2>3. \A m \in Markets, side \in Sides : \A i \in DOMAIN book[m][side] :
          Cancels(m, side, i) => reply'.type = "ORDER_CANCELLED"
    BY DEF Cancels, Answered
  <2> QED
    BY <2>1, <2>2, <2>3 DEF Outcome, RefusesForFunds, TakesBack, Deposited, Enrols
<1>2. u \notin KnownIDs
  <2>1. Number[v] \in Nat
    BY ConstantsAssumption
  <2>2. ~(Number[v] < Number[v])
    BY <2>1
  <2> QED
    BY <1>1, <2>2 DEF IsNextUserID
<1> QED
  BY <1>2 DEF KnownIDs, OrderersHaveEntries

-----------------------------------------------------------------------------
(* Nothing created or destroyed *)

\* What the makers give and get of an asset, added up over the accounts, is
\* what the taker gets and gives.
LEMMA MakersMatchTaker ==
  ASSUME NEW makers \in Seq(OrderOf(Users)), NEW qty \in [DOMAIN makers -> Int], NEW a
  PROVE  SumOver(Users, [v \in Users |-> MakerPart(v, a, makers, qty)]) = TakerPart(a, makers, qty)
<1> DEFINE I == 1..Len(makers)
           f == FillWorth(a, makers, qty)
           key == [i \in I |-> makers[i].user]
           group == [v \in Users |-> [i \in I |-> IF key[i] = v THEN f[i] ELSE 0]]
           total == [v \in Users |-> MakerPart(v, a, makers, qty)]
<1>1. Len(makers) \in Nat /\ DOMAIN makers = I
  OBVIOUS
<1>2. \A i \in I : f[i] \in Int /\ key[i] \in Users
  <2> TAKE i \in I
  <2>1. makers[i] \in OrderOf(Users) /\ qty[i] \in Int
    BY <1>1
  <2>2. FormatNum(makers[i].price, PriceTick) \in Int
    <3>1. makers[i].price \in Int
      BY <2>1 DEF OrderOf
    <3> QED
      BY <3>1, FormatNumType, ConstantsAssumption
  <2>3. f[i] \in Int
    BY <1>1, <2>1, <2>2, WorthType DEF FillWorth
  <2>4. key[i] \in Users
    BY <2>1 DEF OrderOf
  <2> QED
    BY <2>3, <2>4
<1>3. IsFiniteSet(I) /\ IsFiniteSet(Users)
  BY <1>1, FS_Interval, ConstantsAssumption
<1>4. f \in [I -> Int] /\ f \in Seq(Int) /\ Len(f) = Len(makers)
  <2>1. f = [i \in I |-> Worth(a, qty[i], FormatNum(makers[i].price, PriceTick))]
    BY <1>1 DEF FillWorth
  <2> HIDE DEF f
  <2>2. f \in [I -> Int]
    BY <1>2, <2>1
  <2> QED
    BY <1>1, <2>2
<1>5. TakerPart(a, makers, qty) = SumOver(I, f)
  <2>1. Total(f) = SumOver(1..Len(f), f)
    BY <1>4, TotalIsSum
  <2> QED
    BY <1>4, <2>1 DEF TakerPart
<1>6. \A v \in Users : total[v] = SumOver(I, group[v])
  <2> TAKE v \in Users
  <2> DEFINE w == group[v]
  <2>1. w \in [I -> Int]
    <3> HIDE DEF f, key
    <3> QED
      BY <1>2
  <2>2. w \in Seq(Int) /\ Len(w) = Len(makers)
    <3> HIDE DEF w
    <3> QED
      BY <1>1, <2>1
  <2>3. MakerPart(v, a, makers, qty) = Total(w)
    <3>1. w = [i \in DOMAIN makers |-> IF makers[i].user = v THEN FillWorth(a, makers, qty)[i] ELSE 0]
      BY <1>1
    <3> HIDE DEF w
    <3> QED
      BY <3>1 DEF MakerPart
  <2> HIDE DEF w
  <2>4. Total(w) = SumOver(1..Len(w), w)
    BY <2>2, TotalIsSum
  <2> QED
    BY <2>2, <2>3, <2>4 DEF w
<1>7. \A v \in Users, i \in I : group[v][i] = IF key[i] = v THEN f[i] ELSE 0
  OBVIOUS
<1> HIDE DEF I, f, key, group, total
<1>8. (\A i \in I : key[i] \in Users) /\ (\A i \in I : f[i] \in Int)
  BY <1>2
<1>9. SumOver(Users, total) = SumOver(I, f)
  BY ONLY <1>3, <1>6, <1>7, <1>8, SumOverGroups, SMTT(30)
<1> QED
  BY <1>5, <1>9 DEF total

\* The ledger legs of a taker's fills add up to nothing.
LEMMA LegsCancelOut ==
  ASSUME NEW m \in Markets, NEW side, NEW u \in Users, NEW a \in Assets,
         NEW makers \in Seq(OrderOf(Users)), NEW qty \in [DOMAIN makers -> Int]
  PROVE  SumOver(Users, [v \in Users |-> LedgerLegs(m, side, u, makers, qty)[v][a]]) = 0
<1> DEFINE part == TakerPart(a, makers, qty)
           made == [v \in Users |-> MakerPart(v, a, makers, qty)]
           taken == [v \in Users |-> IF v = u THEN part ELSE 0]
           unmade == [v \in Users |-> - made[v]]
           untaken == [v \in Users |-> - taken[v]]
           leg == [v \in Users |-> LedgerLegs(m, side, u, makers, qty)[v][a]]
<1>1. part \in Int /\ \A v \in Users : made[v] \in Int
  BY PartsType
<1>2. IsFiniteSet(Users)
  BY ConstantsAssumption
<1>3. SumOver(Users, made) = part
  BY MakersMatchTaker
<1>4. \A v \in Users : leg[v] = IF a = Pays(m, side) THEN made[v] - taken[v]
                                ELSE IF a = Gets(m, side) THEN taken[v] - made[v] ELSE 0
  BY DEF LedgerLegs
<1> HIDE DEF part, made, leg
<1>5. \A v \in Users : taken[v] \in Int /\ (v # u => taken[v] = 0) /\ (v = u => taken[v] = part)
  BY <1>1
<1>6. \A v \in Users : /\ unmade[v] \in Int /\ unmade[v] = - made[v]
                       /\ untaken[v] \in Int /\ untaken[v] = - taken[v]
                       /\ (v # u => untaken[v] = 0) /\ (v = u => untaken[v] = - part)
  <2> TAKE v \in Users
  <2>1. made[v] \in Int /\ taken[v] \in Int
    BY <1>1, <1>5
  <2>2. unmade[v] = - made[v] /\ untaken[v] = - taken[v]
    OBVIOUS
  <2> HIDE DEF unmade, untaken, taken
  <2> QED
    BY <1>1, <1>5, <2>1, <2>2
<1> HIDE DEF taken, unmade, untaken
<1>7. SumOver(Users, taken) = part /\ SumOver(Users, untaken) = - part
  <2>1. SumOver(Users, taken) = IF u \in Users THEN taken[u] ELSE 0
    BY <1>2, <1>5, SumOverSingle
  <2>2. SumOver(Users, untaken) = IF u \in Users THEN untaken[u] ELSE 0
    BY <1>2, <1>6, SumOverSingle
  <2> QED
    BY <1>5, <1>6, <2>1, <2>2
<1>8. CASE a = Pays(m, side)
  <2>1. \A v \in Users : made[v] \in Int /\ untaken[v] \in Int /\ leg[v] = made[v] + untaken[v]
    BY <1>1, <1>4, <1>5, <1>6, <1>8
  <2>2. SumOver(Users, leg) = SumOver(Users, made) + SumOver(Users, untaken)
    BY <1>2, <2>1, SumOverPlus
  <2> QED
    BY <1>1, <1>3, <1>7, <2>2 DEF leg
<1>9. CASE a # Pays(m, side) /\ a = Gets(m, side)
  <2> DEFINE none == [v \in Users |-> 0]
  <2>1. \A v \in Users : made[v] \in Int /\ leg[v] \in Int /\ taken[v] = made[v] + leg[v]
    BY <1>1, <1>4, <1>5, <1>9
  <2>2. SumOver(Users, taken) = SumOver(Users, made) + SumOver(Users, leg)
    BY <1>2, <2>1, SumOverPlus
  <2>3. SumOver(Users, leg) \in Int
    BY <1>2, <2>1, SumOverType
  <2>4. SumOver(Users, leg) = 0
    BY <1>1, <1>3, <1>7, <2>2, <2>3
  <2> QED
    BY <2>4 DEF leg
<1>10. CASE a # Pays(m, side) /\ a # Gets(m, side)
  <2>1. \A v \in Users : leg[v] = 0
    BY <1>4, <1>10
  <2>2. SumOver(Users, leg) = 0
    BY <1>2, <2>1, SumOverZero
  <2> QED
    BY <2>2 DEF leg
<1> QED
  BY <1>8, <1>9, <1>10

\* The supply of an asset is what its ledger rows add up to.
LEMMA SupplyIsLedger ==
  ASSUME Inv, NEW a \in Assets
  PROVE  Supply(a) = SumOver(Users, [u \in Users |-> ledger[u][a]])
<1> DEFINE held1 == [u \in Users |-> bal[u][a].available + bal[u][a].locked]
           rows == [u \in Users |-> ledger[u][a]]
<1>1. \A u \in Users : held1[u] \in Int /\ held1[u] = rows[u]
  BY DEF Inv, Reconciles, TypeOK
<1>2. Supply(a) = SumOver(Users, held1)
  BY DEF Supply
<1> HIDE DEF held1, rows
<1>3. SumOver(Users, held1) = SumOver(Users, rows)
  BY <1>1, SumOverSame, ConstantsAssumption
<1> QED
  BY <1>2, <1>3 DEF rows

\* An accepted order moves value between accounts only.
LEMMA AcceptConserves ==
  ASSUME Inv, NEW m \in Markets, NEW side \in Sides, NEW u \in Users, NEW type,
         NEW price \in Int, NEW quantity \in Int,
         Accept(m, side, u, type, price, quantity), NEW a \in Assets
  PROVE  SumOver(Users, [v \in Users |-> ledger'[v][a]]) = SumOver(Users, [v \in Users |-> ledger[v][a]])
<1> DEFINE makers == Makers(m, side)
           qty == Given(m, side, u, price, quantity)
           legs == LedgerLegs(m, side, u, makers, qty)
           old == [v \in Users |-> ledger[v][a]]
           leg == [v \in Users |-> legs[v][a]]
           new == [v \in Users |-> ledger'[v][a]]
<1>1. ledger' = [v \in Users |-> [x \in Assets |-> ledger[v][x] + legs[v][x]]]
  BY DEF Accept, Makers, Given, Taker
<1>2. TypeOK
  BY DEF Inv
<1>3. makers \in Seq(OrderOf(Users)) /\ qty \in [DOMAIN makers -> Int]
  BY <1>2, TradeTypes
<1> HIDE DEF makers, qty
<1>4. SumOver(Users, leg) = 0
  BY <1>3, LegsCancelOut
<1>5. legs \in [Users -> [Assets -> Int]]
  BY <1>2, <1>3, UpdateBalanceFollowsLedger DEF TypeOK
<1> HIDE DEF legs
<1>6. \A v \in Users : old[v] \in Int /\ leg[v] \in Int /\ new[v] = old[v] + leg[v]
  BY <1>1, <1>2, <1>5 DEF TypeOK
<1> HIDE DEF old, leg, new
<1>7. SumOver(Users, new) = SumOver(Users, old) + SumOver(Users, leg)
  BY <1>6, SumOverPlus, ConstantsAssumption
<1>8. SumOver(Users, old) \in Int
  BY <1>6, SumOverType, ConstantsAssumption
<1>9. SumOver(Users, new) = SumOver(Users, old)
  BY <1>4, <1>7, <1>8
<1> QED
  BY <1>9 DEF old, new

\* Whatever is not a deposit leaves the supply alone.
Conserves == \A a \in Assets : Supply(a)' # Supply(a) => reply'.type \in {"ON_RAMP", "CREATE_USER"}

LEMMA StepConserves ==
  ASSUME Inv, Inv', Outcome
  PROVE  Conserves
<1> SUFFICES ASSUME NEW a \in Assets, reply'.type \notin {"ON_RAMP", "CREATE_USER"}
             PROVE  Supply(a)' = Supply(a)
  BY DEF Conserves
<1>1. Supply(a) = SumOver(Users, [u \in Users |-> ledger[u][a]])
  BY SupplyIsLedger
<1>2. Supply(a)' = SumOver(Users, [u \in Users |-> ledger'[u][a]])
  <2>1. (Supply(a) = SumOver(Users, [u \in Users |-> ledger[u][a]]))'
    BY SupplyIsLedger, PTL
  <2> QED
    BY <2>1
<1>3. CASE UNCHANGED ledger
  BY <1>1, <1>2, <1>3
<1>4. CASE \E m \in Markets, side \in Sides, u \in Users, type \in {"limit", "market"},
              price \in Int, quantity \in Int : Places(m, side, u, type, price, quantity)
  BY <1>1, <1>2, <1>4, AcceptConserves DEF Places
<1> QED
  BY <1>3, <1>4, ZenonT(30) DEF Outcome, RefusesForFunds, TakesBack, Cancels, Deposited, Enrols, vars

-----------------------------------------------------------------------------
(* The theorems *)

\* What the books and the orders table keep, together.
BookInv ==
  /\ Inv
  /\ Filed /\ OnceOnBook
  /\ PriceTimeOrder /\ Uncrossed
  /\ OrderersHaveEntries

LEMMA InitBookInv == Init => BookInv
<1> SUFFICES ASSUME Init PROVE BookInv
  OBVIOUS
<1>1. \A m \in Markets, side \in Sides : DOMAIN book[m][side] = {}
  BY DEF Init
<1>2. DOMAIN orders = {}
  BY DEF Init
<1> QED
  BY <1>1, <1>2, InitInv
     DEF BookInv, Filed, OnceOnBook, PriceTimeOrder, Uncrossed, OrderersHaveEntries, Sides

LEMMA NextBookInv == BookInv /\ [Next]_vars => BookInv'
<1> SUFFICES ASSUME BookInv, [Next]_vars PROVE BookInv'
  OBVIOUS
<1>1. Inv' /\ TypeOK /\ TypeOK'
  BY NextInv DEF BookInv, Inv
<1>2. Outcome
  BY <1>1, NextOutcome
<1>3. Filed' /\ OnceOnBook'
  BY <1>1, <1>2, FiledOnce DEF BookInv
<1>4. PriceTimeOrder'
  BY <1>1, <1>2, OrderKept DEF BookInv
<1>5. Uncrossed'
  BY <1>1, <1>2, UncrossedKept DEF BookInv
<1>6. OrderersHaveEntries'
  BY <1>1, <1>2, EntriesKept DEF BookInv
<1> QED
  BY <1>1, <1>3, <1>4, <1>5, <1>6 DEF BookInv

LEMMA BookInvariant == Spec => []BookInv
BY InitBookInv, NextBookInv, PTL DEF Spec

\* The order the matching loop walks a side in is price-time order, whatever
\* has been filled, cancelled and inserted.
THEOREM BookInPriceTimeOrder == Spec => []PriceTimeOrder
<1>1. BookInv => PriceTimeOrder
  BY DEF BookInv
<1> QED
  BY <1>1, BookInvariant, PTL

\* No bid rests at or above an ask: an order that rests has taken everything
\* it crosses, and no dust threshold lets a crossing maker stay.
THEOREM BookUncrossed == Spec => []Uncrossed
<1>1. BookInv => Uncrossed
  BY DEF BookInv
<1> QED
  BY <1>1, BookInvariant, PTL

\* Nobody trades ahead of an order with priority that has anything left.
THEOREM TradesRespectPriority == Spec => PriorityRespected
<1>1. BookInv /\ [Next]_vars => Priority
  BY NextOutcome, StepKeepsPriority DEF BookInv, Inv
<1>2. BookInv /\ [Next]_vars =>
        [\A m \in Markets, side \in Sides :
           \A i, j \in DOMAIN book[m][side] :
             LET o == book[m][side][i]
                 p == book[m][side][j]
             IN  i < j /\ orders'[p.id].executed > orders[p.id].executed
                   => PositionsOf(book'[m][side], o.id) = {}]_vars
  BY <1>1 DEF Priority
<1> QED
  BY <1>2, BookInvariant, PTL DEF Spec, PriorityRespected

\* Whatever id CREATE_USER answers with, no account of that number had a name,
\* an entry in the balances or an order before.
THEOREM NewAccountsStartEmpty == Spec => NewAccountsAreFresh
<1>1. BookInv /\ [Next]_vars => Fresh \/ UNCHANGED vars
  BY NextOutcome, StepTakesFreshAccounts DEF BookInv, Inv
<1>2. BookInv /\ [Next]_vars =>
        [reply'.type = "CREATE_USER" =>
           \A u \in Users : Number[u] = reply'.id =>
             /\ u \notin named
             /\ held[u] = {}
             /\ \A id \in DOMAIN orders : orders[id].user # u]_vars
  BY <1>1 DEF Fresh
<1> QED
  BY <1>2, BookInvariant, PTL DEF Spec, NewAccountsAreFresh

\* Orders, fills, refunds and cancels move value between the accounts, or
\* between Available and Locked: how much there is of an asset changes only
\* with a deposit or a new account.
THEOREM TradingConservesValue == Spec => TradesConserveValue
<1>1. BookInv /\ [Next]_vars => Conserves
  BY NextOutcome, NextBookInv, StepConserves DEF BookInv, Inv
<1>2. BookInv /\ [Next]_vars =>
        [\A a \in Assets : Supply(a)' # Supply(a) => reply'.type \in {"ON_RAMP", "CREATE_USER"}]_vars
  BY <1>1 DEF Conserves
<1> QED
  BY <1>2, BookInvariant, PTL DEF Spec, TradesConserveValue
=============================================================================
