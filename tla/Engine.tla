------------------------------- MODULE Engine -------------------------------
(***************************************************************************)
(* The matching engine of cmd/engine: its order books, its balances and    *)
(* what it has told the database.                                          *)
(*                                                                         *)
(* Process holds the engine mutex from the first statement of a handler to *)
(* the last, so a handler is one action.  Every command is answered once:  *)
(* "reply" is the answer to the last one.  The rows the db_processor list  *)
(* carries are accounted for as they add up: "ledger" is the sum of the    *)
(* LEDGER_ENTRY deltas, "orders" the orders table the ORDER_UPDATE         *)
(* messages build, "volume" the quantity of the TRADE_ADDED rows.          *)
(*                                                                         *)
(* Amounts are finite integers.  The empty user id is left out: the API    *)
(* lets no deposit reach it, so its orders end as INSUFFICIENT_FUNDS like  *)
(* those of any account without funds.                                     *)
(***************************************************************************)
EXTENDS Orderbook, FiniteSets

CONSTANTS
  Users,       \* every account id that can appear
  Markets,     \* base assets; each names the market that trades it for Quote
  Quote,       \* BASE_CURRENCY, which quotes every market
  Number,      \* Number[u]: the id as an integer, 0 when it is not numeric
  DemoUsers, BotUsers,
  Seed,        \* Seed[a]: the 10M of asset a every demo account starts with
  Prices, Quantities, Deposits, \* what clients send
  PriceTick,   \* the eighth decimal of a price, in price units
  QtyTick,     \* the eighth decimal of a quantity, in quantity units
  Dust,        \* Dust[a]: dustEpsilon in units of asset a
  MaxOrders,   \* bound: orders accepted
  MaxHeld      \* bound: what one account may hold of one asset

Assets == Markets \cup {Quote}

Absent == "absent" \* the empty string

ASSUME ConstantsAssumption ==
  /\ IsFiniteSet(Users) /\ IsFiniteSet(Markets)
  /\ Quote \notin Markets
  /\ Absent \notin Assets
  /\ Number \in [Users -> Nat]
  /\ DemoUsers \subseteq Users
  /\ BotUsers \subseteq Users
  /\ Seed \in [Assets -> Nat]
  /\ Prices \subseteq Nat \ {0}
  /\ Quantities \subseteq Nat \ {0}
  /\ Deposits \subseteq Nat \ {0}
  /\ PriceTick \in Nat \ {0} /\ PriceTick % 20 = 0
  /\ QtyTick \in Nat \ {0}
  /\ Dust \in [Assets -> Nat]
  /\ MaxOrders \in Nat
  /\ MaxHeld \in Nat

VARIABLES
  book,       \* Orderbooks: book[m]["buy"] the bids, book[m]["sell"] the asks
  lastTrade,  \* LastTradeID of each book
  bal,        \* Balances
  held,       \* held[u]: the assets that have an entry in Balances[u]
  named,      \* the ids in Users
  ledger, orders, volume, \* what the database has been told
  reply       \* the answer to the last command

vars == <<book, lastTrade, bal, held, named, ledger, orders, volume, reply>>

-----------------------------------------------------------------------------
(* Replies *)

Rejected(code) == [type |-> "ORDER_REJECTED", code |-> code, id |-> 0, executed |-> 0]
Answered(type, id, executed) == [type |-> type, code |-> Absent, id |-> id, executed |-> executed]

Reject(code) ==
  /\ reply' = Rejected(code)
  /\ UNCHANGED <<book, lastTrade, bal, held, named, ledger, orders, volume>>

-----------------------------------------------------------------------------
(* Balances *)

\* What a side gives up, what it gets, and what quantity q at price p is
\* worth in an asset.
Pays(m, side) == IF side = "buy" THEN Quote ELSE m
Gets(m, side) == IF side = "buy" THEN m ELSE Quote
Worth(asset, q, p) == IF asset = Quote THEN q * p ELSE q

Lock(b, amount) ==
  [available |-> b.available - amount, locked |-> b.locked + amount]

\* Mutants: only the sweep is left; the amount is credited but stays locked.
ReleaseSweepsOnly(b, amount, dust) ==
  IF -dust < b.locked /\ b.locked < dust
  THEN [available |-> b.available + b.locked, locked |-> 0]
  ELSE b
ReleaseKeepsLock(b, amount, dust) ==
  [b EXCEPT !.available = IF amount > 0 THEN @ + amount ELSE @]

\* releaseFunds: a positive amount goes back to Available, then a lock below
\* the dust threshold is swept there too.
Release(b, amount, dust) ==
  LET moved == IF amount > 0 THEN Lock(b, -amount) ELSE b
  IN  IF -dust < moved.locked /\ moved.locked < dust
      THEN [available |-> moved.available + moved.locked, locked |-> 0]
      ELSE moved

Adjust(b, available, locked) ==
  [available |-> b.available + available, locked |-> b.locked + locked]

\* Mutant: locked funds count as spendable.
CanPayWithLocked(u, asset, need) == bal[u][asset].available + bal[u][asset].locked >= need

CanPay(u, asset, need) == bal[u][asset].available >= need

-----------------------------------------------------------------------------
(* The orders table, as handleOrderUpdate of the processor writes it *)

\* Mutants: the total replaced instead of added to; the status taken as sent.
IncrementReplaces(row, delta, status) ==
  [row EXCEPT !.executed = delta,
              !.status = IF status # Absent THEN status
                         ELSE IF delta >= row.quantity THEN "filled" ELSE @]
IncrementTakesStatus(row, delta, status) ==
  [row EXCEPT !.executed = @ + delta, !.status = status]

\* The increment of an ORDER_UPDATE without identifying fields; Absent is no status.
Increment(row, delta, status) ==
  [row EXCEPT !.executed = @ + delta,
              !.status = IF status # Absent THEN status
                         ELSE IF row.executed + delta >= row.quantity THEN "filled"
                         ELSE @]

\* UpdateDbOrders: the taker's new row, then one increment per maker filled.
OrderRows(row, makers, qty) ==
  LET id == Len(orders) + 1
      madeBy(o) == Total([i \in DOMAIN makers |-> IF makers[i].id = o THEN qty[i] ELSE 0])
  IN  [o \in 1..id |-> IF o = id THEN row
                       ELSE IF madeBy(o) = 0 THEN orders[o]
                       ELSE Increment(orders[o], madeBy(o), Absent)]

-----------------------------------------------------------------------------
(* Settling the fills of one taker u on one side of m: qty[i] of makers[i], *)
(* every fill at the maker's price as printed in the fill.                 *)

FillWorth(a, makers, qty) ==
  [i \in DOMAIN makers |-> Worth(a, qty[i], FormatNum(makers[i].price, PriceTick))]

\* What changes hands of asset a: in all, and of one maker's.
TakerPart(a, makers, qty) == Total(FillWorth(a, makers, qty))
MakerPart(v, a, makers, qty) ==
  Total([i \in DOMAIN makers |-> IF makers[i].user = v THEN FillWorth(a, makers, qty)[i] ELSE 0])

\* The makers receive what the taker pays, out of the taker's lock, and give
\* what the taker gets, out of theirs.
UpdateBalance(bals, m, side, u, makers, qty) ==
  [v \in Users |-> [a \in Assets |->
     Adjust(bals[v][a],
       (IF a = Pays(m, side) THEN MakerPart(v, a, makers, qty) ELSE 0)
         + (IF v = u /\ a = Gets(m, side) THEN TakerPart(a, makers, qty) ELSE 0),
       - (IF a = Gets(m, side) THEN MakerPart(v, a, makers, qty) ELSE 0)
         - (IF v = u /\ a = Pays(m, side) THEN TakerPart(a, makers, qty) ELSE 0))]]

\* Mutant: no leg for what the maker receives.
LedgerWithoutMakerCredit(m, side, u, makers, qty) ==
  [v \in Users |-> [a \in Assets |->
     LET made  == IF a = Pays(m, side) THEN 0 ELSE MakerPart(v, a, makers, qty)
         taken == IF v = u THEN TakerPart(a, makers, qty) ELSE 0
     IN  IF a = Pays(m, side) THEN made - taken
         ELSE IF a = Gets(m, side) THEN taken - made
         ELSE 0]]

\* The four ledger legs of every fill, added up.
LedgerLegs(m, side, u, makers, qty) ==
  [v \in Users |-> [a \in Assets |->
     LET made  == MakerPart(v, a, makers, qty)
         taken == IF v = u THEN TakerPart(a, makers, qty) ELSE 0
     IN  IF a = Pays(m, side) THEN made - taken
         ELSE IF a = Gets(m, side) THEN taken - made
         ELSE 0]]

\* Mutant: a better price than the one locked at is not refunded.
OverLockOfRest(asset, price, quantity, executed, spent, rests) ==
  IF rests THEN 0 ELSE Worth(asset, quantity - executed, price)

\* What was locked in excess: a better price than the one locked at, and the
\* unexecuted rest of an order that does not rest.
OverLock(asset, price, quantity, executed, spent, rests) ==
  Worth(asset, executed, price) - spent
    + (IF rests THEN 0 ELSE Worth(asset, quantity - executed, price))

\* UpdateBalance creates the entries it needs.
EntriesFor(m, u, makers, fills) ==
  [v \in Users |-> IF \E i \in fills : v \in {u, makers[i].user} THEN {m, Quote} ELSE {}]

-----------------------------------------------------------------------------
(* CREATE_ORDER *)

\* A limit order asks for its own price.  A market order is priced through the
\* far side of the book, 5% beyond the best price as GetBestBidAsk prints it;
\* the set is empty when there is nothing to trade against.
AskedPrice(m, side, type, price) ==
  IF type # "market" THEN {price}
  ELSE {(FormatNum(best, PriceTick) * (IF side = "buy" THEN 21 ELSE 19)) \div 20 :
           best \in BestPrice(book[m][Opposite(side)], Opposite(side))}

\* CreateOrder once the funds are known to suffice: lock, match, rest the
\* remainder of a limit order, settle, release the excess, tell the database.
Accept(m, side, u, type, price, quantity) ==
  LET id       == Len(orders) + 1
      taker    == [id |-> id, user |-> u, side |-> side,
                   price |-> price, quantity |-> quantity, filled |-> 0]
      makers   == book[m][Opposite(side)]
      qty      == FilledQty(makers, taker)
      executed == Total(qty)
      fills    == {i \in DOMAIN makers : qty[i] > 0}
      rests    == type # "market"
      pays     == Pays(m, side)
      need     == Worth(pays, quantity, price)
      excess   == OverLock(pays, price, quantity, executed, TakerPart(pays, makers, qty), rests)
      settled  == UpdateBalance([bal EXCEPT ![u][pays] = Lock(@, need)], m, side, u, makers, qty)
      row      == [user |-> u, market |-> m, side |-> side,
                   quantity |-> FormatNum(quantity, QtyTick), executed |-> executed,
                   status |-> IF executed >= quantity THEN "filled"
                              ELSE IF rests THEN "open" ELSE "partially_filled"]
  IN
  /\ book' = [book EXCEPT
       ![m][Opposite(side)] = RemoveFullyFilled(WithFills(makers, qty), Dust[m]),
       ![m][side] = IF rests /\ executed < quantity
                    THEN InsertInOrder(@, [taker EXCEPT !.quantity = @ - executed])
                    ELSE @]
  /\ lastTrade' = [lastTrade EXCEPT ![m] = @ + Cardinality(fills)]
  /\ bal' = [settled EXCEPT ![u][pays] = Release(@, excess, Dust[pays])]
  /\ held' = [v \in Users |-> held[v] \cup EntriesFor(m, u, makers, fills)[v]
                                     \cup (IF v = u THEN {pays} ELSE {})]
  /\ ledger' = [v \in Users |-> [a \in Assets |->
                  ledger[v][a] + LedgerLegs(m, side, u, makers, qty)[v][a]]]
  /\ orders' = OrderRows(row, makers, qty)
  /\ volume' = [volume EXCEPT ![m] =
       @ + Total([i \in DOMAIN makers |-> FormatNum(qty[i], QtyTick)])]
  /\ reply' = Answered("ORDER_PLACED", id, executed)
  /\ UNCHANGED named

\* CheckAndLockFunds gives the account an entry for the asset even when the
\* order is then refused, and a refused side is unlocked again.
CreateOrder(m, side, u, type, price, quantity) ==
  \/ /\ m \notin Markets
     /\ Reject("NO_ORDERBOOK")
  \/ /\ m \in Markets
     /\ AskedPrice(m, side, type, price) = {}
     /\ Reject("NO_LIQUIDITY")
  \/ /\ m \in Markets
     /\ \E asked \in AskedPrice(m, side, type, price) :
          LET pays == Pays(m, side)
              need == Worth(pays, quantity, asked)
          IN
          \/ /\ asked <= 0 \/ quantity <= 0
             /\ Reject("INVALID_ORDER")
          \/ /\ asked > 0 /\ quantity > 0
             /\ ~CanPay(u, pays, need)
             /\ held' = [held EXCEPT ![u] = @ \cup {pays}]
             /\ reply' = Rejected("INSUFFICIENT_FUNDS")
             /\ UNCHANGED <<book, lastTrade, bal, named, ledger, orders, volume>>
          \/ /\ asked > 0 /\ quantity > 0
             /\ CanPay(u, pays, need)
             /\ side \notin Sides
             /\ held' = [held EXCEPT ![u] = @ \cup {pays}]
             /\ bal' = [bal EXCEPT ![u][pays] = Release(Lock(@, need), need, Dust[pays])]
             /\ reply' = Rejected("INVALID_ORDER")
             /\ UNCHANGED <<book, lastTrade, named, ledger, orders, volume>>
          \/ /\ asked > 0 /\ quantity > 0
             /\ CanPay(u, pays, need)
             /\ side \in Sides
             /\ Len(orders) < MaxOrders
             /\ Accept(m, side, u, type, asked, quantity)

-----------------------------------------------------------------------------
(* CANCEL_ORDER *)

\* The asks are searched before the bids.  What is left of the order goes
\* back to its owner, whoever sent the command.
CancelOrder(m, id) ==
  \/ /\ m \notin Markets
     /\ Reject("NO_ORDERBOOK")
  \/ /\ m \in Markets
     /\ \A side \in Sides : PositionsOf(book[m][side], id) = {}
     /\ Reject("ORDER_NOT_FOUND")
  \/ /\ m \in Markets
     /\ \E side \in Sides : \E i \in PositionsOf(book[m][side], id) :
          LET o    == book[m][side][i]
              pays == Pays(m, o.side)
          IN
          /\ side = "buy" => PositionsOf(book[m]["sell"], id) = {}
          /\ book' = [book EXCEPT ![m][side] = RemoveAt(@, i)]
          /\ bal' = [bal EXCEPT ![o.user][pays] =
                       IF pays \in held[o.user]
                       THEN Release(@, Worth(pays, Remaining(o), o.price), Dust[pays])
                       ELSE @]
          /\ orders' = [orders EXCEPT ![id] = Increment(@, 0, "cancelled")]
          /\ reply' = Answered("ORDER_CANCELLED", id, o.filled)
          /\ UNCHANGED <<lastTrade, held, named, ledger, volume>>

-----------------------------------------------------------------------------
(* ON_RAMP and CREATE_USER *)

\* Add the amount to an asset of an account, with its ledger row.
Credit(u, assets, amount) ==
  /\ bal' = [bal EXCEPT ![u] =
               [a \in Assets |-> IF a \in assets THEN Adjust(@[a], amount, 0) ELSE @[a]]]
  /\ held' = [held EXCEPT ![u] = @ \cup assets]
  /\ ledger' = [ledger EXCEPT ![u] =
               [a \in Assets |-> IF a \in assets THEN @[a] + amount ELSE @[a]]]

OnRamp(u, asset, amount) ==
  \/ /\ amount <= 0
     /\ Reject("INVALID_AMOUNT")
  \/ /\ amount > 0
     /\ LET credited == IF asset = Absent THEN Quote ELSE asset
        IN  /\ ledger[u][credited] + amount <= MaxHeld
            /\ Credit(u, {credited}, amount)
     /\ reply' = Answered("ON_RAMP", 0, 0)
     /\ UNCHANGED <<book, lastTrade, named, orders, volume>>

\* Mutant: ids that have a balance but no name are overlooked.
KnownNames == named

\* The ids nextUserID looks at: those with a name and those with a balance.
KnownIDs == named \cup {u \in Users : held[u] # {}}

\* Mutant: the highest number there is, and not the one after it.
IsHighestUserID(u) ==
  /\ \A v \in KnownIDs : Number[v] <= Number[u]
  /\ \E v \in KnownIDs : Number[u] = Number[v]

IsNextUserID(u) ==
  /\ \A v \in KnownIDs : Number[v] < Number[u]
  /\ Number[u] = 1 \/ \E v \in KnownIDs : Number[u] = Number[v] + 1

\* A blank name or a negative amount is refused; an amount of zero creates an
\* account with an empty balance.
CreateUser(name, amount) ==
  \/ /\ name = Absent \/ amount < 0
     /\ Reject("INVALID_USER")
  \/ /\ name # Absent /\ amount >= 0
     /\ \E u \in Users :
          /\ IsNextUserID(u)
          /\ named' = named \cup {u}
          /\ IF amount > 0
             THEN Credit(u, Assets, amount)
             ELSE UNCHANGED <<bal, held, ledger>>
          /\ reply' = Answered("CREATE_USER", Number[u], 0)
     /\ UNCHANGED <<book, lastTrade, orders, volume>>

UnknownCommand == Reject("UNKNOWN_COMMAND")

-----------------------------------------------------------------------------
(* NewEngine without a snapshot: empty books, every demo and bot account   *)
(* seeded with every asset and a seed row for each.                        *)

Seeded == DemoUsers \cup BotUsers

Init ==
  /\ book = [m \in Markets |-> [side \in Sides |-> << >>]]
  /\ lastTrade = [m \in Markets |-> 0]
  /\ bal = [u \in Users |-> [a \in Assets |->
              [available |-> IF u \in Seeded THEN Seed[a] ELSE 0, locked |-> 0]]]
  /\ held = [u \in Users |-> IF u \in Seeded THEN Assets ELSE {}]
  /\ named = DemoUsers
  /\ ledger = [u \in Users |-> [a \in Assets |-> IF u \in Seeded THEN Seed[a] ELSE 0]]
  /\ orders = << >>
  /\ volume = [m \in Markets |-> 0]
  /\ reply = Answered(Absent, 0, 0)

\* Zero stands for every price, quantity or amount that is not a positive
\* number, "hold" for every side that is neither buy nor sell, and Quote for
\* a market that has no book.
Next ==
  \/ \E m \in Assets, side \in Sides \cup {"hold"}, u \in Users, quantity \in Quantities \cup {0} :
       \/ \E price \in Prices \cup {0} : CreateOrder(m, side, u, "limit", price, quantity)
       \/ CreateOrder(m, side, u, "market", 0, quantity)
  \/ \E m \in Assets, id \in 0..Len(orders) : CancelOrder(m, id)
  \/ \E u \in Users, asset \in Assets \cup {Absent}, amount \in Deposits \cup {0} : OnRamp(u, asset, amount)
  \/ \E name \in {Absent, "name"}, amount \in Deposits \cup {0, -1} : CreateUser(name, amount)
  \/ UnknownCommand

Spec == Init /\ [][Next]_vars

-----------------------------------------------------------------------------
(* Types *)

RowType == [user : Users, market : Markets, side : Sides, quantity : Int, executed : Int,
            status : {"open", "filled", "partially_filled", "cancelled"}]

ReplyType ==
  [type : {Absent, "ORDER_PLACED", "ORDER_CANCELLED", "ORDER_REJECTED", "ON_RAMP", "CREATE_USER"},
   code : {Absent, "NO_ORDERBOOK", "NO_LIQUIDITY", "INVALID_ORDER", "INSUFFICIENT_FUNDS",
           "ORDER_NOT_FOUND", "INVALID_AMOUNT", "INVALID_USER", "UNKNOWN_COMMAND"},
   id : Nat, executed : Int]

Balance == [available : Int, locked : Int]

\* The engine's state has the types of the Go structs.
TypeOK ==
  /\ book \in [Markets -> [Sides -> Seq(OrderOf(Users))]]
  /\ lastTrade \in [Markets -> Nat]
  /\ bal \in [Users -> [Assets -> Balance]]
  /\ held \in [Users -> SUBSET Assets]
  /\ named \in SUBSET Users
  /\ ledger \in [Users -> [Assets -> Int]]
  /\ orders \in Seq(RowType)
  /\ volume \in [Markets -> Int]
  /\ reply \in ReplyType

-----------------------------------------------------------------------------
(* Money *)

\* The reconcile invariant of pushLedger and of GET /reconcile: what an account
\* holds of an asset, free or locked, is the sum of its ledger rows.
Reconciles ==
  \A u \in Users, a \in Assets : bal[u][a].available + bal[u][a].locked = ledger[u][a]

\* CheckAndLockFunds never lets an account spend what it does not have, and no
\* later fill, refund or cancel drives either side of a balance below zero.
NeverNegative ==
  \A u \in Users, a \in Assets : bal[u][a].available >= 0 /\ bal[u][a].locked >= 0

\* What the orders of u resting on one side of m keep locked of asset a.
LockedBy(m, side, u, a) ==
  LET list == book[m][side]
  IN  Total([i \in DOMAIN list |->
               IF list[i].user = u /\ Pays(m, side) = a
               THEN Worth(a, Remaining(list[i]), list[i].price) ELSE 0])

\* Everything locked is locked for an order on the book and every order on the
\* book is paid for: no lock is stranded after a fill, a refund or a cancel.
LocksCoverBook ==
  \A u \in Users, a \in Assets :
    bal[u][a].locked =
      SumOver(Markets, [m \in Markets |-> LockedBy(m, "buy", u, a) + LockedBy(m, "sell", u, a)])

\* The sum of all accounts, free and locked, of one asset.
Supply(a) == SumOver(Users, [u \in Users |-> bal[u][a].available + bal[u][a].locked])

\* Trading creates and destroys nothing: only a deposit or a new account
\* changes how much of an asset there is.
TradesConserveValue ==
  [][\A a \in Assets : Supply(a)' # Supply(a) => reply'.type \in {"ON_RAMP", "CREATE_USER"}]_vars

-----------------------------------------------------------------------------
(* The book *)

\* insertBidInOrder and insertAskInOrder keep every side in price-time order,
\* which is what lets the matching loop walk it from the front.
PriceTimeOrder ==
  \A m \in Markets, side \in Sides :
    \A i, j \in DOMAIN book[m][side] :
      LET o == book[m][side][i]
          p == book[m][side][j]
      IN  i < j => \/ Better(side, o.price, p.price)
                   \/ o.price = p.price /\ o.id < p.id

\* What crosses trades: no bid rests at or above a resting ask.
Uncrossed ==
  \A m \in Markets :
    \A i \in DOMAIN book[m]["buy"], j \in DOMAIN book[m]["sell"] :
      book[m]["buy"][i].price < book[m]["sell"][j].price

\* An order is traded against only when everything with priority over it on
\* its side has been used up in the same step.
PriorityRespected ==
  [][\A m \in Markets, side \in Sides :
       \A i, j \in DOMAIN book[m][side] :
         LET o == book[m][side][i]
             p == book[m][side][j]
         IN  i < j /\ orders'[p.id].executed > orders[p.id].executed
               => PositionsOf(book'[m][side], o.id) = {}]_vars

-----------------------------------------------------------------------------
(* The database rows against the book *)

Resting(id) == {w \in Markets \X Sides : PositionsOf(book[w[1]][w[2]], id) # {}}

\* An order's row tells where the order is: open rows and only they are on the
\* book, on the side and market they name and with the remainder on the book
\* that the row has left to execute; a filled row has executed all of it.
RowsMatchBook ==
  \A id \in DOMAIN orders :
    LET row == orders[id]
    IN  /\ Resting(id) = IF row.status = "open" THEN {<<row.market, row.side>>} ELSE {}
        /\ \A i \in PositionsOf(book[row.market][row.side], id) :
             /\ Remaining(book[row.market][row.side][i]) = row.quantity - row.executed
             /\ book[row.market][row.side][i].user = row.user
        /\ row.executed = row.quantity <=> row.status = "filled"

\* Every quantity traded is on the trade tape once and in the order history
\* twice, in the taker's row and in the maker's.
TapeMatchesOrders ==
  \A m \in Markets :
    2 * volume[m] = Total([id \in DOMAIN orders |->
                             IF orders[id].market = m THEN orders[id].executed ELSE 0])

-----------------------------------------------------------------------------
(* Commands *)

\* A refused command leaves the engine as it was, but for an empty entry in
\* the balances of an account that could not pay.
RejectionChangesNothing ==
  [][reply'.type = "ORDER_REJECTED"
       => UNCHANGED <<book, lastTrade, bal, named, ledger, orders, volume>>]_vars

\* Cancelling gives the owner back exactly what the order still had locked,
\* and nobody else gains or loses.
CancelRefundsTheLock ==
  [][reply'.type = "ORDER_CANCELLED" /\ reply' # reply =>
       LET row  == orders[reply'.id]
           pays == Pays(row.market, row.side)
           o    == CHOOSE o \in {book[row.market][row.side][i] :
                                   i \in PositionsOf(book[row.market][row.side], reply'.id)} : TRUE
       IN  bal' = [bal EXCEPT ![row.user][pays] =
                     Lock(@, -Worth(pays, Remaining(o), o.price))]]_vars

\* An id that CREATE_USER hands out belongs to nobody yet: no account of that
\* number has a name, an entry in the balances or an order.  Every step sets
\* the reply, so the steps this looks at are those that create an account.
NewAccountsAreFresh ==
  [][reply'.type = "CREATE_USER" =>
       \A u \in Users : Number[u] = reply'.id =>
         /\ u \notin named
         /\ held[u] = {}
         /\ \A id \in DOMAIN orders : orders[id].user # u]_vars

-----------------------------------------------------------------------------
(* What comments and tests of the source say and the code does not do *)

\* The README's "funds are locked on order placement, released on cancel, and
\* any surplus from filling at a better price is refunded", and the comments of
\* dustEpsilon and releaseFunds on locks nobody can spend: an account with no
\* order on a book has nothing locked.
NothingStranded ==
  \A u \in Users :
    (\A m \in Markets, side \in Sides : \A i \in DOMAIN book[m][side] : book[m][side][i].user # u)
      => \A a \in Assets : bal[u][a].locked = 0

\* TestCancelReportsRealQuantities: the answer to a cancel says how much of the
\* order had executed.
CancelReportsRealQuantities ==
  [][reply'.type = "ORDER_CANCELLED" /\ reply' # reply
       => reply'.executed = orders[reply'.id].executed]_vars

=============================================================================
