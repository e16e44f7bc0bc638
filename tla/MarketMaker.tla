---------------------------- MODULE MarketMaker ----------------------------
(***************************************************************************)
(* The market maker against one market's book (cmd/marketmaker, the order  *)
(* handlers of cmd/api/order.go).                                          *)
(*                                                                         *)
(* The bot is one goroutine that sends one HTTP request after the other:   *)
(* it clears what an earlier process left, and then every tick pulls its   *)
(* ladder, places a new one and prints trades between its two accounts.    *)
(* Markets do not share anything, so there is one.  A request may be       *)
(* refused, or stay without an answer, in which case it is executed now,   *)
(* later (the API waits longer than the bot) or never.                     *)
(***************************************************************************)
EXTENDS Orderbook

CONSTANTS
  Rungs,     \* levels of the ladder on either side
  SubSteps,  \* trades in a tick
  Spread,    \* distance of two levels
  Prices,    \* where the price walks
  Moves,     \* by how much in one step
  Ids,       \* the order ids, used again when nobody knows them any more
  MaxStrays, \* bound: with so many orders given up it prints no trade
  MaxFaults  \* bound: requests without an answer and reads that fail

ASSUME MarketMakerAssumption ==
  /\ Rungs \in Nat \ {0}
  /\ SubSteps \in Nat \ {0}
  /\ Spread \in Nat
  /\ Prices \subseteq Nat
  /\ Ids \subseteq Nat \ {0}
  /\ MaxStrays \in Nat
  /\ MaxFaults \in Nat

VARIABLES
  pc,      \* where the bot is: "down", "clean", "tick", "ladder" or "trade"
  plan,    \* the requests of this part still to send; the first is under way
  ids,     \* what placeLadder collects; in a trade, sellID
  resting, \* the ladder of the last tick
  price, tick, step,
  book,    \* the engine's bids and asks
  late,    \* requests the bot gave up on that will be executed
  stray,   \* the bots' orders it has given up: a request about them or the read of
           \* their account failed unanswered, or they are the legs of a finished
           \* trade, whose ids it was told and dropped
  faults

local == <<pc, plan, ids, resting, price, tick, step>>
vars  == <<local, book, late, stray, faults>>

Bot(n) == IF n % 2 = 0 THEN "mm1" ELSE "mm2"

-----------------------------------------------------------------------------
(* Requests *)

Cancel(id) == [do |-> "cancel", id |-> id]

Cancels(list) == [i \in DOMAIN list |-> Cancel(list[i])]

Read(bot) == [do |-> "read", bot |-> bot]

Place(as, user, side, at, quantity) ==
  [do |-> as, order |-> [id |-> 0, user |-> user, side |-> side, price |-> at,
                         quantity |-> quantity, filled |-> 0]]

\* Bid and ask of each level in turn; the level is also the quantity.
Ladder(at, n) ==
  LET level(k) == (k + 1) \div 2
  IN  [k \in 1 .. 2 * Rungs |->
         IF k % 2 = 1
         THEN Place("rung", Bot(n), "buy", at - Spread * level(k), level(k))
         ELSE Place("rung", Bot(n + 1), "sell", at + Spread * level(k), level(k))]

Legs(at, n) ==
  <<Place("sell", Bot(n), "sell", at, 1), Place("buy", Bot(n + 1), "buy", at, 1)>>

-----------------------------------------------------------------------------
(* The engine's side of them *)

IdsOf(orders) == {orders[i].id : i \in DOMAIN orders}

OnBook(b) == IdsOf(b["buy"]) \cup IdsOf(b["sell"])

OpenOrders(bot) ==
  LET own(side) == Kept(book[side], {o \in Range(book[side]) : o.user = bot})
  IN  own("sell") \o own("buy")

Cancelled(requests) ==
  {requests[i].id : i \in {j \in DOMAIN requests : requests[j].do = "cancel"}}

\* A UUID nobody has: no order, and nobody who would name it.  One stands for
\* all of them.
FreshIds ==
  LET free == Ids \ (OnBook(book) \cup Range(resting) \cup Range(ids)
                       \cup Cancelled(plan) \cup Cancelled(late))
  IN  {i \in free : \A j \in free : i <= j}

\* The order a request is about.
Concerned(request) == IF request.do = "cancel" THEN {request.id} ELSE FreshIds

\* The book after a taker came: what crosses is filled, the remainder rests.
Matched(o, rests) ==
  LET makers == book[Opposite(o.side)]
      filledQty == FilledQty(makers, o)
      left == o.quantity - Total(filledQty)
  IN  [book EXCEPT
         ![Opposite(o.side)] = RemoveFullyFilled(WithFills(makers, filledQty), 0),
         ![o.side] = IF rests /\ left > 0
                     THEN InsertInOrder(@, [o EXCEPT !.quantity = left]) ELSE @]

After(request, id) ==
  IF request.do = "cancel"
  THEN [s \in Sides |-> Kept(book[s], {o \in Range(book[s]) : o.id # id})]
  ELSE Matched([request.order EXCEPT !.id = id], TRUE)

\* Only what is on the book can be given up.
Strays(new) == stray' = (stray \cup new) \cap OnBook(book')

-----------------------------------------------------------------------------
(* What the bot makes of an answer, and of an error *)

Request == Head(plan)

GoesOn(id) ==
  /\ plan' = Tail(plan)
  /\ ids' = CASE Request.do \in {"rung", "sell"} -> Append(ids, id)
              [] Request.do = "buy"              -> <<>>
              [] OTHER                           -> ids
  /\ UNCHANGED <<pc, resting, price, tick, step>>

\* Mutant: the sell leg is left alone when the buy leg fails.
FailsSilently ==
  /\ plan' = IF Request.do = "sell" THEN <<>> ELSE Tail(plan)
  /\ UNCHANGED <<pc, ids, resting, price, tick, step>>

\* A failed rung or cancel is passed over, a failed sell leg ends the trade,
\* a failed buy leg has the sell leg pulled.
Fails ==
  /\ plan' = CASE Request.do = "sell" -> <<>>
               [] Request.do = "buy"  -> Cancels(ids)
               [] OTHER               -> Tail(plan)
  /\ UNCHANGED <<pc, ids, resting, price, tick, step>>

Asks == plan # <<>> /\ Request.do # "read"

Fault == faults < MaxFaults /\ faults' = faults + 1

\* Executed and answered.  A trade whose legs are both placed is over for the
\* bot, whether they met or a better order of somebody else came between: it
\* drops the ids of both.
Answered ==
  /\ Asks
  /\ \E id \in Concerned(Request) :
       /\ book' = After(Request, id)
       /\ Strays(IF Request.do = "buy" THEN Range(ids) \cup {id} ELSE {})
       /\ GoesOn(id)
  /\ UNCHANGED <<late, faults>>

\* The engine refuses the order for want of funds: 400.
Refused ==
  /\ Asks /\ Request.do # "cancel"
  /\ Fails
  /\ UNCHANGED <<book, late, stray, faults>>

\* No answer within ten seconds, or none at all.
Unanswered ==
  /\ Asks
  /\ Fault
  /\ \E id \in Concerned(Request) :
       /\ \/ book' = After(Request, id) /\ UNCHANGED late
          \/ late' = Append(late, Request) /\ UNCHANGED book
          \/ UNCHANGED <<book, late>>
       /\ Strays({id})
  /\ Fails

\* A request nobody waits for any more is executed.
Late(i) ==
  /\ \E id \in Concerned(late[i]) : book' = After(late[i], id) /\ Strays({id})
  /\ late' = RemoveAt(late, i)
  /\ UNCHANGED <<local, faults>>

\* Somebody else takes the best order of a side, or a part of it.
OthersTake(side) ==
  /\ book[side] # <<>>
  /\ book' = Matched([Head(book[side]) EXCEPT !.side = Opposite(side), !.quantity = 1,
                                              !.filled = 0], FALSE)
  /\ Strays({})
  /\ UNCHANGED <<local, late, faults>>

-----------------------------------------------------------------------------
(* The bot *)

\* startingPrices, once the API answers; then cancelResting.
Boot ==
  /\ pc = "down"
  /\ pc' = "clean"
  /\ plan' = <<Read("mm1"), Read("mm2")>>
  /\ price' \in Prices
  /\ ids' = <<>> /\ resting' = <<>> /\ tick' = 0 /\ step' = 0
  /\ stray' = {}
  /\ UNCHANGED <<book, late, faults>>

Found(bot) == OpenOrders(bot)

\* GET /order/open, of one account and then of the other.
ReadOpen ==
  /\ plan # <<>> /\ Request.do = "read"
  /\ LET open == Found(Request.bot)
     IN  plan' = [i \in DOMAIN open |-> Cancel(open[i].id)] \o Tail(plan)
  /\ UNCHANGED <<pc, ids, resting, price, tick, step, book, late, stray, faults>>

\* It cannot be read: the account is passed over.
ReadFails ==
  /\ plan # <<>> /\ Request.do = "read"
  /\ Fault
  /\ plan' = Tail(plan)
  /\ stray' = stray \cup IdsOf(OpenOrders(Request.bot))
  /\ UNCHANGED <<pc, ids, resting, price, tick, step, book, late>>

CleanDone ==
  /\ pc = "clean" /\ plan = <<>>
  /\ pc' = "tick"
  /\ UNCHANGED <<plan, ids, resting, price, tick, step, book, late, stray, faults>>

\* runTick, the first half: the old ladder goes, a new one comes.
Tick ==
  /\ pc = "tick"
  /\ pc' = "ladder"
  /\ plan' = Cancels(resting) \o Ladder(price, tick)
  /\ UNCHANGED <<ids, resting, price, tick, step, book, late, stray, faults>>

\* Mutant: the new ids are added to the old ones.
LadderDoneAdds ==
  /\ pc = "ladder" /\ plan = <<>>
  /\ pc' = "trade"
  /\ resting' = resting \o ids
  /\ ids' = <<>> /\ step' = 0
  /\ UNCHANGED <<plan, price, tick, book, late, stray, faults>>

LadderDone ==
  /\ pc = "ladder" /\ plan = <<>>
  /\ pc' = "trade"
  /\ resting' = ids
  /\ ids' = <<>> /\ step' = 0
  /\ UNCHANGED <<plan, price, tick, book, late, stray, faults>>

\* The second half: nextPrice and trade, step by step.
Trade ==
  /\ pc = "trade" /\ plan = <<>> /\ step < SubSteps
  /\ price' \in {p \in Prices : p - price \in Moves}
  /\ plan' = IF Cardinality(stray) < MaxStrays THEN Legs(price', step) ELSE <<>>
  /\ ids' = <<>>
  /\ step' = step + 1
  /\ UNCHANGED <<pc, resting, tick, book, late, stray, faults>>

TickDone ==
  /\ pc = "trade" /\ plan = <<>> /\ step = SubSteps
  /\ pc' = "tick"
  /\ ids' = <<>> /\ step' = 0
  /\ tick' = (tick + 1) % 2
  /\ UNCHANGED <<plan, resting, price, book, late, stray, faults>>

\* The bot dies, with a request under way that may still be executed.
Crash ==
  /\ pc # "down"
  /\ pc' = "down"
  /\ \/ UNCHANGED <<late, faults>>
     \/ Asks /\ Fault /\ late' = Append(late, Request)
  /\ plan' = <<>> /\ ids' = <<>> /\ resting' = <<>> /\ tick' = 0 /\ step' = 0
  /\ stray' = {}
  /\ UNCHANGED <<price, book>>

-----------------------------------------------------------------------------
Init ==
  /\ pc = "down"
  /\ plan = <<>> /\ ids = <<>> /\ resting = <<>>
  /\ price \in Prices
  /\ tick = 0 /\ step = 0
  /\ book = [s \in Sides |-> <<>>]
  /\ late = <<>> /\ stray = {}
  /\ faults = 0

BotStep ==
  \/ Answered \/ Refused \/ Unanswered \/ ReadOpen \/ ReadFails
  \/ CleanDone \/ Tick \/ LadderDone \/ Trade \/ TickDone

Next ==
  \/ BotStep \/ Boot \/ Crash
  \/ \E i \in DOMAIN late : Late(i)
  \/ \E s \in Sides : OthersTake(s)

Spec == Init /\ [][Next]_vars

-----------------------------------------------------------------------------
(* Properties *)

OrderSeq == Seq(OrderOf({"mm1", "mm2"}))

Asked(r) ==
  \/ r.do = "cancel" /\ r.id \in Ids
  \/ r.do = "read" /\ r.bot \in {"mm1", "mm2"}
  \/ r.do \in {"rung", "sell", "buy"} /\ r.order \in OrderOf({"mm1", "mm2"})

\* The types of the variables; the bot keeps the ids of one ladder, and of one
\* leg, at a time.
TypeOK ==
  /\ pc \in {"down", "clean", "tick", "ladder", "trade"}
  /\ \A i \in DOMAIN plan : Asked(plan[i])
  /\ \A i \in DOMAIN late : Asked(late[i])
  /\ ids \in Seq(Ids) /\ resting \in Seq(Ids)
  /\ Len(ids) <= 2 * Rungs /\ Len(resting) <= 2 * Rungs
  /\ price \in Prices /\ tick \in {0, 1} /\ step \in 0 .. SubSteps
  /\ book["buy"] \in OrderSeq /\ book["sell"] \in OrderSeq
  /\ stray \subseteq Ids /\ faults \in Nat

\* What the bot still has a hand on: ids it keeps, cancels it is to send, and
\* accounts it is to read.
Known ==
  Range(resting) \cup Range(ids) \cup Cancelled(plan)
    \cup UNION {IdsOf(OpenOrders(plan[i].bot)) : i \in {j \in DOMAIN plan : plan[j].do = "read"}}

\* "leaving one permanent orphan per failure" (main.go:164), "They piled up on
\* every restart" (main.go:209): while the bot runs, each order of its accounts
\* on the book is one it will pull, with three exceptions.  A request about the
\* order stayed without an answer; the read of its account failed at the start;
\* or it is a leg of a trade both of whose legs were placed, the id of which the
\* bot was told and dropped (main.go:157-161).
NothingPilesUp == pc # "down" => OnBook(book) \subseteq Known \cup stray
=============================================================================
