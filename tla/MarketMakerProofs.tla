------------------------- MODULE MarketMakerProofs -------------------------
(***************************************************************************)
(* Nothing of the market maker piles up, for ladders of any height, any    *)
(* prices, trades and order ids, any number of refused, unanswered and     *)
(* late requests, crashes and takers: what its accounts have on the book   *)
(* it will pull, but for what no answer came about and for the legs of     *)
(* finished trades, whose ids it drops.                                    *)
(***************************************************************************)
EXTENDS MarketMaker, OperatorProofs

Bots == {"mm1", "mm2"}

Books == [Sides -> OrderSeq]

\* What is sent to the engine, and what else a plan can hold.
Sent == [do : {"cancel"}, id : Ids] \cup [do : {"rung", "sell", "buy"}, order : OrderOf(Bots)]

Requests == Sent \cup [do : {"read"}, bot : Bots]

Does(requests) == {requests[i].do : i \in DOMAIN requests}

\* The accounts still to be read.
Reads(requests) == {requests[i].bot : i \in {j \in DOMAIN requests : requests[j].do = "read"}}

\* Order and owner, on a side and on the book.
Entries(list) == {<<list[i].id, list[i].user>> : i \in DOMAIN list}

Standing(b) == Entries(b["buy"]) \cup Entries(b["sell"])

-----------------------------------------------------------------------------
(* The inductive invariant *)

Shape ==
  /\ pc \in {"down", "clean", "tick", "ladder", "trade"}
  /\ plan \in Seq(Requests) /\ late \in Seq(Sent)
  /\ ids \in Seq(Ids) /\ resting \in Seq(Ids) /\ Len(resting) <= 2 * Rungs
  /\ price \in Prices /\ tick \in {0, 1} /\ step \in 0..SubSteps
  /\ book \in Books /\ OnBook(book) \subseteq Ids
  /\ stray \subseteq Ids /\ faults \in Nat

AtRest == pc \in {"down", "tick"} => plan = << >> /\ ids = << >>

\* After a start every order will be cancelled, or its account will be read.
Cleaning ==
  pc = "clean" =>
    /\ Does(plan) \subseteq {"read", "cancel"}
    /\ ids = << >> /\ resting = << >>
    /\ \A e \in Standing(book) : e[1] \in Cancelled(plan) \cup stray \/ e[2] \in Reads(plan)

\* Between ticks the bot knows its ladder.
Quoting == pc = "tick" => OnBook(book) \subseteq Range(resting) \cup stray

\* The cancels of the old ladder come first; with the rungs still to place it
\* will be at most a ladder.
Climbs(requests, placed) ==
  \E c \in 0..Len(requests) :
    /\ \A i \in 1..Len(requests) : requests[i].do = IF i <= c THEN "cancel" ELSE "rung"
    /\ placed + (Len(requests) - c) <= 2 * Rungs

Climbing ==
  pc = "ladder" =>
    /\ Climbs(plan, Len(ids))
    /\ OnBook(book) \subseteq Range(ids) \cup Cancelled(plan) \cup stray

\* Both legs, the buy leg, or the cancel of the sell leg are still to send.
Trades(requests, own) ==
  \/ Len(requests) = 2 /\ requests[1].do = "sell" /\ requests[2].do = "buy" /\ own = << >>
  \/ Len(requests) = 1 /\ requests[1].do = "buy" /\ Len(own) <= 1
  \/ Does(requests) \subseteq {"cancel"} /\ Len(own) <= 1

\* The sell leg is in hand as long as the buy leg is to come.
InHand(requests, own) ==
  IF requests # << >> /\ requests[1].do = "buy" THEN Range(own) ELSE {}

Trading ==
  pc = "trade" =>
    /\ Trades(plan, ids)
    /\ OnBook(book) \subseteq Range(resting) \cup Cancelled(plan) \cup stray \cup InHand(plan, ids)

Inv == Shape /\ AtRest /\ Cleaning /\ Quoting /\ Climbing /\ Trading

-----------------------------------------------------------------------------
(* Requests *)

\* One request less.
LEMMA OneLess ==
  ASSUME NEW list \in Seq(Requests), list # << >>
  PROVE  /\ Tail(list) \in Seq(Requests) /\ Head(list) \in Requests /\ Head(list) = list[1]
         /\ Len(list) \in Nat /\ Len(list) >= 1 /\ Len(Tail(list)) = Len(list) - 1
         /\ \A i \in 1..(Len(list) - 1) : Tail(list)[i] = list[i + 1]
         /\ Head(list).do \in Does(list) /\ Does(Tail(list)) \subseteq Does(list)
         /\ Cancelled(list) \subseteq
              Cancelled(Tail(list)) \cup (IF Head(list).do = "cancel" THEN {Head(list).id} ELSE {})
         /\ Reads(list) \subseteq
              Reads(Tail(list)) \cup (IF Head(list).do = "read" THEN {Head(list).bot} ELSE {})
<1> DEFINE rest == Tail(list)
<1>1. /\ rest \in Seq(Requests) /\ Head(list) \in Requests /\ Head(list) = list[1]
      /\ Len(list) \in Nat /\ Len(list) >= 1 /\ Len(rest) = Len(list) - 1
      /\ \A i \in 1..(Len(list) - 1) : rest[i] = list[i + 1]
  OBVIOUS
<1>2. DOMAIN list = 1..Len(list) /\ DOMAIN rest = 1..(Len(list) - 1)
  BY <1>1
<1> HIDE DEF rest
<1>3. \A i \in DOMAIN list : \/ i = 1
                             \/ i - 1 \in DOMAIN rest /\ list[i] = rest[i - 1]
  BY <1>1, <1>2
<1>4. Head(list).do \in Does(list) /\ Does(rest) \subseteq Does(list)
  <2>1. 1 \in DOMAIN list /\ \A i \in DOMAIN rest : i + 1 \in DOMAIN list
    BY <1>1, <1>2
  <2> QED
    BY <1>1, <1>2, <2>1 DEF Does
<1>5. Cancelled(list) \subseteq
        Cancelled(rest) \cup (IF Head(list).do = "cancel" THEN {Head(list).id} ELSE {})
  BY <1>1, <1>3 DEF Cancelled
<1>6. Reads(list) \subseteq
        Reads(rest) \cup (IF Head(list).do = "read" THEN {Head(list).bot} ELSE {})
  BY <1>1, <1>3 DEF Reads
<1> QED
  BY <1>1, <1>4, <1>5, <1>6 DEF rest

LEMMA NothingPlanned == Does(<< >>) = {} /\ Cancelled(<< >>) = {} /\ Reads(<< >>) = {}
BY DEF Does, Cancelled, Reads

\* The cancels of a list of ids.
LEMMA CancelsOfIds ==
  ASSUME NEW list \in Seq(Ids)
  PROVE  /\ Cancels(list) \in Seq(Requests) /\ Len(Cancels(list)) = Len(list)
         /\ \A i \in 1..Len(list) : Cancels(list)[i].do = "cancel"
         /\ Does(Cancels(list)) \subseteq {"cancel"}
         /\ Cancelled(Cancels(list)) = Range(list)
<1> DEFINE cancels == Cancels(list)
<1>1. /\ DOMAIN cancels = DOMAIN list
      /\ \A i \in DOMAIN list : cancels[i] = Cancel(list[i])
      /\ cancels = [i \in 1..Len(list) |-> Cancel(list[i])]
  BY DEF Cancels
<1>2. \A i \in DOMAIN list : list[i] \in Ids
  OBVIOUS
<1>3. \A i \in DOMAIN list : /\ Cancel(list[i]) \in Requests
                             /\ Cancel(list[i]).do = "cancel" /\ Cancel(list[i]).id = list[i]
  BY <1>2 DEF Cancel, Requests, Sent
<1>4. Len(list) \in Nat /\ DOMAIN list = 1..Len(list)
  OBVIOUS
<1>5. cancels \in Seq(Requests) /\ Len(cancels) = Len(list)
  BY <1>1, <1>3, <1>4
<1> HIDE DEF cancels
<1>6. Does(cancels) \subseteq {"cancel"} /\ Cancelled(cancels) = Range(list)
  BY <1>1, <1>3 DEF Does, Cancelled, Range
<1> QED
  BY <1>1, <1>3, <1>4, <1>5, <1>6 DEF cancels

\* Two plans, one after the other.
LEMMA BothPlans ==
  ASSUME NEW a \in Seq(Requests), NEW b \in Seq(Requests)
  PROVE  /\ a \o b \in Seq(Requests) /\ Len(a \o b) = Len(a) + Len(b)
         /\ \A i \in 1..(Len(a) + Len(b)) : (a \o b)[i] = IF i <= Len(a) THEN a[i] ELSE b[i - Len(a)]
         /\ Does(a \o b) \subseteq Does(a) \cup Does(b)
         /\ Cancelled(a) \cup Cancelled(b) \subseteq Cancelled(a \o b)
         /\ Reads(b) \subseteq Reads(a \o b)
<1> DEFINE c == a \o b
<1>1. /\ c \in Seq(Requests) /\ Len(c) = Len(a) + Len(b)
      /\ Len(a) \in Nat /\ Len(b) \in Nat
      /\ \A i \in 1..(Len(a) + Len(b)) : c[i] = IF i <= Len(a) THEN a[i] ELSE b[i - Len(a)]
  OBVIOUS
<1>2. DOMAIN c = 1..(Len(a) + Len(b)) /\ DOMAIN a = 1..Len(a) /\ DOMAIN b = 1..Len(b)
  BY <1>1
<1> HIDE DEF c
<1>3. \A i \in DOMAIN a : i \in DOMAIN c /\ c[i] = a[i]
  BY <1>1, <1>2
<1>4. \A i \in DOMAIN b : i + Len(a) \in DOMAIN c /\ c[i + Len(a)] = b[i]
  BY <1>1, <1>2
<1>5. \A i \in DOMAIN c : \/ i \in DOMAIN a /\ c[i] = a[i]
                          \/ i - Len(a) \in DOMAIN b /\ c[i] = b[i - Len(a)]
  BY <1>1, <1>2
<1>6. Does(c) \subseteq Does(a) \cup Does(b)
  BY <1>5 DEF Does
<1>7. Cancelled(a) \cup Cancelled(b) \subseteq Cancelled(c)
  BY <1>3, <1>4 DEF Cancelled
<1>8. Reads(b) \subseteq Reads(c)
  BY <1>4 DEF Reads
<1> QED
  BY <1>1, <1>6, <1>7, <1>8 DEF c

LEMMA OneMoreId ==
  ASSUME NEW list \in Seq(Ids), NEW id \in Ids
  PROVE  /\ Append(list, id) \in Seq(Ids) /\ Len(Append(list, id)) = Len(list) + 1
         /\ Range(Append(list, id)) = Range(list) \cup {id}
<1> DEFINE new == Append(list, id)
<1>1. /\ new \in Seq(Ids) /\ Len(new) = Len(list) + 1 /\ Len(list) \in Nat
      /\ \A i \in 1..Len(list) : new[i] = list[i]
      /\ new[Len(list) + 1] = id
  OBVIOUS
<1>2. DOMAIN new = 1..(Len(list) + 1) /\ DOMAIN list = 1..Len(list)
  BY <1>1
<1> HIDE DEF new
<1>3. \A i \in DOMAIN new : \/ i \in DOMAIN list /\ new[i] = list[i]
                            \/ new[i] = id
  BY <1>1, <1>2
<1>4. \A i \in DOMAIN list : i \in DOMAIN new /\ new[i] = list[i]
  BY <1>1, <1>2
<1>5. Len(list) + 1 \in DOMAIN new
  BY <1>1, <1>2
<1>6. Range(new) = Range(list) \cup {id}
  BY <1>1, <1>3, <1>4, <1>5 DEF Range
<1> QED
  BY <1>1, <1>6 DEF new

-----------------------------------------------------------------------------
(* The book *)

\* Filtering a side adds nobody.
LEMMA KeptEntries ==
  ASSUME NEW list \in Seq(OrderOf(Bots)), NEW wanted
  PROVE  /\ Kept(list, wanted) \in Seq(OrderOf(Bots))
         /\ Entries(Kept(list, wanted)) \subseteq Entries(list)
         /\ \A k \in DOMAIN Kept(list, wanted) : Kept(list, wanted)[k] \in wanted
         /\ \A i \in DOMAIN list : list[i] \in wanted =>
              \E k \in DOMAIN Kept(list, wanted) : Kept(list, wanted)[k] = list[i]
<1> DEFINE far == Kept(list, wanted)
<1>1. far \in Seq(OrderOf(Bots))
  BY KeptType
<1>2. PICK h \in [1..Len(far) -> 1..Len(list)] :
        /\ \A k \in 1..Len(far) : far[k] = list[h[k]] /\ list[h[k]] \in wanted
        /\ \A i \in 1..Len(list) : list[i] \in wanted => \E k \in 1..Len(far) : h[k] = i
  BY KeptWhere
<1> HIDE DEF far
<1>3. DOMAIN far = 1..Len(far) /\ DOMAIN list = 1..Len(list)
  BY <1>1
<1>4. Entries(far) \subseteq Entries(list)
  BY <1>2, <1>3 DEF Entries
<1>5. \A k \in DOMAIN far : far[k] \in wanted
  BY <1>2, <1>3
<1>6. ASSUME NEW i \in DOMAIN list, list[i] \in wanted
      PROVE  \E k \in DOMAIN far : far[k] = list[i]
  <2>1. PICK k \in 1..Len(far) : h[k] = i
    BY <1>2, <1>3, <1>6
  <2> QED
    BY <1>2, <1>3, <2>1
<1> QED
  BY <1>1, <1>4, <1>5, <1>6 DEF far

\* Fills change neither who an order is nor whose.
LEMMA FillsEntries ==
  ASSUME NEW list \in Seq(OrderOf(Bots)), NEW qty \in [DOMAIN list -> Int]
  PROVE  /\ WithFills(list, qty) \in Seq(OrderOf(Bots))
         /\ Entries(WithFills(list, qty)) \subseteq Entries(list)
<1> DEFINE new == WithFills(list, qty)
<1>1. new \in Seq(OrderOf(Bots))
  BY WithFillsType
<1>2. DOMAIN new = DOMAIN list /\ \A i \in DOMAIN list : new[i] = [list[i] EXCEPT !.filled = @ + qty[i]]
  BY DEF WithFills
<1>3. \A i \in DOMAIN list : list[i] \in OrderOf(Bots)
  OBVIOUS
<1>4. \A i \in DOMAIN list : new[i].id = list[i].id /\ new[i].user = list[i].user
  BY <1>2, <1>3 DEF OrderOf
<1> HIDE DEF new
<1>5. Entries(new) \subseteq Entries(list)
  BY <1>2, <1>4 DEF Entries
<1> QED
  BY <1>1, <1>5 DEF new

LEMMA InsertedEntries ==
  ASSUME NEW list \in Seq(OrderOf(Bots)), NEW o \in OrderOf(Bots)
  PROVE  /\ InsertInOrder(list, o) \in Seq(OrderOf(Bots))
         /\ Entries(InsertInOrder(list, o)) \subseteq Entries(list) \cup {<<o.id, o.user>>}
<1> DEFINE new == InsertInOrder(list, o)
           p == InsertPosition(list, o)
<1>1. new \in Seq(OrderOf(Bots)) /\ p \in 1..(Len(list) + 1) /\ Len(list) \in Nat
  BY InsertInOrderType, InsertPositionExists
<1>2. /\ Len(new) = Len(list) + 1
      /\ \A k \in 1..Len(new) : new[k] = IF k < p THEN list[k] ELSE IF k = p THEN o ELSE list[k - 1]
  BY InsertedWhere
<1> HIDE DEF new, p
<1>3. \A k \in DOMAIN new : new[k] = o \/ \E i \in DOMAIN list : new[k] = list[i]
  <2> TAKE k \in DOMAIN new
  <2>1. k \in 1..(Len(list) + 1) /\ DOMAIN list = 1..Len(list)
    BY <1>1, <1>2
  <2>2. CASE k < p
    <3>1. k \in DOMAIN list /\ new[k] = list[k]
      BY <1>1, <1>2, <2>1, <2>2
    <3> QED
      BY <3>1
  <2>3. CASE k = p
    BY <1>1, <1>2, <2>1, <2>3
  <2>4. CASE k > p
    <3>1. k - 1 \in DOMAIN list /\ new[k] = list[k - 1]
      BY <1>1, <1>2, <2>1, <2>4
    <3> QED
      BY <3>1
  <2> QED
    BY <1>1, <2>1, <2>2, <2>3, <2>4
<1>4. Entries(new) \subseteq Entries(list) \cup {<<o.id, o.user>>}
  BY <1>3 DEF Entries
<1> QED
  BY <1>1, <1>4 DEF new

\* A taker leaves orders of the book and, if it rests, itself.
LEMMA MatchedBook ==
  ASSUME book \in Books, NEW o \in OrderOf(Bots), NEW rests \in BOOLEAN
  PROVE  /\ Matched(o, rests) \in Books
         /\ Standing(Matched(o, rests)) \subseteq
              Standing(book) \cup (IF rests THEN {<<o.id, o.user>>} ELSE {})
<1> DEFINE makers == book[Opposite(o.side)]
           qty == FilledQty(makers, o)
           left == o.quantity - Total(qty)
           far == RemoveFullyFilled(WithFills(makers, qty), 0)
           same == book[o.side]
           rest == [o EXCEPT !.quantity = left]
           near == IF rests /\ left > 0 THEN InsertInOrder(same, rest) ELSE same
           new == Matched(o, rests)
<1>1. /\ o.side \in Sides /\ Opposite(o.side) \in Sides /\ Opposite(o.side) # o.side
      /\ \A s \in Sides : s = o.side \/ s = Opposite(o.side)
  BY DEF OrderOf, Opposite, Sides
<1>2. makers \in Seq(OrderOf(Bots)) /\ same \in Seq(OrderOf(Bots))
  BY <1>1 DEF Books, OrderSeq, Bots
<1>3. qty \in [DOMAIN makers -> Int] /\ qty \in Seq(Int)
  BY <1>2, FilledQtyType
<1>4. far \in Seq(OrderOf(Bots)) /\ Entries(far) \subseteq Entries(makers)
  <2> DEFINE list == WithFills(makers, qty)
  <2>1. list \in Seq(OrderOf(Bots)) /\ Entries(list) \subseteq Entries(makers)
    <3> HIDE DEF makers, qty
    <3> QED
      BY <1>2, <1>3, FillsEntries
  <2> HIDE DEF list
  <2>2. RemoveFullyFilled(list, 0) \in Seq(OrderOf(Bots)) /\ Entries(RemoveFullyFilled(list, 0)) \subseteq Entries(list)
    BY <2>1, KeptEntries DEF RemoveFullyFilled
  <2> QED
    BY <2>1, <2>2 DEF list
<1>5. rest \in OrderOf(Bots) /\ rest.id = o.id /\ rest.user = o.user
  <2> HIDE DEF qty
  <2>1. left \in Int
    BY <1>3, TotalType DEF OrderOf
  <2> HIDE DEF left
  <2> QED
    BY <2>1 DEF OrderOf
<1>6. /\ near \in Seq(OrderOf(Bots))
      /\ Entries(near) \subseteq Entries(same) \cup (IF rests THEN {<<o.id, o.user>>} ELSE {})
  <2> HIDE DEF same, rest, left
  <2> QED
    BY <1>2, <1>5, InsertedEntries
<1>7. new = [s \in Sides |-> IF s = o.side THEN near ELSE far]
  <2>1. new = [book EXCEPT ![Opposite(o.side)] = far, ![o.side] = near]
    BY DEF Matched
  <2> HIDE DEF far, near, new
  <2> QED
    BY <1>1, <2>1 DEF Books
<1> HIDE DEF far, near, new, makers, same
<1>8. new \in Books
  BY <1>4, <1>6, <1>7 DEF Books, OrderSeq, Bots
<1>9. Standing(new) = Entries(near) \cup Entries(far)
  BY <1>1, <1>7 DEF Standing, Sides
<1>10. Standing(book) = Entries(same) \cup Entries(makers)
  BY <1>1 DEF Standing, Sides, same, makers
<1> QED
  BY <1>4, <1>6, <1>8, <1>9, <1>10 DEF new

\* An executed request: the order comes, or leaves.
LEMMA AfterBook ==
  ASSUME book \in Books, NEW request \in Sent, NEW id \in Ids, id \in Concerned(request)
  PROVE  /\ After(request, id) \in Books
         /\ request.do = "cancel" => /\ Standing(After(request, id)) \subseteq Standing(book)
                                     /\ id = request.id
                                     /\ \A e \in Standing(After(request, id)) : e[1] # id
         /\ request.do # "cancel" => \A e \in Standing(After(request, id)) :
                                       e \in Standing(book) \/ e[1] = id
<1> DEFINE new == After(request, id)
<1>1. CASE request.do = "cancel"
  <2>1. new = [s \in Sides |-> Kept(book[s], {o \in Range(book[s]) : o.id # id})] /\ id = request.id
    BY <1>1 DEF After, Concerned
  <2>2. ASSUME NEW s \in Sides
        PROVE  /\ new[s] \in Seq(OrderOf(Bots)) /\ Entries(new[s]) \subseteq Entries(book[s])
               /\ \A k \in DOMAIN new[s] : new[s][k].id # id
    <3> DEFINE list == book[s]
               wanted == {o \in Range(list) : o.id # id}
    <3>1. list \in Seq(OrderOf(Bots)) /\ new[s] = Kept(list, wanted)
      BY <2>1 DEF Books, OrderSeq, Bots
    <3>2. \A o \in wanted : o.id # id
      OBVIOUS
    <3> HIDE DEF new, list, wanted
    <3>3. /\ new[s] \in Seq(OrderOf(Bots)) /\ Entries(new[s]) \subseteq Entries(list)
          /\ \A k \in DOMAIN new[s] : new[s][k] \in wanted
      BY <3>1, KeptEntries
    <3> QED
      BY <3>2, <3>3 DEF list
  <2>3. new \in [Sides -> Seq(OrderOf(Bots))]
    <3>1. new = [s \in Sides |-> new[s]]
      BY <2>1
    <3> HIDE DEF new
    <3> QED
      BY <2>2, <3>1
  <2> HIDE DEF new
  <2>4. \A e \in Standing(new) : e[1] # id
    BY <2>2 DEF Standing, Entries, Sides
  <2>5. Standing(new) \subseteq Standing(book)
    BY <2>2 DEF Standing, Sides
  <2> QED
    BY <1>1, <2>1, <2>3, <2>4, <2>5 DEF new, Books, OrderSeq, Bots
<1>2. CASE request.do # "cancel"
  <2> DEFINE o == [request.order EXCEPT !.id = id]
  <2>1. new = Matched(o, TRUE)
    BY <1>2 DEF After
  <2>2. request.order \in OrderOf(Bots) /\ id \in Nat
    BY <1>2, MarketMakerAssumption DEF Sent
  <2>3. o \in OrderOf(Bots) /\ o.id = id
    BY <2>2 DEF OrderOf
  <2> HIDE DEF o, new
  <2>4. new \in Books /\ Standing(new) \subseteq Standing(book) \cup {<<o.id, o.user>>}
    BY <2>1, <2>3, MatchedBook
  <2> QED
    BY <1>2, <2>3, <2>4 DEF new
<1> QED
  BY <1>1, <1>2

LEMMA IdsOfIs ==
  ASSUME NEW list
  PROVE  IdsOf(list) = {e[1] : e \in Entries(list)}
<1>1. ASSUME NEW i \in DOMAIN list PROVE list[i].id \in {e[1] : e \in Entries(list)}
  <2>1. <<list[i].id, list[i].user>> \in Entries(list)
    BY DEF Entries
  <2>2. <<list[i].id, list[i].user>>[1] = list[i].id
    OBVIOUS
  <2> QED
    BY <2>1, <2>2
<1>2. ASSUME NEW e \in Entries(list) PROVE e[1] \in IdsOf(list)
  <2>1. PICK i \in DOMAIN list : e = <<list[i].id, list[i].user>>
    BY DEF Entries
  <2> QED
    BY <2>1 DEF IdsOf
<1>3. IdsOf(list) \subseteq {e[1] : e \in Entries(list)}
  BY <1>1 DEF IdsOf
<1> QED
  BY <1>2, <1>3

\* What is on the book, by id.
LEMMA OnBookIs ==
  ASSUME NEW b
  PROVE  OnBook(b) = {e[1] : e \in Standing(b)}
<1>1. /\ IdsOf(b["buy"]) = {e[1] : e \in Entries(b["buy"])}
      /\ IdsOf(b["sell"]) = {e[1] : e \in Entries(b["sell"])}
  BY IdsOfIs
<1> QED
  BY <1>1 DEF OnBook, Standing

\* GET /order/open returns the account's orders.
LEMMA OpenOrdersFound ==
  ASSUME book \in Books, NEW bot
  PROVE  /\ OpenOrders(bot) \in Seq(OrderOf(Bots))
         /\ IdsOf(OpenOrders(bot)) \subseteq OnBook(book)
         /\ \A e \in Standing(book) : e[2] = bot => e[1] \in IdsOf(OpenOrders(bot))
<1> DEFINE own(side) == Kept(book[side], {o \in Range(book[side]) : o.user = bot})
           open == OpenOrders(bot)
           a == own("sell")
           b == own("buy")
<1>1. ASSUME NEW s \in Sides
      PROVE  /\ own(s) \in Seq(OrderOf(Bots)) /\ Entries(own(s)) \subseteq Entries(book[s])
             /\ \A e \in Entries(book[s]) : e[2] = bot => e \in Entries(own(s))
  <2> DEFINE list == book[s]
             wanted == {o \in Range(list) : o.user = bot}
             kept == Kept(list, wanted)
  <2>1. list \in Seq(OrderOf(Bots))
    BY DEF Books, OrderSeq, Bots
  <2>2. \A i \in DOMAIN list : list[i].user = bot => list[i] \in wanted
    BY DEF Range
  <2> HIDE DEF list, wanted
  <2>3. /\ kept \in Seq(OrderOf(Bots)) /\ Entries(kept) \subseteq Entries(list)
        /\ \A i \in DOMAIN list : list[i] \in wanted => \E k \in DOMAIN kept : kept[k] = list[i]
    BY <2>1, KeptEntries
  <2> HIDE DEF kept
  <2>4. ASSUME NEW e \in Entries(list), e[2] = bot PROVE e \in Entries(kept)
    <3>1. PICK i \in DOMAIN list : e = <<list[i].id, list[i].user>>
      BY DEF Entries
    <3>2. PICK k \in DOMAIN kept : kept[k] = list[i]
      BY <2>2, <2>3, <2>4, <3>1
    <3> QED
      BY <3>1, <3>2 DEF Entries
  <2> QED
    BY <2>3, <2>4 DEF kept, list, wanted
<1>2. "buy" \in Sides /\ "sell" \in Sides /\ open = a \o b
  BY DEF Sides, OpenOrders
<1>3. /\ a \in Seq(OrderOf(Bots)) /\ b \in Seq(OrderOf(Bots))
      /\ Entries(a) \subseteq Entries(book["sell"]) /\ Entries(b) \subseteq Entries(book["buy"])
      /\ \A e \in Entries(book["sell"]) : e[2] = bot => e \in Entries(a)
      /\ \A e \in Entries(book["buy"]) : e[2] = bot => e \in Entries(b)
  BY <1>1, <1>2
<1> HIDE DEF a, b, open
<1>4. open \in Seq(OrderOf(Bots)) /\ Entries(open) = Entries(a) \cup Entries(b)
  <2>1. /\ open \in Seq(OrderOf(Bots)) /\ Len(a) \in Nat /\ Len(b) \in Nat
        /\ DOMAIN a = 1..Len(a) /\ DOMAIN b = 1..Len(b) /\ DOMAIN open = 1..(Len(a) + Len(b))
        /\ \A i \in 1..(Len(a) + Len(b)) : open[i] = IF i <= Len(a) THEN a[i] ELSE b[i - Len(a)]
    BY <1>2, <1>3
  <2>2. \A i \in DOMAIN a : i \in DOMAIN open /\ open[i] = a[i]
    BY <2>1
  <2>3. \A i \in DOMAIN b : i + Len(a) \in DOMAIN open /\ open[i + Len(a)] = b[i]
    BY <2>1
  <2>4. \A i \in DOMAIN open : \/ i \in DOMAIN a /\ open[i] = a[i]
                               \/ i - Len(a) \in DOMAIN b /\ open[i] = b[i - Len(a)]
    BY <2>1
  <2>5. Entries(open) \subseteq Entries(a) \cup Entries(b)
    BY <2>4 DEF Entries
  <2>6. Entries(a) \cup Entries(b) \subseteq Entries(open)
    BY <2>2, <2>3 DEF Entries
  <2> QED
    BY <2>1, <2>5, <2>6
<1>5. IdsOf(open) = {e[1] : e \in Entries(open)}
  BY IdsOfIs
<1>6. IdsOf(open) \subseteq OnBook(book)
  BY <1>3, <1>4, <1>5, OnBookIs DEF Standing
<1>7. \A e \in Standing(book) : e[2] = bot => e[1] \in IdsOf(open)
  BY <1>3, <1>4, <1>5 DEF Standing
<1> QED
  BY <1>4, <1>6, <1>7 DEF open

\* The same by id.
LEMMA AfterOnBook ==
  ASSUME book \in Books, NEW request \in Sent, NEW id \in Ids, id \in Concerned(request)
  PROVE  /\ request.do = "cancel" => /\ OnBook(After(request, id)) \subseteq OnBook(book)
                                     /\ id = request.id /\ id \notin OnBook(After(request, id))
         /\ request.do # "cancel" => OnBook(After(request, id)) \subseteq OnBook(book) \cup {id}
<1> DEFINE new == After(request, id)
<1> HIDE DEF new
<1>1. OnBook(new) = {e[1] : e \in Standing(new)} /\ OnBook(book) = {e[1] : e \in Standing(book)}
  BY OnBookIs
<1>2. CASE request.do = "cancel"
  BY <1>1, <1>2, AfterBook DEF new
<1>3. CASE request.do # "cancel"
  BY <1>1, <1>3, AfterBook DEF new
<1> QED
  BY <1>2, <1>3 DEF new

-----------------------------------------------------------------------------
(* Where the bot is *)

LEMMA ClimbsOn ==
  ASSUME NEW list \in Seq(Requests), list # << >>, NEW n \in Nat, Climbs(list, n)
  PROVE  /\ Head(list).do \in {"cancel", "rung"}
         /\ Climbs(Tail(list), n)
         /\ Head(list).do = "rung" => Climbs(Tail(list), n + 1)
<1> DEFINE rest == Tail(list)
<1>1. /\ Head(list) = list[1] /\ Len(list) \in Nat /\ Len(list) >= 1
      /\ Len(rest) = Len(list) - 1 /\ \A i \in 1..(Len(list) - 1) : rest[i] = list[i + 1]
  BY OneLess
<1>2. PICK c \in 0..Len(list) :
        /\ \A i \in 1..Len(list) : list[i].do = IF i <= c THEN "cancel" ELSE "rung"
        /\ n + (Len(list) - c) <= 2 * Rungs
  BY DEF Climbs
<1>3. list[1].do = IF 1 <= c THEN "cancel" ELSE "rung"
  BY <1>1, <1>2
<1>4. 2 * Rungs \in Nat
  BY MarketMakerAssumption
<1> HIDE DEF rest
<1>5. CASE c = 0
  <2>1. \A i \in 1..Len(rest) : rest[i].do = IF i <= 0 THEN "cancel" ELSE "rung"
    BY <1>1, <1>2, <1>5
  <2>2. 0 \in 0..Len(rest) /\ n + (Len(rest) - 0) <= 2 * Rungs /\ (n + 1) + (Len(rest) - 0) <= 2 * Rungs
    BY <1>1, <1>2, <1>4, <1>5
  <2>3. Climbs(rest, n) /\ Climbs(rest, n + 1)
    BY <2>1, <2>2 DEF Climbs
  <2> QED
    BY <1>1, <1>3, <1>5, <2>3 DEF rest
<1>6. CASE c # 0
  <2>1. \A i \in 1..Len(rest) : rest[i].do = IF i <= c - 1 THEN "cancel" ELSE "rung"
    <3> TAKE i \in 1..Len(rest)
    <3>1. rest[i] = list[i + 1] /\ i + 1 \in 1..Len(list) /\ i \in Nat
      BY <1>1
    <3>2. i + 1 <= c <=> i <= c - 1
      BY <3>1
    <3> QED
      BY <1>2, <3>1, <3>2
  <2>2. c - 1 \in 0..Len(rest) /\ n + (Len(rest) - (c - 1)) <= 2 * Rungs
    BY <1>1, <1>2, <1>4, <1>6
  <2>3. Climbs(rest, n)
    BY <2>1, <2>2 DEF Climbs
  <2>4. list[1].do = "cancel"
    BY <1>2, <1>3, <1>6
  <2> QED
    BY <1>1, <2>3, <2>4 DEF rest
<1> QED
  BY <1>5, <1>6

LEMMA TradesOn ==
  ASSUME NEW list \in Seq(Requests), list # << >>, NEW own \in Seq(Ids), Trades(list, own)
  PROVE  /\ Head(list).do \in {"sell", "buy", "cancel"} /\ Len(own) <= 1
         /\ Head(list).do = "sell" =>
              /\ own = << >> /\ Cancelled(list) = {} /\ InHand(list, own) = {}
              /\ \A id \in Ids : /\ Trades(Tail(list), Append(own, id))
                                 /\ InHand(Tail(list), Append(own, id)) = {id}
         /\ Head(list).do = "buy" =>
              Tail(list) = << >> /\ Cancelled(list) = {} /\ InHand(list, own) = Range(own)
         /\ Head(list).do = "cancel" =>
              /\ Trades(Tail(list), own)
              /\ InHand(list, own) = {} /\ InHand(Tail(list), own) = {}
<1> DEFINE rest == Tail(list)
<1>1. /\ Head(list) = list[1] /\ Len(list) \in Nat /\ Len(list) >= 1 /\ rest \in Seq(Requests)
      /\ Len(rest) = Len(list) - 1 /\ \A i \in 1..(Len(list) - 1) : rest[i] = list[i + 1]
      /\ Head(list).do \in Does(list) /\ Does(rest) \subseteq Does(list)
  BY OneLess
<1>2. DOMAIN list = 1..Len(list) /\ Len(<< >>) = 0
  BY <1>1
<1>3. CASE Len(list) = 2 /\ list[1].do = "sell" /\ list[2].do = "buy" /\ own = << >>
  <2>1. Cancelled(list) = {}
    BY <1>2, <1>3 DEF Cancelled
  <2> HIDE DEF rest
  <2>2. Len(rest) = 1 /\ rest[1].do = "buy" /\ rest # << >>
    BY <1>1, <1>3
  <2>3. ASSUME NEW id \in Ids
        PROVE  Trades(rest, Append(own, id)) /\ InHand(rest, Append(own, id)) = {id}
    <3>1. Len(Append(own, id)) = 1 /\ Range(Append(own, id)) = {id}
      BY <1>2, <1>3, OneMoreId DEF Range
    <3> QED
      BY <2>2, <3>1 DEF Trades, InHand
  <2>4. InHand(list, own) = {}
    BY <1>3 DEF InHand
  <2> QED
    BY <1>1, <1>2, <1>3, <2>1, <2>3, <2>4 DEF rest
<1>4. CASE Len(list) = 1 /\ list[1].do = "buy" /\ Len(own) <= 1
  <2>1. Cancelled(list) = {}
    BY <1>2, <1>4 DEF Cancelled
  <2>2. rest = << >>
    <3> HIDE DEF rest
    <3> QED
      BY <1>1, <1>4, EmptySeq
  <2>3. InHand(list, own) = Range(own)
    BY <1>2, <1>4 DEF InHand
  <2> QED
    BY <1>1, <1>4, <2>1, <2>2, <2>3
<1>5. CASE Does(list) \subseteq {"cancel"} /\ Len(own) <= 1
  <2>1. Head(list).do = "cancel" /\ Does(rest) \subseteq {"cancel"}
    BY <1>1, <1>5
  <2> HIDE DEF rest
  <2>2. rest # << >> => rest[1].do \in Does(rest)
    BY <1>1, OneLess
  <2>3. Trades(rest, own) /\ InHand(list, own) = {} /\ InHand(rest, own) = {}
    BY <1>1, <1>5, <2>1, <2>2 DEF Trades, InHand
  <2> QED
    BY <1>5, <2>1, <2>3 DEF rest
<1> QED
  BY <1>3, <1>4, <1>5 DEF Trades

\* What the bot can send, and when.
LEMMA Sending ==
  ASSUME Inv, Asks
  PROVE  /\ Request \in Sent /\ Request = plan[1] /\ pc \in {"clean", "ladder", "trade"}
         /\ pc = "clean" => Request.do = "cancel"
         /\ Request.do \in {"cancel", "rung", "sell", "buy"}
         /\ Concerned(Request) \subseteq Ids
<1>1. plan \in Seq(Requests) /\ plan # << >> /\ Request.do # "read"
  BY DEF Inv, Shape, Asks
<1>2. Request \in Requests /\ Request = plan[1] /\ Request.do \in Does(plan)
  BY <1>1, OneLess DEF Request
<1>3. Request \in Sent
  BY <1>1, <1>2 DEF Requests
<1>4. pc \in {"clean", "ladder", "trade"}
  BY <1>1 DEF Inv, Shape, AtRest
<1>5. pc = "clean" => Request.do = "cancel"
  BY <1>1, <1>2 DEF Inv, Cleaning
<1>6. FreshIds \subseteq Ids
  BY DEF FreshIds
<1>7. Concerned(Request) \subseteq Ids
  BY <1>3, <1>6 DEF Concerned, Sent
<1>8. Request.do \in {"cancel", "rung", "sell", "buy"}
  BY <1>3 DEF Sent
<1> QED
  BY <1>2, <1>3, <1>4, <1>5, <1>7, <1>8

-----------------------------------------------------------------------------
(* Requests under way *)

\* An answer: the request is executed, and the bot learns the id.
LEMMA AnsweredKeeps ==
  ASSUME Inv, Answered
  PROVE  Inv'
<1>1. PICK id \in Concerned(Request) :
        /\ book' = After(Request, id)
        /\ Strays(IF Request.do = "buy" THEN Range(ids) \cup {id} ELSE {})
        /\ GoesOn(id)
  BY DEF Answered
<1>2. /\ Request \in Sent /\ Request = plan[1] /\ pc \in {"clean", "ladder", "trade"}
      /\ pc = "clean" => Request.do = "cancel"
      /\ Request.do \in {"cancel", "rung", "sell", "buy"}
      /\ id \in Ids
  BY <1>1, Sending DEF Answered
<1>3. plan \in Seq(Requests) /\ plan # << >> /\ Request = Head(plan) /\ ids \in Seq(Ids)
  BY DEF Inv, Shape, Answered, Asks, Request
<1>4. /\ plan' = Tail(plan) /\ late' = late /\ faults' = faults
      /\ pc' = pc /\ resting' = resting /\ price' = price /\ tick' = tick /\ step' = step
      /\ Request.do \in {"rung", "sell"} => ids' = Append(ids, id)
      /\ Request.do = "buy" => ids' = << >>
      /\ Request.do = "cancel" => ids' = ids
  BY <1>1 DEF Answered, GoesOn
<1>5. stray' = (stray \cup (IF Request.do = "buy" THEN Range(ids) \cup {id} ELSE {})) \cap OnBook(book')
  BY <1>1 DEF Strays
<1>6. /\ plan' \in Seq(Requests)
      /\ Cancelled(plan) \subseteq
           Cancelled(plan') \cup (IF Request.do = "cancel" THEN {Request.id} ELSE {})
      /\ Request.do # "read" => Reads(plan) \subseteq Reads(plan')
      /\ Does(plan') \subseteq Does(plan)
  BY <1>3, <1>4, OneLess
<1>7. /\ book' \in Books
      /\ Request.do = "cancel" => /\ OnBook(book') \subseteq OnBook(book)
                                  /\ id = Request.id /\ id \notin OnBook(book')
      /\ Request.do # "cancel" => OnBook(book') \subseteq OnBook(book) \cup {id}
  BY <1>1, <1>2, AfterBook, AfterOnBook DEF Inv, Shape
<1>8. Range(ids) \subseteq Ids /\ << >> \in Seq(Ids) /\ Append(ids, id) \in Seq(Ids)
      /\ Len(Append(ids, id)) = Len(ids) + 1 /\ Range(Append(ids, id)) = Range(ids) \cup {id}
      /\ Len(ids) \in Nat
  BY <1>2, <1>3, OneMoreId DEF Range
<1>9. Shape'
  BY <1>2, <1>4, <1>5, <1>6, <1>7, <1>8 DEF Inv, Shape
<1>10. AtRest' /\ Quoting'
  BY <1>2, <1>4 DEF AtRest, Quoting
<1>11. Cleaning'
  <2> SUFFICES ASSUME pc = "clean" PROVE Cleaning'
    BY <1>4 DEF Cleaning
  <2>1. Request.do = "cancel"
    BY <1>2
  <2>2. /\ Does(plan) \subseteq {"read", "cancel"} /\ ids = << >> /\ resting = << >>
        /\ \A e \in Standing(book) : e[1] \in Cancelled(plan) \cup stray \/ e[2] \in Reads(plan)
    BY DEF Inv, Cleaning
  <2>3. ASSUME NEW e \in Standing(book')
        PROVE  e[1] \in Cancelled(plan') \cup stray' \/ e[2] \in Reads(plan')
    <3>1. e \in Standing(book) /\ e[1] # Request.id
      BY <1>1, <1>2, <2>1, AfterBook DEF Inv, Shape
    <3>2. e[1] \in OnBook(book')
      BY OnBookIs
    <3> QED
      BY <1>5, <1>6, <2>1, <2>2, <3>1, <3>2
  <2> QED
    BY <1>4, <1>6, <2>1, <2>2, <2>3 DEF Cleaning
<1>12. Climbing'
  <2> SUFFICES ASSUME pc = "ladder" PROVE Climbing'
    BY <1>4 DEF Climbing
  <2>1. Climbs(plan, Len(ids)) /\ OnBook(book) \subseteq Range(ids) \cup Cancelled(plan) \cup stray
    BY DEF Inv, Climbing
  <2>2. /\ Request.do \in {"cancel", "rung"} /\ Climbs(plan', Len(ids))
        /\ Request.do = "rung" => Climbs(plan', Len(ids) + 1)
    BY <1>3, <1>4, <1>8, <2>1, ClimbsOn
  <2>3. Climbs(plan', Len(ids'))
    BY <1>4, <1>8, <2>2
  <2>4. OnBook(book') \subseteq Range(ids') \cup Cancelled(plan') \cup stray'
    BY <1>4, <1>5, <1>6, <1>7, <1>8, <2>1, <2>2
  <2> QED
    BY <2>3, <2>4 DEF Climbing
<1>13. Trading'
  <2> SUFFICES ASSUME pc = "trade" PROVE Trading'
    BY <1>4 DEF Trading
  <2>1. Trades(plan, ids)
        /\ OnBook(book) \subseteq Range(resting) \cup Cancelled(plan) \cup stray \cup InHand(plan, ids)
    BY DEF Inv, Trading
  <2>2. CASE Request.do = "sell"
    <3>0. /\ Cancelled(plan) = {} /\ InHand(plan, ids) = {}
          /\ \A w \in Ids : /\ Trades(Tail(plan), Append(ids, w))
                            /\ InHand(Tail(plan), Append(ids, w)) = {w}
      BY <1>3, <2>1, <2>2, TradesOn
    <3>1. /\ Cancelled(plan) = {} /\ InHand(plan, ids) = {}
          /\ Trades(plan', ids') /\ InHand(plan', ids') = {id}
      BY <1>2, <1>4, <2>2, <3>0
    <3>2. OnBook(book') \subseteq Range(resting) \cup stray' \cup {id}
      BY <1>5, <1>7, <2>1, <2>2, <3>1
    <3> QED
      BY <1>4, <3>1, <3>2 DEF Trading
  <2>3. CASE Request.do = "buy"
    <3>1. plan' = << >> /\ ids' = << >> /\ Cancelled(plan) = {} /\ InHand(plan, ids) = Range(ids)
      BY <1>3, <1>4, <2>1, <2>3, TradesOn
    <3>2. OnBook(book') \subseteq Range(resting) \cup stray'
      BY <1>5, <1>7, <2>1, <2>3, <3>1
    <3>3. Trades(plan', ids')
      BY <3>1, NothingPlanned DEF Trades
    <3> QED
      BY <1>4, <3>2, <3>3 DEF Trading
  <2>4. CASE Request.do = "cancel"
    <3>1. Trades(plan', ids') /\ InHand(plan, ids) = {} /\ InHand(plan', ids') = {}
      BY <1>3, <1>4, <2>1, <2>4, TradesOn
    <3>2. OnBook(book') \subseteq Range(resting) \cup Cancelled(plan') \cup stray'
      BY <1>5, <1>6, <1>7, <2>1, <2>4, <3>1
    <3> QED
      BY <1>4, <3>1, <3>2 DEF Trading
  <2> QED
    BY <1>3, <2>1, <2>2, <2>3, <2>4, TradesOn
<1> QED
  BY <1>9, <1>10, <1>11, <1>12, <1>13 DEF Inv

\* A refusal, or a request without an answer: the bot goes on without it.  If
\* it was about an order on the book, that one is given up.
LEMMA FailsKeeps ==
  ASSUME Inv, Asks, Fails,
         book' \in Books, OnBook(book') \subseteq Ids, late' \in Seq(Sent), faults' \in Nat,
         stray' \subseteq Ids,
         \A e \in Standing(book') :
           \/ e[1] \in stray'
           \/ e \in Standing(book) /\ e[1] \notin stray
                /\ (Request.do = "cancel" => e[1] # Request.id)
  PROVE  Inv'
<1>1. /\ Request \in Sent /\ Request = plan[1] /\ pc \in {"clean", "ladder", "trade"}
      /\ pc = "clean" => Request.do = "cancel"
      /\ Request.do \in {"cancel", "rung", "sell", "buy"}
  BY Sending
<1>2. plan \in Seq(Requests) /\ plan # << >> /\ Request = Head(plan) /\ ids \in Seq(Ids)
      /\ Len(ids) \in Nat
  BY DEF Inv, Shape, Asks, Request
<1>3. /\ pc' = pc /\ ids' = ids /\ resting' = resting
      /\ price' = price /\ tick' = tick /\ step' = step
      /\ Request.do = "sell" => plan' = << >>
      /\ Request.do = "buy" => plan' = Cancels(ids)
      /\ Request.do \in {"cancel", "rung"} => plan' = Tail(plan)
  BY <1>1 DEF Fails
<1>4. /\ Tail(plan) \in Seq(Requests)
      /\ Cancelled(plan) \subseteq
           Cancelled(Tail(plan)) \cup (IF Request.do = "cancel" THEN {Request.id} ELSE {})
      /\ Request.do # "read" => Reads(plan) \subseteq Reads(Tail(plan))
      /\ Does(Tail(plan)) \subseteq Does(plan)
  BY <1>2, OneLess
<1>5. /\ Cancels(ids) \in Seq(Requests) /\ Does(Cancels(ids)) \subseteq {"cancel"}
      /\ Cancelled(Cancels(ids)) = Range(ids)
  BY <1>2, CancelsOfIds
<1>6. plan' \in Seq(Requests)
  <2>1. << >> \in Seq(Requests)
    OBVIOUS
  <2> QED
    BY <1>1, <1>3, <1>4, <1>5, <2>1
<1>8. Shape'
  BY <1>3, <1>6 DEF Inv, Shape
<1>9. AtRest' /\ Quoting'
  BY <1>1, <1>3 DEF AtRest, Quoting
<1>10. \A w \in OnBook(book') :
         \/ w \in stray'
         \/ w \in OnBook(book) /\ w \notin stray /\ (Request.do = "cancel" => w # Request.id)
  BY OnBookIs
<1>11. Cleaning'
  <2> SUFFICES ASSUME pc = "clean" PROVE Cleaning'
    BY <1>3 DEF Cleaning
  <2>1. Request.do = "cancel" /\ plan' = Tail(plan)
    BY <1>1, <1>3
  <2>2. /\ Does(plan) \subseteq {"read", "cancel"} /\ ids = << >> /\ resting = << >>
        /\ \A e \in Standing(book) : e[1] \in Cancelled(plan) \cup stray \/ e[2] \in Reads(plan)
    BY DEF Inv, Cleaning
  <2>3. ASSUME NEW e \in Standing(book')
        PROVE  e[1] \in Cancelled(plan') \cup stray' \/ e[2] \in Reads(plan')
    <3>1. CASE e[1] \in stray'
      BY <3>1
    <3>2. CASE e \in Standing(book) /\ e[1] \notin stray /\ e[1] # Request.id
      BY <1>4, <2>1, <2>2, <3>2
    <3> QED
      BY <2>1, <3>1, <3>2
  <2> QED
    BY <1>3, <1>4, <2>1, <2>2, <2>3 DEF Cleaning
<1>12. Climbing'
  <2> SUFFICES ASSUME pc = "ladder" PROVE Climbing'
    BY <1>3 DEF Climbing
  <2>1. Climbs(plan, Len(ids)) /\ OnBook(book) \subseteq Range(ids) \cup Cancelled(plan) \cup stray
    BY DEF Inv, Climbing
  <2>2. Request.do \in {"cancel", "rung"} /\ Climbs(Tail(plan), Len(ids))
    BY <1>2, <2>1, ClimbsOn
  <2>3. OnBook(book') \subseteq Range(ids) \cup Cancelled(Tail(plan)) \cup stray'
    BY <1>4, <1>10, <2>1
  <2> QED
    BY <1>3, <2>2, <2>3 DEF Climbing
<1>13. Trading'
  <2> SUFFICES ASSUME pc = "trade" PROVE Trading'
    BY <1>3 DEF Trading
  <2>1. Trades(plan, ids)
        /\ OnBook(book) \subseteq Range(resting) \cup Cancelled(plan) \cup stray \cup InHand(plan, ids)
    BY DEF Inv, Trading
  <2>2. Len(ids) <= 1 /\ Request.do \in {"sell", "buy", "cancel"}
    BY <1>2, <2>1, TradesOn
  <2>3. CASE Request.do = "sell"
    <3>1. Cancelled(plan) = {} /\ InHand(plan, ids) = {}
      BY <1>2, <2>1, <2>3, TradesOn
    <3>2. OnBook(book') \subseteq Range(resting) \cup stray'
      BY <1>10, <2>1, <3>1
    <3>3. plan' = << >> /\ Trades(plan', ids')
      BY <1>3, <2>2, <2>3, NothingPlanned DEF Trades
    <3> QED
      BY <1>3, <3>2, <3>3 DEF Trading
  <2>4. CASE Request.do = "buy"
    <3>1. Cancelled(plan) = {} /\ InHand(plan, ids) = Range(ids)
      BY <1>2, <2>1, <2>4, TradesOn
    <3>2. OnBook(book') \subseteq Range(resting) \cup stray' \cup Range(ids)
      BY <1>10, <2>1, <3>1
    <3>3. plan' = Cancels(ids) /\ Trades(plan', ids')
      BY <1>3, <1>5, <2>2, <2>4 DEF Trades
    <3> QED
      BY <1>3, <1>5, <3>2, <3>3 DEF Trading
  <2>5. CASE Request.do = "cancel"
    <3>1. Trades(Tail(plan), ids) /\ InHand(plan, ids) = {}
      BY <1>2, <2>1, <2>5, TradesOn
    <3>2. OnBook(book') \subseteq Range(resting) \cup Cancelled(Tail(plan)) \cup stray'
      BY <1>4, <1>10, <2>1, <2>5, <3>1
    <3> QED
      BY <1>3, <2>5, <3>1, <3>2 DEF Trading
  <2> QED
    BY <2>2, <2>3, <2>4, <2>5
<1> QED
  BY <1>8, <1>9, <1>11, <1>12, <1>13 DEF Inv

LEMMA RefusedKeeps ==
  ASSUME Inv, Refused
  PROVE  Inv'
<1>1. Asks /\ Request.do # "cancel" /\ Fails
      /\ book' = book /\ late' = late /\ stray' = stray /\ faults' = faults
  BY DEF Refused
<1>2. /\ book' \in Books /\ OnBook(book') \subseteq Ids /\ late' \in Seq(Sent) /\ faults' \in Nat
      /\ stray' \subseteq Ids
  BY <1>1 DEF Inv, Shape
<1>3. \A e \in Standing(book') :
        \/ e[1] \in stray'
        \/ e \in Standing(book) /\ e[1] \notin stray
             /\ (Request.do = "cancel" => e[1] # Request.id)
  BY <1>1
<1> QED
  BY <1>1, <1>2, <1>3, FailsKeeps

LEMMA UnansweredKeeps ==
  ASSUME Inv, Unanswered
  PROVE  Inv'
<1>1. PICK id \in Concerned(Request) :
        /\ \/ book' = After(Request, id) /\ late' = late
           \/ late' = Append(late, Request) /\ book' = book
           \/ book' = book /\ late' = late
        /\ Strays({id})
  BY DEF Unanswered
<1>2. Asks /\ Fails /\ faults' = faults + 1
  BY DEF Unanswered, Fault
<1>3. /\ Request \in Sent /\ id \in Ids
      /\ Request.do = "cancel" => id = Request.id
  BY <1>1, <1>2, Sending DEF Concerned
<1>4. /\ book \in Books /\ OnBook(book) \subseteq Ids /\ late \in Seq(Sent) /\ faults \in Nat
      /\ stray \subseteq Ids
  BY DEF Inv, Shape
<1>5. stray' = (stray \cup {id}) \cap OnBook(book')
  BY <1>1 DEF Strays
<1>6. /\ book' \in Books
      /\ \A e \in Standing(book') : e \in Standing(book) \/ e[1] = id
  <2>1. CASE book' = book
    BY <1>4, <2>1
  <2>2. CASE book' = After(Request, id)
    <3>1. CASE Request.do = "cancel"
      BY <1>1, <1>3, <1>4, <2>2, <3>1, AfterBook
    <3>2. CASE Request.do # "cancel"
      BY <1>1, <1>3, <1>4, <2>2, <3>2, AfterBook
    <3> QED
      BY <3>1, <3>2
  <2> QED
    BY <1>1, <2>1, <2>2
<1>7. OnBook(book') \subseteq Ids
  BY <1>3, <1>4, <1>6, OnBookIs
<1>8. late' \in Seq(Sent) /\ faults' \in Nat /\ stray' \subseteq Ids
  BY <1>1, <1>2, <1>3, <1>4, <1>5
<1>9. \A e \in Standing(book') :
        \/ e[1] \in stray'
        \/ e \in Standing(book) /\ e[1] \notin stray
             /\ (Request.do = "cancel" => e[1] # Request.id)
  <2> TAKE e \in Standing(book')
  <2>1. e[1] \in OnBook(book')
    BY OnBookIs
  <2> QED
    BY <1>3, <1>5, <1>6, <2>1
<1> QED
  BY <1>2, <1>6, <1>7, <1>8, <1>9, FailsKeeps

-----------------------------------------------------------------------------
(* The book without the bot *)

\* What happens on the book meanwhile takes orders off it, or brings one the
\* bot gave up on.
LEMMA BookKeeps ==
  ASSUME Inv, UNCHANGED local, faults' = faults,
         book' \in Books, OnBook(book') \subseteq Ids, late' \in Seq(Sent), stray' \subseteq Ids,
         \A e \in Standing(book') :
           e[1] \in stray' \/ (e \in Standing(book) /\ e[1] \notin stray)
  PROVE  Inv'
<1>1. /\ pc' = pc /\ plan' = plan /\ ids' = ids /\ resting' = resting
      /\ price' = price /\ tick' = tick /\ step' = step
  BY DEF local
<1>2. \A w \in OnBook(book') : w \in stray' \/ (w \in OnBook(book) /\ w \notin stray)
  BY OnBookIs
<1>3. Shape'
  BY <1>1 DEF Inv, Shape
<1>4. AtRest' /\ Quoting'
  BY <1>1, <1>2 DEF Inv, AtRest, Quoting
<1>5. Cleaning'
  BY <1>1 DEF Inv, Cleaning
<1>6. Climbing'
  BY <1>1, <1>2 DEF Inv, Climbing
<1>7. Trading'
  BY <1>1, <1>2 DEF Inv, Trading
<1> QED
  BY <1>3, <1>4, <1>5, <1>6, <1>7 DEF Inv

LEMMA LateKeeps ==
  ASSUME Inv, NEW i \in DOMAIN late, Late(i)
  PROVE  Inv'
<1>1. PICK id \in Concerned(late[i]) : book' = After(late[i], id) /\ Strays({id})
  BY DEF Late
<1>2. late' = RemoveAt(late, i) /\ UNCHANGED local /\ faults' = faults
  BY DEF Late
<1>3. /\ book \in Books /\ OnBook(book) \subseteq Ids /\ late \in Seq(Sent) /\ stray \subseteq Ids
  BY DEF Inv, Shape
<1>4. late[i] \in Sent /\ id \in Ids
  BY <1>1, <1>3 DEF Concerned, Sent, FreshIds
<1>5. stray' = (stray \cup {id}) \cap OnBook(book')
  BY <1>1 DEF Strays
<1>6. book' \in Books /\ \A e \in Standing(book') : e \in Standing(book) \/ e[1] = id
  <2>1. CASE late[i].do = "cancel"
    BY <1>1, <1>3, <1>4, <2>1, AfterBook
  <2>2. CASE late[i].do # "cancel"
    BY <1>1, <1>3, <1>4, <2>2, AfterBook
  <2> QED
    BY <2>1, <2>2
<1>7. OnBook(book') \subseteq Ids
  BY <1>3, <1>4, <1>6, OnBookIs
<1>8. late' \in Seq(Sent) /\ stray' \subseteq Ids
  BY <1>2, <1>3, <1>4, <1>5, RemoveAtType
<1>9. \A e \in Standing(book') : e[1] \in stray' \/ (e \in Standing(book) /\ e[1] \notin stray)
  <2> TAKE e \in Standing(book')
  <2>1. e[1] \in OnBook(book')
    BY OnBookIs
  <2> QED
    BY <1>5, <1>6, <2>1
<1> QED
  BY <1>2, <1>6, <1>7, <1>8, <1>9, BookKeeps

LEMMA OthersTakeKeeps ==
  ASSUME Inv, NEW side \in Sides, OthersTake(side)
  PROVE  Inv'
<1> DEFINE o == [Head(book[side]) EXCEPT !.side = Opposite(side), !.quantity = 1, !.filled = 0]
<1>1. /\ book[side] # << >> /\ book' = Matched(o, FALSE) /\ Strays({})
      /\ UNCHANGED local /\ late' = late /\ faults' = faults
  BY DEF OthersTake
<1>2. /\ book \in Books /\ OnBook(book) \subseteq Ids /\ late \in Seq(Sent) /\ stray \subseteq Ids
  BY DEF Inv, Shape
<1>3. o \in OrderOf(Bots)
  <2> DEFINE best == Head(book[side])
  <2>1. book[side] \in Seq(OrderOf(Bots))
    BY <1>2 DEF Books, OrderSeq, Bots
  <2>2. best \in OrderOf(Bots)
    BY <1>1, <2>1
  <2>3. Opposite(side) \in Sides
    BY DEF Opposite, Sides
  <2>4. ASSUME NEW b \in OrderOf(Bots), NEW s \in Sides
        PROVE  [b EXCEPT !.side = s, !.quantity = 1, !.filled = 0] \in OrderOf(Bots)
    <3> DEFINE b1 == [b EXCEPT !.side = s]
               b2 == [b1 EXCEPT !.quantity = 1]
    <3>1. b1 \in OrderOf(Bots)
      BY <2>4 DEF OrderOf
    <3>2. \A x \in OrderOf(Bots), q \in Int : [x EXCEPT !.quantity = q] \in OrderOf(Bots)
      BY DEF OrderOf
    <3>3. \A x \in OrderOf(Bots), q \in Int : [x EXCEPT !.filled = q] \in OrderOf(Bots)
      BY DEF OrderOf
    <3>4. 0 \in Int /\ 1 \in Int
      OBVIOUS
    <3>5. [b EXCEPT !.side = s, !.quantity = 1, !.filled = 0] = [b2 EXCEPT !.filled = 0]
      OBVIOUS
    <3> HIDE DEF b1
    <3>6. b2 \in OrderOf(Bots)
      BY <3>1, <3>2, <3>4
    <3> HIDE DEF b2
    <3> QED
      BY <3>3, <3>4, <3>5, <3>6
  <2> QED
    BY <2>2, <2>3, <2>4
<1> HIDE DEF o
<1>4. book' \in Books /\ Standing(book') \subseteq Standing(book)
  BY <1>1, <1>2, <1>3, MatchedBook
<1>5. stray' = stray \cap OnBook(book')
  BY <1>1 DEF Strays
<1>6. OnBook(book') \subseteq Ids /\ stray' \subseteq Ids
  BY <1>2, <1>4, <1>5, OnBookIs
<1>7. \A e \in Standing(book') : e[1] \in stray' \/ (e \in Standing(book) /\ e[1] \notin stray)
  <2> TAKE e \in Standing(book')
  <2>1. e[1] \in OnBook(book')
    BY OnBookIs
  <2> QED
    BY <1>4, <1>5, <2>1
<1> QED
  BY <1>1, <1>2, <1>4, <1>6, <1>7, BookKeeps

-----------------------------------------------------------------------------
(* The bot's own steps *)

LEMMA BootKeeps ==
  ASSUME Inv, Boot
  PROVE  Inv'
<1>1. /\ pc' = "clean" /\ plan' = <<Read("mm1"), Read("mm2")>> /\ price' \in Prices
      /\ ids' = << >> /\ resting' = << >> /\ tick' = 0 /\ step' = 0 /\ stray' = {}
      /\ book' = book /\ late' = late /\ faults' = faults
  BY DEF Boot
<1>2. /\ plan' \in Seq(Requests) /\ DOMAIN plan' = {1, 2}
      /\ plan'[1] = Read("mm1") /\ plan'[2] = Read("mm2")
  <2>1. Read("mm1") \in Requests /\ Read("mm2") \in Requests
    BY DEF Read, Requests, Bots
  <2> QED
    BY <1>1, <2>1
<1>3. Does(plan') \subseteq {"read"} /\ Reads(plan') = Bots
  BY <1>2 DEF Does, Reads, Read, Bots
<1>4. << >> \in Seq(Ids) /\ Len(<< >>) = 0 /\ 2 * Rungs \in Nat /\ 0 \in 0..SubSteps
  BY MarketMakerAssumption
<1>5. Shape'
  BY <1>1, <1>2, <1>4 DEF Inv, Shape
<1>6. ASSUME NEW e \in Standing(book) PROVE e[2] \in Bots
  <2>1. PICK s \in Sides : e \in Entries(book[s])
    BY DEF Standing, Sides
  <2>2. book[s] \in Seq(OrderOf(Bots))
    BY DEF Inv, Shape, Books, OrderSeq, Bots
  <2>3. PICK i \in DOMAIN book[s] : e = <<book[s][i].id, book[s][i].user>>
    BY <2>1 DEF Entries
  <2>4. book[s][i] \in OrderOf(Bots)
    BY <2>2
  <2> QED
    BY <2>3, <2>4 DEF OrderOf
<1>7. Cleaning'
  BY <1>1, <1>3, <1>6 DEF Cleaning
<1>8. AtRest' /\ Quoting' /\ Climbing' /\ Trading'
  BY <1>1 DEF AtRest, Quoting, Climbing, Trading
<1> QED
  BY <1>5, <1>7, <1>8 DEF Inv

\* Only the start reads orders.
LEMMA Reading ==
  ASSUME Inv, plan # << >>, Request.do = "read"
  PROVE  pc = "clean" /\ Request.bot \in Bots
<1>1. plan \in Seq(Requests)
  BY DEF Inv, Shape
<1>2. Request = Head(plan) /\ Request \in Requests /\ Request.do \in Does(plan)
  BY <1>1, OneLess DEF Request
<1>3. pc # "ladder"
  BY <1>1, <1>2, ClimbsOn DEF Inv, Climbing, Shape
<1>4. pc # "trade"
  BY <1>1, <1>2, TradesOn DEF Inv, Trading, Shape
<1>5. pc = "clean"
  BY <1>3, <1>4 DEF Inv, Shape, AtRest
<1>6. Request.bot \in Bots
  BY <1>2 DEF Requests, Sent
<1> QED
  BY <1>5, <1>6

LEMMA ReadOpenKeeps ==
  ASSUME Inv, ReadOpen
  PROVE  Inv'
<1> DEFINE open == OpenOrders(Request.bot)
           found == [i \in DOMAIN open |-> Cancel(open[i].id)]
<1>1. /\ plan # << >> /\ Request.do = "read" /\ plan' = found \o Tail(plan)
      /\ pc' = pc /\ ids' = ids /\ resting' = resting /\ price' = price /\ tick' = tick
      /\ step' = step /\ book' = book /\ late' = late /\ stray' = stray /\ faults' = faults
  BY DEF ReadOpen, Found
<1>2. pc = "clean" /\ Request = Head(plan)
  BY <1>1, Reading DEF Request
<1>3. plan \in Seq(Requests) /\ book \in Books /\ OnBook(book) \subseteq Ids
  BY DEF Inv, Shape
<1>4. /\ Tail(plan) \in Seq(Requests) /\ Does(Tail(plan)) \subseteq Does(plan)
      /\ Cancelled(plan) \subseteq Cancelled(Tail(plan))
      /\ Reads(plan) \subseteq Reads(Tail(plan)) \cup {Request.bot}
  BY <1>1, <1>2, <1>3, OneLess
<1>5. /\ open \in Seq(OrderOf(Bots)) /\ IdsOf(open) \subseteq Ids
      /\ \A e \in Standing(book) : e[2] = Request.bot => e[1] \in IdsOf(open)
  BY <1>3, OpenOrdersFound
<1>6. found \in Seq(Requests) /\ Does(found) \subseteq {"cancel"} /\ Cancelled(found) = IdsOf(open)
  <2> DEFINE list == [i \in DOMAIN open |-> open[i].id]
  <2> HIDE DEF open
  <2>1. DOMAIN open = 1..Len(open) /\ Len(open) \in Nat /\ \A i \in DOMAIN open : open[i].id \in Ids
    BY <1>5 DEF IdsOf
  <2>2. list \in Seq(Ids)
    BY <2>1
  <2>3. found = Cancels(list)
    BY DEF Cancels
  <2>4. Range(list) = IdsOf(open)
    BY DEF Range, IdsOf
  <2> HIDE DEF list, found
  <2> QED
    BY <2>2, <2>3, <2>4, CancelsOfIds
<1> HIDE DEF open, found
<1>7. /\ plan' \in Seq(Requests) /\ Does(plan') \subseteq Does(found) \cup Does(Tail(plan))
      /\ Cancelled(found) \cup Cancelled(Tail(plan)) \subseteq Cancelled(plan')
      /\ Reads(Tail(plan)) \subseteq Reads(plan')
  BY <1>1, <1>4, <1>6, BothPlans
<1>8. Shape'
  BY <1>1, <1>7 DEF Inv, Shape
<1>9. Cleaning'
  <2>1. /\ Does(plan) \subseteq {"read", "cancel"} /\ ids = << >> /\ resting = << >>
        /\ \A e \in Standing(book) : e[1] \in Cancelled(plan) \cup stray \/ e[2] \in Reads(plan)
    BY <1>2 DEF Inv, Cleaning
  <2>2. Does(plan') \subseteq {"read", "cancel"}
    BY <1>4, <1>6, <1>7, <2>1
  <2>3. \A e \in Standing(book) : e[1] \in Cancelled(plan') \cup stray \/ e[2] \in Reads(plan')
    <3> TAKE e \in Standing(book)
    <3>1. CASE e[1] \in Cancelled(plan) \cup stray
      BY <1>4, <1>7, <3>1
    <3>2. CASE e[2] = Request.bot
      BY <1>5, <1>6, <1>7, <3>2
    <3>3. CASE e[2] \in Reads(Tail(plan))
      BY <1>7, <3>3
    <3> QED
      BY <1>4, <2>1, <3>1, <3>2, <3>3
  <2> QED
    BY <1>1, <2>1, <2>2, <2>3 DEF Cleaning
<1>10. AtRest' /\ Quoting' /\ Climbing' /\ Trading'
  BY <1>1, <1>2 DEF AtRest, Quoting, Climbing, Trading
<1> QED
  BY <1>8, <1>9, <1>10 DEF Inv

LEMMA ReadFailsKeeps ==
  ASSUME Inv, ReadFails
  PROVE  Inv'
<1>1. /\ plan # << >> /\ Request.do = "read" /\ plan' = Tail(plan)
      /\ stray' = stray \cup IdsOf(OpenOrders(Request.bot)) /\ faults' = faults + 1
      /\ pc' = pc /\ ids' = ids /\ resting' = resting /\ price' = price /\ tick' = tick
      /\ step' = step /\ book' = book /\ late' = late
  BY DEF ReadFails, Fault
<1>2. pc = "clean" /\ Request = Head(plan)
  BY <1>1, Reading DEF Request
<1>3. plan \in Seq(Requests) /\ book \in Books /\ OnBook(book) \subseteq Ids
  BY DEF Inv, Shape
<1>4. /\ Tail(plan) \in Seq(Requests) /\ Does(Tail(plan)) \subseteq Does(plan)
      /\ Cancelled(plan) \subseteq Cancelled(Tail(plan))
      /\ Reads(plan) \subseteq Reads(Tail(plan)) \cup {Request.bot}
  BY <1>1, <1>2, <1>3, OneLess
<1>5. /\ IdsOf(OpenOrders(Request.bot)) \subseteq Ids
      /\ \A e \in Standing(book) : e[2] = Request.bot => e[1] \in IdsOf(OpenOrders(Request.bot))
  BY <1>3, OpenOrdersFound
<1>6. Shape'
  BY <1>1, <1>4, <1>5 DEF Inv, Shape
<1>7. Cleaning'
  BY <1>1, <1>2, <1>4, <1>5 DEF Inv, Cleaning
<1>8. AtRest' /\ Quoting' /\ Climbing' /\ Trading'
  BY <1>1, <1>2 DEF AtRest, Quoting, Climbing, Trading
<1> QED
  BY <1>6, <1>7, <1>8 DEF Inv

LEMMA CleanDoneKeeps ==
  ASSUME Inv, CleanDone
  PROVE  Inv'
<1>1. /\ pc = "clean" /\ plan = << >> /\ pc' = "tick"
      /\ plan' = plan /\ ids' = ids /\ resting' = resting /\ price' = price /\ tick' = tick
      /\ step' = step /\ book' = book /\ late' = late /\ stray' = stray /\ faults' = faults
  BY DEF CleanDone
<1>2. Shape'
  BY <1>1 DEF Inv, Shape
<1>3. OnBook(book) \subseteq stray /\ ids = << >>
  BY <1>1, OnBookIs, NothingPlanned DEF Inv, Cleaning
<1>4. AtRest' /\ Quoting'
  BY <1>1, <1>3 DEF AtRest, Quoting
<1>5. Cleaning' /\ Climbing' /\ Trading'
  BY <1>1 DEF Cleaning, Climbing, Trading
<1> QED
  BY <1>2, <1>4, <1>5 DEF Inv

\* A ladder is as many rungs as it has levels on both sides.
LEMMA LadderIs ==
  ASSUME NEW at \in Prices, NEW n
  PROVE  /\ Ladder(at, n) \in Seq(Requests) /\ Len(Ladder(at, n)) = 2 * Rungs
         /\ \A i \in 1..(2 * Rungs) : Ladder(at, n)[i].do = "rung"
<1> DEFINE level(k) == (k + 1) \div 2
           rung(k) == IF k % 2 = 1
                      THEN Place("rung", Bot(n), "buy", at - Spread * level(k), level(k))
                      ELSE Place("rung", Bot(n + 1), "sell", at + Spread * level(k), level(k))
<1>1. 2 * Rungs \in Nat /\ Spread \in Nat /\ at \in Int
  BY MarketMakerAssumption
<1>2. Ladder(at, n) = [k \in 1..(2 * Rungs) |-> rung(k)]
  BY DEF Ladder
<1>3. ASSUME NEW k \in 1..(2 * Rungs)
      PROVE  rung(k) \in Requests /\ rung(k).do = "rung"
  <2>1. level(k) \in Nat
    BY <1>1
  <2> HIDE DEF level
  <2>2. Spread * level(k) \in Nat
    BY <1>1, <2>1, ProductNat
  <2>3. at - Spread * level(k) \in Int /\ at + Spread * level(k) \in Int /\ level(k) \in Int
    BY <1>1, <2>1, <2>2
  <2>4. \A user \in Bots, side \in Sides, p \in Int, q \in Int :
          /\ Place("rung", user, side, p, q) \in Requests
          /\ Place("rung", user, side, p, q).do = "rung"
    BY DEF Place, Requests, Sent, OrderOf
  <2>5. Bot(n) \in Bots /\ Bot(n + 1) \in Bots /\ "buy" \in Sides /\ "sell" \in Sides
    BY DEF Bot, Bots, Sides
  <2> QED
    BY <2>3, <2>4, <2>5
<1> HIDE DEF rung
<1> QED
  BY <1>1, <1>2, <1>3

LEMMA TickKeeps ==
  ASSUME Inv, Tick
  PROVE  Inv'
<1> DEFINE pulls == Cancels(resting)
           rungs == Ladder(price, tick)
<1>1. /\ pc = "tick" /\ pc' = "ladder" /\ plan' = pulls \o rungs
      /\ ids' = ids /\ resting' = resting /\ price' = price /\ tick' = tick
      /\ step' = step /\ book' = book /\ late' = late /\ stray' = stray /\ faults' = faults
  BY DEF Tick
<1>2. /\ resting \in Seq(Ids) /\ price \in Prices /\ Len(resting) \in Nat
      /\ ids = << >> /\ OnBook(book) \subseteq Range(resting) \cup stray
      /\ 2 * Rungs \in Nat
  BY <1>1, MarketMakerAssumption DEF Inv, Shape, AtRest, Quoting
<1>3. /\ pulls \in Seq(Requests) /\ Len(pulls) = Len(resting)
      /\ \A i \in 1..Len(resting) : pulls[i].do = "cancel"
      /\ Cancelled(pulls) = Range(resting)
  BY <1>2, CancelsOfIds
<1>4. /\ rungs \in Seq(Requests) /\ Len(rungs) = 2 * Rungs
      /\ \A i \in 1..(2 * Rungs) : rungs[i].do = "rung"
  BY <1>2, LadderIs
<1> HIDE DEF pulls, rungs
<1>5. /\ plan' \in Seq(Requests) /\ Len(plan') = Len(resting) + 2 * Rungs
      /\ \A i \in 1..(Len(resting) + 2 * Rungs) :
           plan'[i] = IF i <= Len(resting) THEN pulls[i] ELSE rungs[i - Len(resting)]
      /\ Cancelled(pulls) \subseteq Cancelled(plan')
  <2>1. /\ pulls \o rungs \in Seq(Requests)
        /\ Len(pulls \o rungs) = Len(pulls) + Len(rungs)
        /\ \A i \in 1..(Len(pulls) + Len(rungs)) :
             (pulls \o rungs)[i] = IF i <= Len(pulls) THEN pulls[i] ELSE rungs[i - Len(pulls)]
        /\ Cancelled(pulls) \subseteq Cancelled(pulls \o rungs)
    BY <1>3, <1>4, BothPlans
  <2> QED
    BY <1>1, <1>3, <1>4, <2>1
<1>6. Climbs(plan', 0)
  <2>1. \A i \in 1..Len(plan') : plan'[i].do = IF i <= Len(resting) THEN "cancel" ELSE "rung"
    <3> TAKE i \in 1..Len(plan')
    <3>1. CASE i <= Len(resting)
      BY <1>2, <1>3, <1>5, <3>1
    <3>2. CASE ~(i <= Len(resting))
      <4>1. i - Len(resting) \in 1..(2 * Rungs) /\ plan'[i] = rungs[i - Len(resting)]
        BY <1>2, <1>5, <3>2
      <4> QED
        BY <1>4, <3>2, <4>1
    <3> QED
      BY <3>1, <3>2
  <2>2. Len(resting) \in 0..Len(plan') /\ 0 + (Len(plan') - Len(resting)) <= 2 * Rungs
    BY <1>2, <1>5
  <2> QED
    BY <2>1, <2>2 DEF Climbs
<1>7. Shape'
  BY <1>1, <1>5 DEF Inv, Shape
<1>8. Climbing'
  BY <1>1, <1>2, <1>3, <1>5, <1>6 DEF Climbing
<1>9. AtRest' /\ Cleaning' /\ Quoting' /\ Trading'
  BY <1>1 DEF AtRest, Cleaning, Quoting, Trading
<1> QED
  BY <1>7, <1>8, <1>9 DEF Inv

LEMMA LadderDoneKeeps ==
  ASSUME Inv, LadderDone
  PROVE  Inv'
<1>1. /\ pc = "ladder" /\ plan = << >> /\ pc' = "trade"
      /\ resting' = ids /\ ids' = << >> /\ step' = 0
      /\ plan' = plan /\ price' = price /\ tick' = tick
      /\ book' = book /\ late' = late /\ stray' = stray /\ faults' = faults
  BY DEF LadderDone
<1>2. Climbs(plan, Len(ids)) /\ OnBook(book) \subseteq Range(ids) \cup stray
  BY <1>1, NothingPlanned DEF Inv, Climbing
<1>3. ids \in Seq(Ids) /\ Len(ids) \in Nat /\ Len(<< >>) = 0 /\ << >> \in Seq(Ids) /\ 0 \in 0..SubSteps
  BY MarketMakerAssumption DEF Inv, Shape
<1>4. Len(ids) <= 2 * Rungs
  BY <1>1, <1>2, <1>3 DEF Climbs
<1>5. Shape'
  BY <1>1, <1>3, <1>4 DEF Inv, Shape
<1>6. Trades(plan', ids')
  BY <1>1, <1>3, NothingPlanned DEF Trades
<1>7. Trading'
  BY <1>1, <1>2, <1>6 DEF Trading
<1>8. AtRest' /\ Cleaning' /\ Quoting' /\ Climbing'
  BY <1>1 DEF AtRest, Cleaning, Quoting, Climbing
<1> QED
  BY <1>5, <1>7, <1>8 DEF Inv

\* Between two trades everything is on the ladder, or lost sight of.
LEMMA BetweenTrades ==
  ASSUME Inv, pc = "trade", plan = << >>
  PROVE  OnBook(book) \subseteq Range(resting) \cup stray
BY NothingPlanned DEF Inv, Trading, InHand

LEMMA TradeKeeps ==
  ASSUME Inv, Trade
  PROVE  Inv'
<1>1. /\ pc = "trade" /\ plan = << >> /\ step < SubSteps
      /\ price' \in Prices /\ ids' = << >> /\ step' = step + 1
      /\ plan' = Legs(price', step) \/ plan' = << >>
      /\ pc' = pc /\ resting' = resting /\ tick' = tick
      /\ book' = book /\ late' = late /\ stray' = stray /\ faults' = faults
  BY DEF Trade
<1>2. OnBook(book) \subseteq Range(resting) \cup stray
  BY <1>1, BetweenTrades
<1>3. << >> \in Seq(Ids) /\ Len(<< >>) = 0 /\ << >> \in Seq(Requests) /\ step + 1 \in 0..SubSteps
  BY <1>1, MarketMakerAssumption DEF Inv, Shape
<1>4. /\ Legs(price', step) \in Seq(Requests) /\ Len(Legs(price', step)) = 2
      /\ Legs(price', step)[1].do = "sell" /\ Legs(price', step)[2].do = "buy"
  <2>1. \A do \in {"sell", "buy"}, user \in Bots, side \in Sides, p \in Int, q \in Int :
          /\ Place(do, user, side, p, q) \in Requests
          /\ Place(do, user, side, p, q).do = do
    BY DEF Place, Requests, Sent, OrderOf
  <2>2. /\ Bot(step) \in Bots /\ Bot(step + 1) \in Bots /\ "buy" \in Sides /\ "sell" \in Sides
        /\ price' \in Int /\ 1 \in Int
    BY <1>1, MarketMakerAssumption DEF Bot, Bots, Sides
  <2> DEFINE sells == Place("sell", Bot(step), "sell", price', 1)
             buys == Place("buy", Bot(step + 1), "buy", price', 1)
  <2>3. sells \in Requests /\ sells.do = "sell" /\ buys \in Requests /\ buys.do = "buy"
    BY <2>1, <2>2
  <2>4. Legs(price', step) = <<sells, buys>>
    BY DEF Legs
  <2> HIDE DEF sells, buys
  <2> QED
    BY <2>3, <2>4
<1>5. Trades(plan', ids') /\ plan' \in Seq(Requests) /\ InHand(plan', ids') = {}
  <2>1. CASE plan' = << >>
    BY <1>1, <1>3, <2>1, NothingPlanned DEF Trades, InHand
  <2>2. CASE plan' = Legs(price', step)
    BY <1>1, <1>4, <2>2 DEF Trades, InHand
  <2> QED
    BY <1>1, <2>1, <2>2
<1>6. Shape'
  BY <1>1, <1>3, <1>5 DEF Inv, Shape
<1>7. Trading'
  BY <1>1, <1>2, <1>5 DEF Trading
<1>8. AtRest' /\ Cleaning' /\ Quoting' /\ Climbing'
  BY <1>1 DEF AtRest, Cleaning, Quoting, Climbing
<1> QED
  BY <1>6, <1>7, <1>8 DEF Inv

LEMMA TickDoneKeeps ==
  ASSUME Inv, TickDone
  PROVE  Inv'
<1>1. /\ pc = "trade" /\ plan = << >> /\ pc' = "tick" /\ ids' = << >> /\ step' = 0
      /\ tick' = (tick + 1) % 2
      /\ plan' = plan /\ resting' = resting /\ price' = price
      /\ book' = book /\ late' = late /\ stray' = stray /\ faults' = faults
  BY DEF TickDone
<1>2. OnBook(book) \subseteq Range(resting) \cup stray
  BY <1>1, BetweenTrades
<1>3. << >> \in Seq(Ids) /\ 0 \in 0..SubSteps /\ tick' \in {0, 1}
  <2>1. tick \in {0, 1}
    BY DEF Inv, Shape
  <2> QED
    BY <1>1, <2>1, MarketMakerAssumption
<1>4. Shape'
  BY <1>1, <1>3 DEF Inv, Shape
<1>5. AtRest' /\ Quoting'
  BY <1>1, <1>2 DEF AtRest, Quoting
<1>6. Cleaning' /\ Climbing' /\ Trading'
  BY <1>1 DEF Cleaning, Climbing, Trading
<1> QED
  BY <1>4, <1>5, <1>6 DEF Inv

LEMMA CrashKeeps ==
  ASSUME Inv, Crash
  PROVE  Inv'
<1>1. /\ pc' = "down" /\ plan' = << >> /\ ids' = << >> /\ resting' = << >>
      /\ tick' = 0 /\ step' = 0 /\ stray' = {} /\ price' = price /\ book' = book
      /\ \/ late' = late /\ faults' = faults
         \/ Asks /\ late' = Append(late, Request) /\ faults' = faults + 1
  BY DEF Crash, Fault
<1>2. late' \in Seq(Sent) /\ faults' \in Nat
  <2>1. late \in Seq(Sent) /\ faults \in Nat
    BY DEF Inv, Shape
  <2>2. Asks => Request \in Sent
    BY Sending
  <2> QED
    BY <1>1, <2>1, <2>2
<1>3. << >> \in Seq(Ids) /\ << >> \in Seq(Requests) /\ Len(<< >>) = 0 /\ 2 * Rungs \in Nat
      /\ 0 \in 0..SubSteps
  BY MarketMakerAssumption
<1>4. Shape'
  BY <1>1, <1>2, <1>3 DEF Inv, Shape
<1>5. AtRest' /\ Cleaning' /\ Quoting' /\ Climbing' /\ Trading'
  BY <1>1 DEF AtRest, Cleaning, Quoting, Climbing, Trading
<1> QED
  BY <1>4, <1>5 DEF Inv

-----------------------------------------------------------------------------
(* Every step *)

LEMMA InitHolds == Init => Inv
<1> SUFFICES ASSUME Init PROVE Inv
  OBVIOUS
<1>1. /\ << >> \in Seq(Ids) /\ << >> \in Seq(Requests) /\ << >> \in Seq(Sent)
      /\ Len(<< >>) = 0 /\ 2 * Rungs \in Nat /\ 0 \in 0..SubSteps
  BY MarketMakerAssumption
<1>2. book \in Books /\ OnBook(book) = {}
  BY DEF Init, Books, OrderSeq, OnBook, IdsOf, Sides
<1>3. Shape
  BY <1>1, <1>2 DEF Init, Shape
<1>4. AtRest /\ Cleaning /\ Quoting /\ Climbing /\ Trading
  BY DEF Init, AtRest, Cleaning, Quoting, Climbing, Trading
<1> QED
  BY <1>3, <1>4 DEF Inv

LEMMA NextKeeps ==
  ASSUME Inv, [Next]_vars
  PROVE  Inv'
<1>1. CASE BotStep
  BY <1>1, AnsweredKeeps, RefusedKeeps, UnansweredKeeps, ReadOpenKeeps, ReadFailsKeeps,
     CleanDoneKeeps, TickKeeps, LadderDoneKeeps, TradeKeeps, TickDoneKeeps DEF BotStep
<1>2. CASE Boot \/ Crash
  BY <1>2, BootKeeps, CrashKeeps
<1>3. CASE \E i \in DOMAIN late : Late(i)
  BY <1>3, LateKeeps
<1>4. CASE \E s \in Sides : OthersTake(s)
  BY <1>4, OthersTakeKeeps
<1>5. CASE UNCHANGED vars
  BY <1>5 DEF vars, local, Inv, Shape, AtRest, Cleaning, Quoting, Climbing, Trading
<1> QED
  BY <1>1, <1>2, <1>3, <1>4, <1>5 DEF Next

LEMMA InvHolds == Spec => []Inv
<1>1. Inv /\ [Next]_vars => Inv'
  BY NextKeeps
<1> QED
  BY <1>1, InitHolds, PTL DEF Spec

LEMMA TypesFromInv == Inv => TypeOK
<1> SUFFICES ASSUME Inv PROVE TypeOK
  OBVIOUS
<1>1. /\ plan \in Seq(Requests) /\ late \in Seq(Sent) /\ ids \in Seq(Ids) /\ Len(ids) \in Nat
      /\ book \in Books /\ 2 * Rungs \in Nat /\ 2 <= 2 * Rungs
  BY MarketMakerAssumption DEF Inv, Shape
<1>2. \A r \in Requests : Asked(r)
  BY DEF Requests, Sent, Asked, Bots
<1>3. Sent \subseteq Requests
  BY DEF Requests
<1>4. /\ \A i \in DOMAIN plan : Asked(plan[i])
      /\ \A i \in DOMAIN late : Asked(late[i])
  BY <1>1, <1>2, <1>3
<1>5. Len(ids) <= 2 * Rungs
  <2>1. CASE pc \in {"down", "tick", "clean"}
    BY <1>1, <2>1 DEF Inv, AtRest, Cleaning
  <2>2. CASE pc = "ladder"
    <3>1. PICK c \in 0..Len(plan) : Len(ids) + (Len(plan) - c) <= 2 * Rungs
      BY <2>2 DEF Inv, Climbing, Climbs
    <3>2. Len(plan) \in Nat
      BY <1>1
    <3> QED
      BY <1>1, <3>1, <3>2
  <2>3. CASE pc = "trade"
    <3>1. Len(ids) <= 1
      BY <1>1, <2>3 DEF Inv, Trading, Trades
    <3> QED
      BY <1>1, <3>1
  <2> QED
    BY <2>1, <2>2, <2>3 DEF Inv, Shape
<1>6. book["buy"] \in OrderSeq /\ book["sell"] \in OrderSeq
  BY <1>1 DEF Books, Sides
<1> QED
  BY <1>4, <1>5, <1>6 DEF Inv, Shape, TypeOK

LEMMA NothingPilesUpFromInv == Inv => NothingPilesUp
<1> SUFFICES ASSUME Inv, pc # "down" PROVE OnBook(book) \subseteq Known \cup stray
  BY DEF NothingPilesUp
<1>1. Range(resting) \cup Range(ids) \cup Cancelled(plan) \subseteq Known
  BY DEF Known
<1>2. CASE pc = "clean"
  <2>1. ASSUME NEW e \in Standing(book), e[2] \in Reads(plan) PROVE e[1] \in Known
    <3>1. PICK i \in DOMAIN plan : plan[i].do = "read" /\ plan[i].bot = e[2]
      BY <2>1 DEF Reads
    <3>2. e[1] \in IdsOf(OpenOrders(plan[i].bot))
      BY <2>1, <3>1, OpenOrdersFound DEF Inv, Shape
    <3> QED
      BY <3>1, <3>2 DEF Known
  <2>2. \A e \in Standing(book) : e[1] \in Known \cup stray
    BY <1>1, <1>2, <2>1 DEF Inv, Cleaning
  <2> QED
    BY <2>2, OnBookIs
<1>3. CASE pc = "tick"
  BY <1>1, <1>3 DEF Inv, Quoting
<1>4. CASE pc = "ladder"
  BY <1>1, <1>4 DEF Inv, Climbing
<1>5. CASE pc = "trade"
  BY <1>1, <1>5 DEF Inv, Trading, InHand
<1> QED
  BY <1>2, <1>3, <1>4, <1>5 DEF Inv, Shape

-----------------------------------------------------------------------------
\* The types of the variables; the bot never keeps more ids than one ladder has,
\* however often placing or cancelling fails.
THEOREM MarketMakerTypes == Spec => []TypeOK
  BY InvHolds, TypesFromInv, PTL

\* An order of the bot's accounts that it will not pull, and not find in an account
\* it is about to read, is one a request or a read without an answer was about,
\* or a leg of a trade both of whose legs were placed: the bot knew that one's
\* id and dropped it.
THEOREM NothingIsAbandoned == Spec => []NothingPilesUp
  BY InvHolds, NothingPilesUpFromInv, PTL
=============================================================================
