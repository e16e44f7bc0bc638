---------------------------- MODULE LedgerProofs ----------------------------
(***************************************************************************)
(* What of module Ledger holds for any accounts, commands and bounds: the  *)
(* opening credit is booked once, compactLedger deletes exactly what it    *)
(* has summed up, a holding is the sum of its rows wherever these are on   *)
(* their way, reconcile can be trusted about accounts that rest, and the   *)
(* table is the append-only ledger of Postings to whoever sums it.         *)
(***************************************************************************)
EXTENDS Ledger, OperatorProofs

\* All that folding and opening credits need of the types: times are numbers.
TableInv ==
  /\ now \in Int
  /\ \A r \in table : r.created \in Int

\* The carry rows of a transaction under way stand for the expired rows of
\* the table as it is now, whether the DELETE has been run or not.
FoldInv ==
  fold # None =>
    /\ fold = [at |-> fold.at, id |-> fold.id, removed |-> fold.removed, carry |-> fold.carry]
    /\ fold.at \in Int
    /\ fold.at <= now
    /\ fold.carry = Carry(Expired(fold.at), fold.id, fold.at)
    /\ fold.removed \in {{}, Expired(fold.at)}

\* What ledger_seed_uniq keeps true of the table: an account has one seed row.
\* It says nothing of an opening credit folded away; that none is follows from
\* Expires and is part of LedgerIsAppendOnly below.
OneSeedRow ==
  \A r, s \in table : r.reason = "seed" /\ s.reason = "seed" /\ r.acct = s.acct => r = s

Inv == TableInv /\ FoldInv /\ OneSeedRow

-----------------------------------------------------------------------------
(* Rows *)

\* A carry row is as young as its transaction and no seed.
LEMMA CarryRows ==
  ASSUME NEW rows, NEW id, NEW at, NEW r \in Carry(rows, id, at)
  PROVE  r.created = at /\ r.reason = "carry"
  BY DEF Carry

\* So the transaction's own DELETE spares it.
LEMMA CarryStays ==
  ASSUME NEW rows, NEW id, NEW at \in Int
  PROVE  {r \in Carry(rows, id, at) : ~Expires(r, at)} = Carry(rows, id, at)
<1>1. ASSUME NEW r \in Carry(rows, id, at) PROVE ~Expires(r, at)
  <2>1. r.created = at
    BY CarryRows
  <2>2. Retention \in Nat
    BY LedgerAssumption DEF LedgerAssumption
  <2> QED BY <2>1, <2>2 DEF Expires
<1> QED BY <1>1

\* A row made now is not expired for a transaction that began before.
LEMMA NewIsYoung ==
  ASSUME NEW at \in Int, now \in Int, at <= now, NEW r, r.created = now
  PROVE  ~Expires(r, at)
<1>1. Retention \in Nat
  BY LedgerAssumption DEF LedgerAssumption
<1> QED BY <1>1 DEF Expires

-----------------------------------------------------------------------------
(* Induction *)

LEMMA InitInv == Init => Inv
  BY DEF Init, Inv, TableInv, FoldInv, OneSeedRow

\* Whatever leaves the rows, the clock and the transaction alone.
LEMMA Untouched ==
  ASSUME Inv, UNCHANGED <<table, now, fold>>
  PROVE  Inv'
  BY DEF Inv, TableInv, FoldInv, OneSeedRow, Expired, Expires

\* The transaction ends without a trace.
LEMMA RolledBack ==
  ASSUME Inv, UNCHANGED <<table, now>>, fold' = None
  PROVE  Inv'
  BY DEF Inv, TableInv, FoldInv, OneSeedRow

LEMMA TickInv ==
  ASSUME Inv, Tick
  PROVE  Inv'
<1>1. now' = now + 1 /\ table' = table /\ fold' = fold
  BY DEF Tick, apiVars
<1>2. TableInv'
  BY <1>1 DEF Inv, TableInv
<1>3. \A at : Expired(at)' = Expired(at)
  BY <1>1 DEF Expired, Expires
<1>4. FoldInv'
  BY <1>1, <1>3 DEF Inv, FoldInv, TableInv
<1>5. OneSeedRow'
  BY <1>1 DEF Inv, OneSeedRow
<1> QED BY <1>2, <1>4, <1>5 DEF Inv

LEMMA InsertInv ==
  ASSUME Inv, Insert
  PROVE  Inv'
<1> DEFINE row == [id |-> nextId, acct |-> hand.acct, delta |-> hand.delta,
                   reason |-> hand.reason, created |-> now]
<1>1. now' = now /\ fold' = fold
  BY DEF Insert
<1>2. CASE Conflicts(hand)
  <2>1. table' = table
    BY <1>2 DEF Insert
  <2> QED BY <1>1, <2>1, Untouched
<1>3. CASE ~Conflicts(hand)
  <2>1. table' = table \cup {row}
    BY <1>3 DEF Insert
  <2>2. TableInv'
    BY <1>1, <2>1 DEF Inv, TableInv
  <2>3. ASSUME NEW at \in Int, at <= now
        PROVE  Expired(at)' = Expired(at)
    <3>1. ~Expires(row, at)
      BY <2>3, NewIsYoung DEF Inv, TableInv
    <3>2. Expired(at)' = {r \in table \cup {row} : Expires(r, at)}
      BY <2>1 DEF Expired, Expires
    <3> QED BY <3>1, <3>2 DEF Expired
  <2>4. FoldInv'
    <3>1. SUFFICES ASSUME fold # None
                   PROVE  FoldInv'
      BY <1>1 DEF FoldInv
    <3>2. fold.at \in Int /\ fold.at <= now
      BY <3>1 DEF Inv, FoldInv
    <3>3. Expired(fold.at)' = Expired(fold.at)
      BY <2>3, <3>2, <1>1 DEF Expired, Expires
    <3> QED BY <1>1, <3>1, <3>2, <3>3 DEF Inv, FoldInv
  <2>5. OneSeedRow'
    <3>1. row.reason = hand.reason /\ row.acct = hand.acct
      OBVIOUS
    <3>2. row.reason = "seed" => ~\E r \in table : r.reason = "seed" /\ r.acct = row.acct
      BY <1>3, <3>1 DEF Conflicts
    <3> HIDE DEF row
    <3> QED BY <2>1, <3>2 DEF Inv, OneSeedRow
  <2> QED BY <2>2, <2>4, <2>5 DEF Inv
<1> QED BY <1>2, <1>3

LEMMA FoldInsertInv ==
  ASSUME Inv, FoldInsert
  PROVE  Inv'
<1>1. table' = table /\ now' = now
  BY DEF FoldInsert
<1>2. fold' = [at |-> now, id |-> nextId, removed |-> {}, carry |-> Carry(Expired(now), nextId, now)]
  BY DEF FoldInsert
<1>3. Expired(now)' = Expired(now)
  BY <1>1 DEF Expired, Expires
<1>4. FoldInv'
  BY <1>1, <1>2, <1>3 DEF Inv, FoldInv, TableInv, Expired, Expires
<1> QED BY <1>1, <1>4 DEF Inv, TableInv, OneSeedRow

LEMMA FoldDeleteInv ==
  ASSUME Inv, FoldDelete
  PROVE  Inv'
<1>1. table' = table /\ now' = now /\ fold # None
  BY DEF FoldDelete
<1>2. fold.at \in Int /\ fold.at <= now /\ fold.carry = Carry(Expired(fold.at), fold.id, fold.at)
  BY <1>1 DEF Inv, FoldInv
<1>3. {r \in fold.carry : ~Expires(r, fold.at)} = fold.carry
  BY <1>2, CarryStays
<1>4. fold' = [fold EXCEPT !.removed = Expired(fold.at), !.carry = fold.carry]
  BY <1>3 DEF FoldDelete
<1>5. fold' = [at |-> fold.at, id |-> fold.id, removed |-> Expired(fold.at), carry |-> fold.carry]
  BY <1>1, <1>4 DEF Inv, FoldInv
<1>6. Expired(fold.at)' = {r \in table : Expires(r, fold'.at)}
  BY <1>1 DEF Expired, Expires
<1>7. FoldInv'
  BY <1>1, <1>2, <1>5, <1>6 DEF FoldInv, Expired
<1> QED BY <1>1, <1>7 DEF Inv, TableInv, OneSeedRow

LEMMA FoldCommitInv ==
  ASSUME Inv, FoldCommit
  PROVE  Inv'
<1>1. table' = (table \ fold.removed) \cup fold.carry /\ now' = now /\ fold' = None
  BY DEF FoldCommit
<1>2. \A r \in fold.carry : r.created = fold.at /\ r.reason = "carry"
  BY CarryRows DEF FoldCommit, Inv, FoldInv
<1>3. TableInv'
  BY <1>1, <1>2 DEF Inv, TableInv, FoldInv, FoldCommit
<1>4. OneSeedRow'
  BY <1>1, <1>2 DEF Inv, OneSeedRow
<1> QED BY <1>1, <1>3, <1>4 DEF Inv, FoldInv

LEMMA NextInv == Inv /\ [Next]_vars => Inv'
<1> SUFFICES ASSUME Inv, [Next]_vars PROVE Inv'
  OBVIOUS
<1>1. CASE EngineStep
  BY <1>1, Untouched DEF EngineStep, Execute, Push, PushFails, SaveSnapshot, SnapshotGone,
     Restart, apiVars
<1>2. CASE WorkerStep
  BY <1>2, InsertInv, Untouched DEF WorkerStep, Pop, InsertFails
<1>3. CASE CronStep
  <2>1. CASE FoldFails
    BY <2>1, RolledBack DEF FoldFails
  <2> QED BY <1>3, <2>1, TickInv, FoldInsertInv, FoldDeleteInv, FoldCommitInv DEF CronStep
<1>4. CASE CheckStep
  BY <1>4, Untouched DEF CheckStep, ReadLedger, AskEngine, Answer, CheckFails
<1>5. CASE ApiRestart
  BY <1>5, RolledBack DEF ApiRestart
<1>6. CASE UNCHANGED vars
  BY <1>6, Untouched DEF vars
<1> QED BY <1>1, <1>2, <1>3, <1>4, <1>5, <1>6 DEF Next

\* Folding and opening credits: the first inductive invariant.
THEOREM InvHolds == Spec => []Inv
  BY InitInv, NextInv, PTL DEF Spec

-----------------------------------------------------------------------------
(* Rows on their way *)

\* What one row moves of account a.
Term(m, a) == IF m.acct = a /\ m.reason = "move" THEN m.delta ELSE 0

Elements(rows) == {rows[i] : i \in DOMAIN rows}

LEMMA MessageTypes ==
  ASSUME NEW m \in Message
  PROVE  /\ m.acct \in Accounts /\ m.delta \in Int /\ m.reason \in {"seed", "move"}
         /\ m = Row(m.acct, m.delta, m.reason)
         /\ m # None
  BY LedgerAssumption DEF Message, Row, LedgerAssumption

LEMMA TermsType ==
  ASSUME NEW rows \in Seq(Message), NEW a
  PROVE  /\ [i \in DOMAIN rows |-> Term(rows[i], a)] \in Seq(Int)
         /\ Moved(rows, a) = Total([i \in DOMAIN rows |-> Term(rows[i], a)])
<1> DEFINE terms == [i \in DOMAIN rows |-> Term(rows[i], a)]
<1>1. Len(rows) \in Nat /\ DOMAIN rows = 1..Len(rows)
  OBVIOUS
<1>2. \A i \in 1..Len(rows) : Term(rows[i], a) \in Int
  <2> TAKE i \in 1..Len(rows)
  <2>1. rows[i] \in Message
    OBVIOUS
  <2> QED
    BY <2>1, MessageTypes DEF Term
<1>3. terms \in [1..Len(rows) -> Int]
  BY <1>1, <1>2
<1>4. terms \in Seq(Int)
  BY <1>1, <1>3
<1>5. Moved(rows, a) = Total(terms)
  BY DEF Moved, Term
<1> QED
  BY <1>4, <1>5

LEMMA MovedType ==
  ASSUME NEW rows \in Seq(Message), NEW a
  PROVE  Moved(rows, a) \in Int
  BY TermsType, TotalType

LEMMA MovedNone ==
  ASSUME NEW a
  PROVE  Moved(<<>>, a) = 0 /\ Elements(<<>>) = {}
<1>1. <<>> \in Seq(Message)
  OBVIOUS
<1>2. [i \in DOMAIN <<>> |-> Term(<<>>[i], a)] = <<>>
  OBVIOUS
<1>3. Total(<<>>) = 0
  <2>1. <<>> \in Seq(Int) /\ Len(<<>>) = 0
    OBVIOUS
  <2> QED
    BY <2>1, RunningSumType DEF Total
<1>4. Moved(<<>>, a) = Total([i \in DOMAIN <<>> |-> Term(<<>>[i], a)])
  BY <1>1, TermsType
<1> QED
  BY <1>2, <1>3, <1>4 DEF Elements

LEMMA MovedOne ==
  ASSUME NEW m \in Message, NEW a
  PROVE  Moved(<<m>>, a) = Term(m, a) /\ Elements(<<m>>) = {m}
<1> DEFINE terms == [i \in DOMAIN <<m>> |-> Term(<<m>>[i], a)]
<1>1. <<m>> \in Seq(Message)
  OBVIOUS
<1>2. Len(terms) = 1 /\ terms[1] = Term(m, a)
  OBVIOUS
<1>3. terms \in Seq(Int) /\ Moved(<<m>>, a) = Total(terms)
  BY <1>1, TermsType
<1>4. Elements(<<m>>) = {m}
  BY DEF Elements
<1> HIDE DEF terms
<1>5. Total(terms) = terms[1]
  BY <1>2, <1>3, TotalSingle
<1> QED
  BY <1>2, <1>3, <1>4, <1>5

LEMMA SameSequence ==
  ASSUME NEW x \in Seq(Int), NEW y \in Seq(Int), Len(x) = Len(y),
         \A i \in 1..Len(x) : x[i] = y[i]
  PROVE  x = y
  OBVIOUS

\* One sequence after another.
LEMMA MovedConcat ==
  ASSUME NEW u \in Seq(Message), NEW v \in Seq(Message), NEW a
  PROVE  /\ u \o v \in Seq(Message)
         /\ Moved(u \o v, a) = Moved(u, a) + Moved(v, a)
         /\ Elements(u \o v) = Elements(u) \cup Elements(v)
<1> DEFINE all == u \o v
           f(w) == [i \in DOMAIN w |-> Term(w[i], a)]
<1>1. /\ all \in Seq(Message) /\ Len(all) = Len(u) + Len(v) /\ Len(u) \in Nat /\ Len(v) \in Nat
      /\ \A i \in 1..Len(all) : all[i] = IF i <= Len(u) THEN u[i] ELSE v[i - Len(u)]
      /\ DOMAIN u = 1..Len(u) /\ DOMAIN v = 1..Len(v) /\ DOMAIN all = 1..Len(all)
  OBVIOUS
<1>2. f(all) = f(u) \o f(v)
  <2>1. f(u) \in Seq(Int) /\ f(v) \in Seq(Int) /\ f(all) \in Seq(Int)
    BY <1>1, TermsType
  <2>2. Len(f(u)) = Len(u) /\ Len(f(v)) = Len(v) /\ Len(f(all)) = Len(all)
    BY <1>1
  <2>3. \A i \in 1..Len(all) : f(all)[i] = (f(u) \o f(v))[i]
    <3> TAKE i \in 1..Len(all)
    <3>1. CASE i <= Len(u)
      BY <1>1, <2>1, <2>2, <3>1
    <3>2. CASE ~(i <= Len(u))
      <4>1. i - Len(u) \in 1..Len(v)
        BY <1>1, <3>2
      <4> QED
        BY <1>1, <2>1, <2>2, <3>2, <4>1
    <3> QED
      BY <3>1, <3>2
  <2> DEFINE x == f(all)
             y == f(u) \o f(v)
  <2>4. x \in Seq(Int) /\ y \in Seq(Int) /\ Len(y) = Len(all)
    <3> HIDE DEF f, all
    <3> QED
      BY <1>1, <2>1, <2>2
  <2>5. Len(x) = Len(y) /\ \A i \in 1..Len(x) : x[i] = y[i]
    <3> HIDE DEF f
    <3> QED
      BY <2>2, <2>3, <2>4
  <2> HIDE DEF x, y
  <2>6. x = y
    BY <2>4, <2>5, SameSequence
  <2> QED
    BY <2>6 DEF x, y
<1>3. Moved(all, a) = Moved(u, a) + Moved(v, a)
  <2>1. /\ f(u) \in Seq(Int) /\ f(v) \in Seq(Int)
        /\ Moved(u, a) = Total(f(u)) /\ Moved(v, a) = Total(f(v)) /\ Moved(all, a) = Total(f(all))
    BY <1>1, TermsType
  <2> HIDE DEF f, all
  <2> QED
    BY <1>2, <2>1, TotalConcat
<1>4. Elements(all) = Elements(u) \cup Elements(v)
  <2>1. ASSUME NEW i \in 1..Len(u)
        PROVE  i \in 1..Len(all) /\ all[i] = u[i]
    BY <1>1
  <2>2. ASSUME NEW i \in 1..Len(v)
        PROVE  i + Len(u) \in 1..Len(all) /\ all[i + Len(u)] = v[i]
    <3>1. i + Len(u) \in 1..Len(all) /\ ~(i + Len(u) <= Len(u)) /\ (i + Len(u)) - Len(u) = i
      BY <1>1
    <3> QED
      BY <1>1, <3>1
  <2>3. ASSUME NEW i \in 1..Len(all)
        PROVE  all[i] \in Elements(u) \cup Elements(v)
    <3>1. CASE i <= Len(u)
      <4>1. i \in DOMAIN u /\ all[i] = u[i]
        BY <1>1, <3>1
      <4> QED
        BY <4>1 DEF Elements
    <3>2. CASE ~(i <= Len(u))
      <4>1. i - Len(u) \in DOMAIN v /\ all[i] = v[i - Len(u)]
        BY <1>1, <3>2
      <4> QED
        BY <4>1 DEF Elements
    <3> QED
      BY <3>1, <3>2
  <2>4. Elements(u) \subseteq Elements(all)
    <3> HIDE DEF all
    <3> QED
      BY <1>1, <2>1 DEF Elements
  <2>5. Elements(v) \subseteq Elements(all)
    <3> HIDE DEF all
    <3> QED
      BY <1>1, <2>2, SMTT(30) DEF Elements
  <2>6. Elements(all) \subseteq Elements(u) \cup Elements(v)
    <3> HIDE DEF all
    <3> QED
      BY <1>1, <2>3 DEF Elements
  <2> QED
    BY <2>4, <2>5, <2>6
<1> QED
  BY <1>1, <1>3, <1>4

\* The oldest row of a queue and the rest.
LEMMA Parts ==
  ASSUME NEW rows \in Seq(Message), rows # <<>>
  PROVE  /\ Head(rows) \in Message /\ Tail(rows) \in Seq(Message)
         /\ rows = <<Head(rows)>> \o Tail(rows)
  OBVIOUS

LEMMA MovedParts ==
  ASSUME NEW rows \in Seq(Message), rows # <<>>, NEW a
  PROVE  /\ Moved(rows, a) = Term(Head(rows), a) + Moved(Tail(rows), a)
         /\ Elements(rows) = {Head(rows)} \cup Elements(Tail(rows))
<1> DEFINE h == Head(rows)
           t == Tail(rows)
<1>1. h \in Message /\ t \in Seq(Message) /\ rows = <<h>> \o t
  BY Parts
<1> HIDE DEF h, t
<1>2. <<h>> \in Seq(Message)
  BY <1>1
<1>3. Moved(rows, a) = Moved(<<h>>, a) + Moved(t, a) /\ Elements(rows) = Elements(<<h>>) \cup Elements(t)
  BY <1>1, <1>2, MovedConcat
<1>4. Moved(rows, a) = Term(h, a) + Moved(t, a) /\ Elements(rows) = {h} \cup Elements(t)
  BY <1>1, <1>3, MovedOne
<1> QED
  BY <1>4 DEF h, t

LEMMA MovedAppend ==
  ASSUME NEW rows \in Seq(Message), NEW m \in Message, NEW a
  PROVE  /\ Append(rows, m) \in Seq(Message)
         /\ Moved(Append(rows, m), a) = Moved(rows, a) + Term(m, a)
         /\ Elements(Append(rows, m)) = Elements(rows) \cup {m}
<1> DEFINE last == <<m>>
<1>1. Append(rows, m) = rows \o last /\ last \in Seq(Message)
  OBVIOUS
<1>2. Moved(last, a) = Term(m, a) /\ Elements(last) = {m}
  BY MovedOne
<1> HIDE DEF last
<1>3. /\ rows \o last \in Seq(Message)
      /\ Moved(rows \o last, a) = Moved(rows, a) + Moved(last, a)
      /\ Elements(rows \o last) = Elements(rows) \cup Elements(last)
  BY <1>1, MovedConcat
<1> QED
  BY <1>1, <1>2, <1>3

\* A command's rows carry what it changes, and no opening credit.
LEMMA MovesMessages ==
  ASSUME NEW legs \in Seq(Leg), NEW a
  PROVE  /\ Moves(legs) \in Seq(Message)
         /\ Moved(Moves(legs), a) = Change(legs, a)
         /\ \A m \in Elements(Moves(legs)) :
              m.reason = "move" /\ \E i \in DOMAIN legs : m.acct = legs[i].acct /\ m.delta = legs[i].delta
         /\ Touched(Moves(legs)) = Touched(legs)
<1> DEFINE rows == Moves(legs)
<1>1. DOMAIN legs = 1..Len(legs) /\ Len(legs) \in Nat /\ DOMAIN rows = DOMAIN legs
  BY DEF Moves
<1>2. \A i \in DOMAIN legs : legs[i].acct \in Accounts /\ legs[i].delta \in Int
  <2> TAKE i \in DOMAIN legs
  <2>1. legs[i] \in Leg
    BY <1>1
  <2> QED
    BY <2>1 DEF Leg
<1>3. \A i \in DOMAIN legs : /\ rows[i] = Row(legs[i].acct, legs[i].delta, "move")
                             /\ rows[i].acct = legs[i].acct /\ rows[i].delta = legs[i].delta
                             /\ rows[i].reason = "move"
  BY DEF Moves, Row
<1>4. \A i \in DOMAIN legs : rows[i] \in Message
  <2> TAKE i \in DOMAIN legs
  <2>1. Row(legs[i].acct, legs[i].delta, "move") \in Message
    BY <1>2 DEF Row, Message
  <2> QED
    BY <1>3, <2>1
<1>5. rows \in Seq(Message)
  <2>1. rows = [i \in 1..Len(legs) |-> rows[i]]
    BY <1>1 DEF Moves
  <2>2. rows \in [1..Len(legs) -> Message]
    BY <1>1, <1>4, <2>1
  <2> QED
    BY <1>1, <2>2
<1>6. Moved(rows, a) = Change(legs, a)
  <2>1. \A i \in DOMAIN legs :
          (IF rows[i].acct = a /\ rows[i].reason = "move" THEN rows[i].delta ELSE 0)
            = (IF legs[i].acct = a THEN legs[i].delta ELSE 0)
    BY <1>3
  <2>2. [i \in DOMAIN rows |-> IF rows[i].acct = a /\ rows[i].reason = "move" THEN rows[i].delta ELSE 0]
          = [i \in DOMAIN legs |-> IF legs[i].acct = a THEN legs[i].delta ELSE 0]
    <3> HIDE DEF rows
    <3> QED
      BY <1>1, <2>1
  <2> QED
    BY <2>2 DEF Moved, Change
<1>7. \A m \in Elements(rows) :
        m.reason = "move" /\ \E i \in DOMAIN legs : m.acct = legs[i].acct /\ m.delta = legs[i].delta
  BY <1>1, <1>3 DEF Elements
<1>8. Touched(rows) = Touched(legs)
  <2> HIDE DEF rows
  <2> QED
    BY <1>1, <1>3 DEF Touched
<1> QED
  BY <1>5, <1>6, <1>7, <1>8

Seed(a) == Row(a, SeedAmount, "seed")

\* The opening credits move nothing, by the model's way of counting them apart.
LEMMA SeedsMessages ==
  ASSUME NEW a
  PROVE  /\ Seeds \in Seq(Message)
         /\ Moved(Seeds, a) = 0
         /\ Elements(Seeds) = {Seed(b) : b \in Seeded}
         /\ Seeded \subseteq Accounts
         /\ SeedAmount \in Int
<1>1. /\ SeedOrder \in Seq(Accounts) /\ SeedAmount \in Int
      /\ DOMAIN SeedOrder = 1..Len(SeedOrder) /\ Len(SeedOrder) \in Nat
  BY LedgerAssumption DEF LedgerAssumption
<1>2. Seeded \subseteq Accounts
  BY <1>1 DEF Seeded
<1>3. DOMAIN Seeds = 1..Len(SeedOrder) /\ \A i \in DOMAIN Seeds : Seeds[i] = Seed(SeedOrder[i])
  BY <1>1 DEF Seeds, Seed
<1>4. \A i \in DOMAIN Seeds : Seeds[i] \in Message /\ Seeds[i].reason = "seed"
  BY <1>1, <1>3 DEF Seed, Row, Message
<1>5. Seeds \in Seq(Message) /\ Len(Seeds) = Len(SeedOrder)
  <2>1. Seeds = [i \in 1..Len(SeedOrder) |-> Seeds[i]]
    BY <1>1 DEF Seeds
  <2>2. Seeds \in [1..Len(SeedOrder) -> Message]
    BY <1>3, <1>4, <2>1
  <2> QED
    BY <1>1, <2>2
<1>6. Moved(Seeds, a) = 0
  <2> DEFINE terms == [i \in DOMAIN Seeds |-> Term(Seeds[i], a)]
  <2>1. terms \in Seq(Int) /\ Moved(Seeds, a) = Total(terms)
    BY <1>5, TermsType
  <2>2. Len(terms) = Len(Seeds) /\ \A i \in 1..Len(terms) : terms[i] = 0
    BY <1>3, <1>4, <1>5 DEF Term
  <2> HIDE DEF terms
  <2>3. 0 \notin 1..Len(terms)
    BY <2>1
  <2> QED
    BY <2>1, <2>2, <2>3, TotalSingle
<1>7. Elements(Seeds) = {Seed(b) : b \in Seeded}
  BY <1>1, <1>3 DEF Elements, Seeded
<1> QED
  BY <1>1, <1>2, <1>5, <1>6, <1>7

\* Everything on its way: the row in the worker's hand, the list, and what the
\* engine has still to push.
Flight(h, l, o) == (IF h = None THEN <<>> ELSE <<h>>) \o l \o o

Waiting(h, l, o) == Elements(Flight(h, l, o))

HandSet(h) == IF h = None THEN {} ELSE {h}
HandTerm(h, a) == IF h = None THEN 0 ELSE Term(h, a)

LEMMA FlightParts ==
  ASSUME NEW h \in Message \cup {None}, NEW l \in Seq(Message), NEW o \in Seq(Message), NEW a
  PROVE  /\ Flight(h, l, o) \in Seq(Message)
         /\ Moved(Flight(h, l, o), a) = HandTerm(h, a) + Moved(l, a) + Moved(o, a)
         /\ HandTerm(h, a) \in Int /\ Moved(l, a) \in Int /\ Moved(o, a) \in Int
         /\ Waiting(h, l, o) = HandSet(h) \cup Elements(l) \cup Elements(o)
<1> DEFINE first == IF h = None THEN <<>> ELSE <<h>>
<1>1. /\ first \in Seq(Message) /\ Moved(first, a) = HandTerm(h, a) /\ Elements(first) = HandSet(h)
      /\ HandTerm(h, a) \in Int
  <2>1. CASE h = None
    BY <2>1, MovedNone DEF HandTerm, HandSet
  <2>2. CASE h # None
    <3>1. h \in Message
      BY <2>2
    <3>2. Term(h, a) \in Int
      BY <3>1, MessageTypes DEF Term
    <3> QED
      BY <2>2, <3>1, <3>2, MovedOne DEF HandTerm, HandSet
  <2> QED
    BY <2>1, <2>2
<1>2. Flight(h, l, o) = (first \o l) \o o
  BY DEF Flight
<1> HIDE DEF first
<1>3. /\ first \o l \in Seq(Message) /\ Moved(first \o l, a) = Moved(first, a) + Moved(l, a)
      /\ Elements(first \o l) = Elements(first) \cup Elements(l)
  BY <1>1, MovedConcat
<1> DEFINE some == first \o l
<1> HIDE DEF some
<1>4. /\ some \o o \in Seq(Message) /\ Moved(some \o o, a) = Moved(some, a) + Moved(o, a)
      /\ Elements(some \o o) = Elements(some) \cup Elements(o)
  <2>1. some \in Seq(Message)
    BY <1>3 DEF some
  <2> QED
    BY <2>1, MovedConcat
<1>5. Moved(l, a) \in Int /\ Moved(o, a) \in Int
  BY MovedType
<1> QED
  BY <1>1, <1>2, <1>3, <1>4, <1>5 DEF some, Waiting

LEMMA WaitingParts ==
  ASSUME NEW h \in Message \cup {None}, NEW l \in Seq(Message), NEW o \in Seq(Message)
  PROVE  Waiting(h, l, o) = HandSet(h) \cup Elements(l) \cup Elements(o)
<1>1. /\ Moved(Flight(h, l, o), h) = HandTerm(h, h) + Moved(l, h) + Moved(o, h)
      /\ Waiting(h, l, o) = HandSet(h) \cup Elements(l) \cup Elements(o)
  BY FlightParts
<1> QED
  BY <1>1

-----------------------------------------------------------------------------
(* Sums of the table *)

LEMMA TableSumType ==
  ASSUME NEW S \in SUBSET LedgerRow, IsFiniteSet(S), NEW a
  PROVE  /\ TableSum(S, a) \in Int
         /\ IsFiniteSet(Of(S, a))
<1> DEFINE f == [r \in S |-> r.delta]
<1>1. IsFiniteSet(Of(S, a))
  BY FS_Subset DEF Of
<1>2. \A r \in Of(S, a) : f[r] \in Int
  BY DEF Of, LedgerRow
<1> HIDE DEF f
<1>3. SumOver(Of(S, a), f) \in Int
  BY <1>1, <1>2, SumOverType
<1> QED
  BY <1>1, <1>3 DEF TableSum, f

LEMMA TableSumUnion ==
  ASSUME NEW R \in SUBSET LedgerRow, IsFiniteSet(R), NEW S \in SUBSET LedgerRow, IsFiniteSet(S),
         R \cap S = {}, NEW a
  PROVE  TableSum(R \cup S, a) = TableSum(R, a) + TableSum(S, a)
<1> DEFINE f == [r \in R \cup S |-> r.delta]
           fr == [r \in R |-> r.delta]
           fs == [r \in S |-> r.delta]
<1>1. /\ IsFiniteSet(Of(R, a)) /\ IsFiniteSet(Of(S, a))
      /\ Of(R \cup S, a) = Of(R, a) \cup Of(S, a) /\ Of(R, a) \cap Of(S, a) = {}
  BY TableSumType DEF Of
<1>2. /\ \A r \in Of(R, a) : f[r] \in Int /\ f[r] = fr[r]
      /\ \A r \in Of(S, a) : f[r] \in Int /\ f[r] = fs[r]
  BY DEF Of, LedgerRow
<1> HIDE DEF f, fr, fs
<1>3. SumOver(Of(R, a) \cup Of(S, a), f) = SumOver(Of(R, a), f) + SumOver(Of(S, a), f)
  <2> DEFINE x == Of(R, a)
             y == Of(S, a)
  <2> HIDE DEF x, y
  <2>1. IsFiniteSet(x) /\ IsFiniteSet(y) /\ x \cap y = {} /\ \A r \in x \cup y : f[r] \in Int
    BY <1>1, <1>2 DEF x, y
  <2>2. SumOver(x \cup y, f) = SumOver(x, f) + SumOver(y, f)
    BY <2>1, SumOverUnion
  <2> QED
    BY <2>2 DEF x, y
<1>4. SumOver(Of(R, a), f) = SumOver(Of(R, a), fr) /\ SumOver(Of(S, a), f) = SumOver(Of(S, a), fs)
  BY <1>1, <1>2, SumOverSame
<1> QED
  BY <1>1, <1>3, <1>4 DEF TableSum, f, fr, fs

LEMMA TableSumOne ==
  ASSUME NEW r \in LedgerRow, NEW a
  PROVE  TableSum({r}, a) = IF r.acct = a THEN r.delta ELSE 0
<1> DEFINE f == [x \in {r} |-> x.delta]
<1>1. f[r] = r.delta /\ r.delta \in Int
  BY DEF LedgerRow
<1>2. TableSum({r}, a) = SumOver(Of({r}, a), f)
  BY DEF TableSum
<1> HIDE DEF f
<1>3. CASE r.acct = a
  <2>1. Of({r}, a) = {r} /\ IsFiniteSet({r})
    BY <1>3, FS_Singleton DEF Of
  <2>2. SumOver({r}, f) = IF r \in {r} THEN f[r] ELSE 0
    BY <1>1, <2>1, SumOverSingle
  <2> QED
    BY <1>1, <1>2, <1>3, <2>1, <2>2
<1>4. CASE r.acct # a
  <2>1. Of({r}, a) = {}
    BY <1>4 DEF Of
  <2> QED
    BY <1>2, <1>4, <2>1, SumOverEmpty
<1> QED
  BY <1>3, <1>4

LEMMA TableSumNone ==
  ASSUME NEW S, NEW a, \A r \in S : r.acct # a
  PROVE  TableSum(S, a) = 0
<1>1. Of(S, a) = {}
  BY DEF Of
<1> QED
  BY <1>1, SumOverEmpty DEF TableSum

\* One row more.
LEMMA TableSumAdd ==
  ASSUME NEW S \in SUBSET LedgerRow, IsFiniteSet(S), NEW r \in LedgerRow, r \notin S, NEW a
  PROVE  /\ TableSum(S \cup {r}, a) = TableSum(S, a) + (IF r.acct = a THEN r.delta ELSE 0)
         /\ IsFiniteSet(S \cup {r})
<1> DEFINE one == {r}
<1>1. one \in SUBSET LedgerRow /\ IsFiniteSet(one) /\ S \cap one = {}
  BY FS_Singleton
<1>2. TableSum(one, a) = IF r.acct = a THEN r.delta ELSE 0
  BY TableSumOne
<1>3. IsFiniteSet(S \cup {r})
  BY FS_AddElement
<1> HIDE DEF one
<1>4. TableSum(S \cup one, a) = TableSum(S, a) + TableSum(one, a)
  BY <1>1, TableSumUnion
<1> QED
  BY <1>2, <1>3, <1>4 DEF one

\* What compactLedger puts in the place of rows adds up to what they did.
LEMMA CarrySum ==
  ASSUME NEW rows \in SUBSET LedgerRow, IsFiniteSet(rows), NEW id \in Nat, NEW at \in Nat, NEW a
  PROVE  /\ Carry(rows, id, at) \subseteq LedgerRow
         /\ IsFiniteSet(Carry(rows, id, at))
         /\ TableSum(Carry(rows, id, at), a) = TableSum(rows, a)
<1> DEFINE accts == {r.acct : r \in rows}
           c(b) == [id |-> id, acct |-> b, delta |-> TableSum(rows, b), reason |-> "carry",
                    created |-> at]
<1>1. IsFiniteSet(accts) /\ IsFiniteSet({c(b) : b \in accts})
  <2>1. IsFiniteSet(accts)
    <3> DEFINE f == [r \in rows |-> r.acct]
    <3>1. f \in Surjection(rows, accts)
      BY DEF Surjection
    <3> HIDE DEF f
    <3> QED
      BY <3>1, FS_Surjection
  <2> HIDE DEF accts
  <2> DEFINE f == [b \in accts |-> c(b)]
  <2>2. f \in Surjection(accts, {c(b) : b \in accts})
    BY DEF Surjection
  <2> HIDE DEF f, c
  <2> QED
    BY <2>1, <2>2, FS_Surjection
<1>2. \A b \in accts : c(b) \in LedgerRow /\ c(b).acct = b /\ c(b).delta = TableSum(rows, b)
  <2> TAKE b \in accts
  <2>1. b \in Accounts
    BY DEF LedgerRow
  <2>2. TableSum(rows, b) \in Int
    BY TableSumType
  <2> QED
    BY <2>1, <2>2 DEF LedgerRow
<1>3. Carry(rows, id, at) = {c(b) : b \in accts}
  BY DEF Carry
<1> HIDE DEF c
<1>4. ASSUME a \in accts
      PROVE  TableSum(Carry(rows, id, at), a) = TableSum(rows, a)
  <2>1. Of(Carry(rows, id, at), a) = {c(a)}
    BY <1>2, <1>3, <1>4 DEF Of
  <2>2. Of({c(a)}, a) = {c(a)}
    BY <1>2, <1>4 DEF Of
  <2>3. TableSum({c(a)}, a) = TableSum(rows, a)
    BY <1>2, <1>4, TableSumOne
  <2>4. TableSum(Carry(rows, id, at), a) = TableSum({c(a)}, a)
    <3> DEFINE f == [r \in Carry(rows, id, at) |-> r.delta]
               g == [r \in {c(a)} |-> r.delta]
    <3>1. f[c(a)] = g[c(a)] /\ f[c(a)] \in Int
      <4>1. c(a) \in Carry(rows, id, at) /\ c(a).delta \in Int
        BY <1>2, <1>3, <1>4 DEF LedgerRow
      <4> QED
        BY <4>1
    <3> HIDE DEF f, g
    <3>2. SumOver({c(a)}, f) = SumOver({c(a)}, g)
      <4>1. IsFiniteSet({c(a)})
        BY FS_Singleton
      <4> QED
        BY <3>1, <4>1, SumOverSame
    <3> QED
      BY <2>1, <2>2, <3>2 DEF TableSum, f, g
  <2> QED
    BY <2>3, <2>4
<1>5. ASSUME a \notin accts
      PROVE  TableSum(Carry(rows, id, at), a) = TableSum(rows, a)
  <2>1. \A r \in rows : r.acct # a
    BY <1>5
  <2>2. \A r \in Carry(rows, id, at) : r.acct # a
    BY <1>2, <1>3, <1>5
  <2> QED
    BY <2>1, <2>2, TableSumNone
<1> QED
  BY <1>1, <1>2, <1>3, <1>4, <1>5

-----------------------------------------------------------------------------
(* What the steps do to one account *)

Booked(tbl, a) == \E r \in tbl : r.reason = "seed" /\ r.acct = a

\* The equation of ExactUnlessLost for an account, and that its opening credit
\* was not forgotten: told and on its way, or in the table.
Fine(hold, tbl, h, l, o, a) ==
  /\ hold[a] = TableSum(tbl, a)
               + (Moved(Flight(h, l, o), a)
                  + (IF Seed(a) \in Waiting(h, l, o) /\ ~Booked(tbl, a) THEN SeedAmount ELSE 0))
  /\ a \in Seeded => Seed(a) \in Waiting(h, l, o) \/ Booked(tbl, a)

\* The same, queue by queue.
FineParts(held, sum, bkd, h, l, o, a) ==
  LET told == Seed(a) \in HandSet(h) \cup Elements(l) \cup Elements(o)
  IN  /\ held = sum + (HandTerm(h, a) + Moved(l, a) + Moved(o, a)
                       + (IF told /\ ~bkd THEN SeedAmount ELSE 0))
      /\ a \in Seeded => told \/ bkd

LEMMA FineByParts ==
  ASSUME NEW hold, NEW tbl, NEW h \in Message \cup {None}, NEW l \in Seq(Message),
         NEW o \in Seq(Message), NEW a
  PROVE  Fine(hold, tbl, h, l, o, a) <=> FineParts(hold[a], TableSum(tbl, a), Booked(tbl, a), h, l, o, a)
<1>1. /\ Moved(Flight(h, l, o), a) = HandTerm(h, a) + Moved(l, a) + Moved(o, a)
      /\ Waiting(h, l, o) = HandSet(h) \cup Elements(l) \cup Elements(o)
  BY FlightParts
<1> QED
  BY <1>1 DEF Fine, FineParts

LEMMA SeedFields ==
  ASSUME NEW a
  PROVE  Seed(a).acct = a /\ Seed(a).reason = "seed" /\ Seed(a).delta = SeedAmount
  BY DEF Seed, Row

LEMMA PartsAreNumbers ==
  ASSUME NEW h \in Message \cup {None}, NEW l \in Seq(Message), NEW o \in Seq(Message), NEW a
  PROVE  HandTerm(h, a) \in Int /\ Moved(l, a) \in Int /\ Moved(o, a) \in Int /\ SeedAmount \in Int
  BY FlightParts, SeedsMessages

\* pushLedger moves a row from the engine to the list.
LEMMA FinePush ==
  ASSUME NEW hold, NEW tbl, NEW h \in Message \cup {None}, NEW l \in Seq(Message),
         NEW o \in Seq(Message), o # <<>>, NEW a, TableSum(tbl, a) \in Int,
         Fine(hold, tbl, h, l, o, a)
  PROVE  Fine(hold, tbl, h, Append(l, Head(o)), Tail(o), a)
<1> DEFINE m == Head(o)
           l2 == Append(l, m)
           o2 == Tail(o)
<1>1. m \in Message /\ o2 \in Seq(Message)
  BY Parts
<1>2. /\ Moved(o, a) = Term(m, a) + Moved(o2, a)
      /\ Elements(o) = {m} \cup Elements(o2)
  BY MovedParts
<1> HIDE DEF m, o2
<1>3. /\ l2 \in Seq(Message) /\ Moved(l2, a) = Moved(l, a) + Term(m, a)
      /\ Elements(l2) = Elements(l) \cup {m}
  BY <1>1, MovedAppend
<1> HIDE DEF l2
<1>4. /\ HandTerm(h, a) \in Int /\ Moved(l, a) \in Int /\ Moved(o2, a) \in Int /\ SeedAmount \in Int
      /\ Term(m, a) \in Int
  <2>1. Term(m, a) \in Int
    BY <1>1, MessageTypes DEF Term
  <2> QED
    BY <1>1, <2>1, PartsAreNumbers
<1>5. FineParts(hold[a], TableSum(tbl, a), Booked(tbl, a), h, l, o, a)
  BY FineByParts
<1>6. HandSet(h) \cup Elements(l) \cup Elements(o) = HandSet(h) \cup Elements(l2) \cup Elements(o2)
  BY <1>2, <1>3
<1>7. FineParts(hold[a], TableSum(tbl, a), Booked(tbl, a), h, l2, o2, a)
  BY <1>2, <1>3, <1>4, <1>5, <1>6 DEF FineParts
<1>8. Fine(hold, tbl, h, l2, o2, a)
  BY <1>1, <1>3, <1>7, FineByParts
<1> QED
  BY <1>8 DEF l2, o2, m

\* BRPop moves a row from the list to the worker.
LEMMA FinePop ==
  ASSUME NEW hold, NEW tbl, NEW l \in Seq(Message), NEW o \in Seq(Message), l # <<>>,
         NEW a, TableSum(tbl, a) \in Int,
         Fine(hold, tbl, None, l, o, a)
  PROVE  Fine(hold, tbl, Head(l), Tail(l), o, a)
<1> DEFINE m == Head(l)
           l2 == Tail(l)
<1>1. m \in Message /\ l2 \in Seq(Message)
  BY Parts
<1>2. Moved(l, a) = Term(m, a) + Moved(l2, a) /\ Elements(l) = {m} \cup Elements(l2)
  BY MovedParts
<1> HIDE DEF m, l2
<1>3. HandTerm(None, a) = 0 /\ HandSet(None) = {}
  BY DEF HandTerm, HandSet
<1>4. m # None /\ HandTerm(m, a) = Term(m, a) /\ HandSet(m) = {m}
  BY <1>1, MessageTypes DEF HandTerm, HandSet
<1>5. Term(m, a) \in Int /\ Moved(l2, a) \in Int /\ Moved(o, a) \in Int /\ SeedAmount \in Int
  BY <1>1, <1>4, PartsAreNumbers
<1>6. FineParts(hold[a], TableSum(tbl, a), Booked(tbl, a), None, l, o, a)
  BY FineByParts
<1>7. HandSet(None) \cup Elements(l) \cup Elements(o) = HandSet(m) \cup Elements(l2) \cup Elements(o)
  BY <1>2, <1>3, <1>4
<1>8. FineParts(hold[a], TableSum(tbl, a), Booked(tbl, a), m, l2, o, a)
  BY <1>2, <1>3, <1>4, <1>5, <1>6, <1>7 DEF FineParts
<1> QED
  BY <1>1, <1>8, FineByParts DEF m, l2

\* A row of another account is lost on the way to the list.
LEMMA FineDropOut ==
  ASSUME NEW hold, NEW tbl, NEW h \in Message \cup {None}, NEW l \in Seq(Message),
         NEW o \in Seq(Message), o # <<>>, NEW a, Head(o).acct # a, TableSum(tbl, a) \in Int,
         Fine(hold, tbl, h, l, o, a)
  PROVE  Fine(hold, tbl, h, l, Tail(o), a)
<1> DEFINE m == Head(o)
           o2 == Tail(o)
<1>1. m \in Message /\ o2 \in Seq(Message)
  BY Parts
<1>2. Moved(o, a) = Term(m, a) + Moved(o2, a) /\ Elements(o) = {m} \cup Elements(o2)
  BY MovedParts
<1>3. m.acct # a
  OBVIOUS
<1> HIDE DEF m, o2
<1>4. Term(m, a) = 0 /\ m # Seed(a)
  BY <1>3, SeedFields DEF Term
<1>5. HandTerm(h, a) \in Int /\ Moved(l, a) \in Int /\ Moved(o2, a) \in Int /\ SeedAmount \in Int
  BY <1>1, PartsAreNumbers
<1>6. FineParts(hold[a], TableSum(tbl, a), Booked(tbl, a), h, l, o, a)
  BY FineByParts
<1>7. Seed(a) \in HandSet(h) \cup Elements(l) \cup Elements(o)
        <=> Seed(a) \in HandSet(h) \cup Elements(l) \cup Elements(o2)
  BY <1>2, <1>4
<1>8. FineParts(hold[a], TableSum(tbl, a), Booked(tbl, a), h, l, o2, a)
  BY <1>2, <1>4, <1>5, <1>6, <1>7 DEF FineParts
<1> QED
  BY <1>1, <1>8, FineByParts DEF o2

\* A row of another account, or an opening credit that is already in the
\* table, leaves the worker's hand without a trace.
LEMMA FineDropHand ==
  ASSUME NEW hold, NEW tbl, NEW h \in Message \cup {None}, NEW l \in Seq(Message),
         NEW o \in Seq(Message), NEW a, TableSum(tbl, a) \in Int,
         h # None => h.acct # a \/ (h.reason = "seed" /\ Booked(tbl, a)),
         Fine(hold, tbl, h, l, o, a)
  PROVE  Fine(hold, tbl, None, l, o, a)
<1>1. HandTerm(None, a) = 0 /\ HandSet(None) = {} /\ HandTerm(h, a) = 0
  BY DEF HandTerm, HandSet, Term
<1>2. Booked(tbl, a) \/ Seed(a) \notin HandSet(h)
  BY SeedFields DEF HandSet
<1>3. Moved(l, a) \in Int /\ Moved(o, a) \in Int /\ SeedAmount \in Int
  BY PartsAreNumbers
<1>4. FineParts(hold[a], TableSum(tbl, a), Booked(tbl, a), h, l, o, a)
  BY FineByParts
<1>5. FineParts(hold[a], TableSum(tbl, a), Booked(tbl, a), None, l, o, a)
  BY <1>1, <1>2, <1>3, <1>4 DEF FineParts
<1> QED
  BY <1>5, FineByParts

\* The worker's row goes into the table.
LEMMA FineInsert ==
  ASSUME NEW hold, NEW tbl, NEW new, NEW h \in Message, NEW l \in Seq(Message),
         NEW o \in Seq(Message), NEW a, TableSum(tbl, a) \in Int,
         h.reason = "seed" => h = Seed(h.acct) /\ ~Booked(tbl, h.acct),
         TableSum(new, a) = TableSum(tbl, a) + (IF h.acct = a THEN h.delta ELSE 0),
         Booked(new, a) <=> Booked(tbl, a) \/ (h.reason = "seed" /\ h.acct = a),
         Fine(hold, tbl, h, l, o, a)
  PROVE  Fine(hold, new, None, l, o, a)
<1>1. HandTerm(None, a) = 0 /\ HandSet(None) = {}
  BY DEF HandTerm, HandSet
<1>2. h # None /\ HandTerm(h, a) = Term(h, a) /\ HandSet(h) = {h} /\ h.delta \in Int
      /\ h.reason \in {"seed", "move"}
  BY MessageTypes DEF HandTerm, HandSet
<1>3. Moved(l, a) \in Int /\ Moved(o, a) \in Int /\ SeedAmount \in Int
  BY PartsAreNumbers
<1>4. FineParts(hold[a], TableSum(tbl, a), Booked(tbl, a), h, l, o, a)
  BY FineByParts
<1>5. CASE h.acct # a
  <2>1. Term(h, a) = 0 /\ h # Seed(a)
    BY <1>5, SeedFields DEF Term
  <2>2. FineParts(hold[a], TableSum(new, a), Booked(new, a), None, l, o, a)
    BY <1>1, <1>2, <1>3, <1>4, <1>5, <2>1 DEF FineParts
  <2> QED
    BY <2>2, FineByParts
<1>6. CASE h.acct = a /\ h.reason = "move"
  <2>1. Term(h, a) = h.delta /\ h # Seed(a)
    BY <1>6, SeedFields DEF Term
  <2>2. FineParts(hold[a], TableSum(new, a), Booked(new, a), None, l, o, a)
    BY <1>1, <1>2, <1>3, <1>4, <1>6, <2>1 DEF FineParts
  <2> QED
    BY <2>2, FineByParts
<1>7. CASE h.acct = a /\ h.reason = "seed"
  <2>1. Term(h, a) = 0 /\ h = Seed(a) /\ h.delta = SeedAmount /\ ~Booked(tbl, a) /\ Booked(new, a)
    BY <1>7, SeedFields DEF Term
  <2>2. FineParts(hold[a], TableSum(new, a), Booked(new, a), None, l, o, a)
    BY <1>1, <1>2, <1>3, <1>4, <1>7, <2>1 DEF FineParts
  <2> QED
    BY <2>2, FineByParts
<1> QED
  BY <1>2, <1>5, <1>6, <1>7

\* A fold leaves the sum and the opening credit as they are.
LEMMA FineSame ==
  ASSUME NEW hold, NEW tbl, NEW new, NEW h, NEW l, NEW o, NEW a,
         TableSum(new, a) = TableSum(tbl, a), Booked(new, a) <=> Booked(tbl, a),
         Fine(hold, tbl, h, l, o, a)
  PROVE  Fine(hold, new, h, l, o, a)
  BY DEF Fine

\* A command changes the holding and has rows to push for it.
LEMMA FineExecute ==
  ASSUME NEW hold, NEW new, NEW tbl, NEW h \in Message \cup {None}, NEW l \in Seq(Message),
         NEW legs \in Seq(Leg), NEW a, TableSum(tbl, a) \in Int,
         new[a] = hold[a] + Change(legs, a),
         Fine(hold, tbl, h, l, <<>>, a)
  PROVE  Fine(new, tbl, h, l, Moves(legs), a)
<1> DEFINE o == Moves(legs)
<1>1. o \in Seq(Message) /\ Moved(o, a) = Change(legs, a) /\ \A m \in Elements(o) : m.reason = "move"
  BY MovesMessages
<1> HIDE DEF o
<1>2. Seed(a) \notin Elements(o)
  BY <1>1, SeedFields
<1>3. Moved(<<>>, a) = 0 /\ Elements(<<>>) = {} /\ <<>> \in Seq(Message)
  BY MovedNone
<1>4. HandTerm(h, a) \in Int /\ Moved(l, a) \in Int /\ SeedAmount \in Int /\ Moved(o, a) \in Int
  BY <1>1, PartsAreNumbers
<1>5. FineParts(hold[a], TableSum(tbl, a), Booked(tbl, a), h, l, <<>>, a)
  BY <1>3, FineByParts
<1>6. FineParts(new[a], TableSum(tbl, a), Booked(tbl, a), h, l, o, a)
  BY <1>1, <1>2, <1>3, <1>4, <1>5 DEF FineParts
<1> QED
  BY <1>1, <1>6, FineByParts DEF o

\* A boot that finds a holding as it was, and that had nothing left to push for
\* it, may tell the seeds again.
LEMMA FineRestart ==
  ASSUME NEW hold, NEW new, NEW tbl, NEW h \in Message \cup {None}, NEW l \in Seq(Message),
         NEW o \in Seq(Message), NEW o2, o2 = <<>> \/ o2 = Seeds, NEW a, TableSum(tbl, a) \in Int,
         new[a] = hold[a], \A m \in Elements(o) : m.acct # a,
         Fine(hold, tbl, h, l, o, a)
  PROVE  Fine(new, tbl, h, l, o2, a)
<1>1. Seed(a) \notin Elements(o)
  BY SeedFields
<1>2. Moved(o, a) = 0
  <2> DEFINE terms == [i \in DOMAIN o |-> Term(o[i], a)]
  <2>1. terms \in Seq(Int) /\ Moved(o, a) = Total(terms)
    BY TermsType
  <2>2. Len(terms) = Len(o) /\ \A i \in 1..Len(terms) : terms[i] = 0
    BY DEF Term, Elements
  <2> HIDE DEF terms
  <2>3. 0 \notin 1..Len(terms)
    BY <2>1
  <2> QED
    BY <2>1, <2>2, <2>3, TotalSingle
<1>3. /\ o2 \in Seq(Message) /\ Moved(o2, a) = 0
      /\ \A m \in Elements(o2) : m \in {Seed(b) : b \in Seeded}
      /\ Seed(a) \in Elements(o2) => a \in Seeded
  <2>1. CASE o2 = <<>>
    BY <2>1, MovedNone
  <2>2. CASE o2 = Seeds
    <3>1. \A b \in Seeded : Seed(a) = Seed(b) => a = b
      BY SeedFields
    <3> QED
      BY <2>2, <3>1, SeedsMessages
  <2> QED
    BY <2>1, <2>2
<1>4. HandTerm(h, a) \in Int /\ Moved(l, a) \in Int /\ SeedAmount \in Int
  BY PartsAreNumbers
<1>5. FineParts(hold[a], TableSum(tbl, a), Booked(tbl, a), h, l, o, a)
  BY FineByParts
<1>6. FineParts(new[a], TableSum(tbl, a), Booked(tbl, a), h, l, o2, a)
  BY <1>1, <1>2, <1>3, <1>4, <1>5 DEF FineParts
<1> QED
  BY <1>3, <1>6, FineByParts

-----------------------------------------------------------------------------
(* The invariant of the sums *)

Shape == TypeOK /\ IsFiniteSet(table)

\* A row is recognised by its number, and a transaction under way has one that
\* no committed row has.
RowIds ==
  /\ \A r \in table : r.id < nextId
  /\ fold # None => fold.id < nextId /\ \A r \in table : r.id # fold.id

\* What is on its way is what the engine tells.
TellsSense ==
  \A m \in Waiting(hand, list, out) :
    m.delta \in Deltas /\ (m.reason = "seed" => m = Seed(m.acct) /\ m.acct \in Seeded)

AccountInv == \A a \in exact : Fine(holding, table, hand, list, out, a)

SumsInv == Inv /\ Shape /\ RowIds /\ TellsSense /\ AccountInv

LEMMA AccountInvIsExact ==
  AccountInv => ExactUnlessLost
<1>1. InFlight = Flight(hand, list, out)
  BY DEF InFlight, Flight, InHand
<1>2. \A a : Opened(a) <=> Booked(table, a)
  BY DEF Opened, Booked
<1>3. \A rows, a : Told(rows, a) <=> Seed(a) \in Elements(rows)
  BY DEF Told, Seed, Elements
<1> QED
  BY <1>1, <1>2, <1>3 DEF AccountInv, ExactUnlessLost, Fine, OnTheWay, Waiting

LEMMA ShapeParts ==
  ASSUME Shape
  PROVE  /\ hand \in Message \cup {None} /\ list \in Seq(Message) /\ out \in Seq(Message)
         /\ table \in SUBSET LedgerRow /\ IsFiniteSet(table)
         /\ nextId \in Nat /\ now \in Nat /\ exact \subseteq Accounts
         /\ \A a : TableSum(table, a) \in Int
         /\ \A at : Expired(at) \in SUBSET LedgerRow /\ IsFiniteSet(Expired(at))
         /\ None \notin Message
<1>1. table \in SUBSET LedgerRow /\ IsFiniteSet(table)
  BY DEF Shape, TypeOK
<1>2. \A a : TableSum(table, a) \in Int
  BY <1>1, TableSumType
<1>3. \A at : Expired(at) \in SUBSET LedgerRow /\ IsFiniteSet(Expired(at))
  BY <1>1, FS_Subset DEF Expired
<1> QED
  BY <1>1, <1>2, <1>3, LedgerAssumption DEF Shape, TypeOK, LedgerAssumption

\* The row the worker inserts.
NewRow == [id |-> nextId, acct |-> hand.acct, delta |-> hand.delta,
           reason |-> hand.reason, created |-> now]

LEMMA InsertAdds ==
  ASSUME Shape, RowIds, Insert, ~Conflicts(hand)
  PROVE  /\ hand \in Message /\ hand # None /\ hand' = None
         /\ table' = table \cup {NewRow} /\ NewRow \in LedgerRow /\ NewRow.id = nextId
         /\ IsFiniteSet(table') /\ table' \in SUBSET LedgerRow /\ nextId' = nextId + 1
         /\ \A a : /\ TableSum(table', a)
                        = TableSum(table, a) + (IF hand.acct = a THEN hand.delta ELSE 0)
                   /\ Booked(table', a)
                        <=> Booked(table, a) \/ (hand.reason = "seed" /\ hand.acct = a)
<1>1. hand \in Message /\ hand # None /\ hand' = None
  BY ShapeParts DEF Insert
<1>2. table' = table \cup {NewRow} /\ nextId' = nextId + 1
  BY DEF Insert, NewRow
<1>3. NewRow \in LedgerRow /\ NewRow.acct = hand.acct /\ NewRow.delta = hand.delta
      /\ NewRow.reason = hand.reason /\ NewRow.id = nextId
  BY <1>1, MessageTypes, ShapeParts DEF NewRow, LedgerRow
<1>4. NewRow \notin table
  BY <1>3, ShapeParts DEF RowIds
<1> HIDE DEF NewRow
<1>5. ASSUME NEW a
      PROVE  TableSum(table', a) = TableSum(table, a) + (IF hand.acct = a THEN hand.delta ELSE 0)
  <2>1. TableSum(table \cup {NewRow}, a)
          = TableSum(table, a) + (IF NewRow.acct = a THEN NewRow.delta ELSE 0)
    BY <1>3, <1>4, ShapeParts, TableSumAdd, ZenonT(30)
  <2> QED
    BY <1>2, <1>3, <2>1
<1>6. IsFiniteSet(table')
  BY <1>2, ShapeParts, FS_AddElement
<1>7. table' \in SUBSET LedgerRow
  BY <1>2, <1>3, ShapeParts
<1>8. ASSUME NEW a
      PROVE  Booked(table', a) <=> Booked(table, a) \/ (hand.reason = "seed" /\ hand.acct = a)
  BY <1>2, <1>3 DEF Booked
<1> QED
  BY <1>1, <1>2, <1>3, <1>5, <1>6, <1>7, <1>8

LEMMA CommitKeepsSums ==
  ASSUME Inv, Shape, RowIds, FoldCommit
  PROVE  /\ IsFiniteSet(table') /\ table' \in SUBSET LedgerRow
         /\ \A r \in table' : r \in table \/ r.id = fold.id
         /\ \A a : TableSum(table', a) = TableSum(table, a) /\ (Booked(table', a) <=> Booked(table, a))
<1> DEFINE gone == Expired(fold.at)
           kept == table \ gone
           carry == Carry(gone, fold.id, fold.at)
<1>1. /\ table' = kept \cup carry /\ fold # None
      /\ fold.removed = gone /\ fold.carry = carry
  BY DEF FoldCommit, Inv, FoldInv
<1>2. fold.id \in Nat /\ fold.at \in Nat
  BY <1>1 DEF Shape, TypeOK
<1>3. /\ gone \in SUBSET LedgerRow /\ IsFiniteSet(gone)
      /\ kept \in SUBSET LedgerRow /\ IsFiniteSet(kept)
      /\ gone \cup kept = table /\ gone \cap kept = {}
  <2>1. gone \in SUBSET LedgerRow /\ IsFiniteSet(gone)
    BY ShapeParts
  <2>2. kept \in SUBSET LedgerRow /\ IsFiniteSet(kept)
    BY ShapeParts, FS_Subset
  <2> QED
    BY <2>1, <2>2 DEF Expired
<1>4. \A r \in gone : r.reason # "seed"
  BY DEF Expired, Expires
<1> HIDE DEF gone, kept
<1>5. carry \in SUBSET LedgerRow /\ IsFiniteSet(carry) /\ \A a : TableSum(carry, a) = TableSum(gone, a)
  BY <1>2, <1>3, CarrySum
<1>6. \A r \in carry : r.reason = "carry" /\ r.id = fold.id
  BY DEF Carry
<1> HIDE DEF carry
<1>7. kept \cap carry = {}
  BY <1>1, <1>3, <1>6 DEF RowIds
<1>8. ASSUME NEW a
      PROVE  TableSum(table', a) = TableSum(table, a)
  <2>1. TableSum(kept \cup carry, a) = TableSum(kept, a) + TableSum(carry, a)
    BY <1>3, <1>5, <1>7, TableSumUnion
  <2>2. TableSum(gone \cup kept, a) = TableSum(gone, a) + TableSum(kept, a)
    BY <1>3, TableSumUnion
  <2>3. TableSum(gone, a) \in Int /\ TableSum(kept, a) \in Int
    BY <1>3, TableSumType
  <2>4. TableSum(table', a) = TableSum(kept, a) + TableSum(gone, a)
    BY <1>1, <1>5, <2>1
  <2>5. TableSum(table, a) = TableSum(gone, a) + TableSum(kept, a)
    BY <1>3, <2>2
  <2> QED
    BY <2>3, <2>4, <2>5
<1>9. ASSUME NEW a
      PROVE  Booked(table', a) <=> Booked(table, a)
  BY <1>1, <1>3, <1>4, <1>6 DEF Booked
<1>10. IsFiniteSet(table') /\ table' \in SUBSET LedgerRow
  <2>1. IsFiniteSet(kept \cup carry)
    BY <1>3, <1>5, FS_Union
  <2> QED
    BY <1>1, <1>3, <1>5, <2>1
<1>11. \A r \in table' : r \in table \/ r.id = fold.id
  BY <1>1, <1>3, <1>6
<1> QED
  BY <1>8, <1>9, <1>10, <1>11

LEMMA InitSums == Init => SumsInv
<1> SUFFICES ASSUME Init PROVE SumsInv
  OBVIOUS
<1>1. Inv
  BY InitInv
<1>2. /\ Seeds \in Seq(Message) /\ Elements(Seeds) = {Seed(b) : b \in Seeded}
      /\ Seeded \subseteq Accounts /\ SeedAmount \in Int
      /\ \A a : Moved(Seeds, a) = 0
  BY SeedsMessages
<1>3. Shape
  BY <1>2, FS_EmptySet DEF Init, Shape, TypeOK
<1>4. RowIds
  BY DEF Init, RowIds
<1>5. hand = None /\ list = <<>> /\ out = Seeds /\ table = {}
  BY DEF Init
<1>6. <<>> \in Seq(Message) /\ Elements(<<>>) = {} /\ \A a : Moved(<<>>, a) = 0
  BY MovedNone
<1>7. HandSet(None) = {} /\ \A a : HandTerm(None, a) = 0
  BY DEF HandSet, HandTerm
<1>8. Waiting(hand, list, out) = {Seed(b) : b \in Seeded}
  <2>1. Waiting(None, <<>>, Seeds) = HandSet(None) \cup Elements(<<>>) \cup Elements(Seeds)
    <3> DEFINE e == <<>>
               s == Seeds
               n == None
    <3>1. e \in Seq(Message) /\ s \in Seq(Message) /\ n \in Message \cup {None}
      BY <1>2, <1>6
    <3> HIDE DEF e, s, n
    <3>2. Waiting(n, e, s) = HandSet(n) \cup Elements(e) \cup Elements(s)
      BY <3>1, WaitingParts
    <3> QED
      BY <3>2 DEF e, s, n
  <2> QED
    BY <1>2, <1>5, <1>6, <1>7, <2>1
<1>9. TellsSense
  BY <1>8, SeedFields DEF TellsSense, Deltas
<1>10. AccountInv
  <2> SUFFICES ASSUME NEW a \in exact PROVE Fine(holding, table, hand, list, out, a)
    BY DEF AccountInv
  <2>1. a \in Accounts /\ holding[a] = IF a \in Seeded THEN SeedAmount ELSE 0
    BY DEF Init
  <2>2. TableSum(table, a) = 0 /\ ~Booked(table, a)
    BY <1>5, TableSumNone DEF Booked
  <2>3. Seed(a) \in HandSet(None) \cup Elements(<<>>) \cup Elements(Seeds) <=> a \in Seeded
    BY <1>2, <1>6, <1>7, SeedFields
  <2>4. FineParts(holding[a], TableSum(table, a), Booked(table, a), None, <<>>, Seeds, a)
    BY <1>2, <1>6, <1>7, <2>1, <2>2, <2>3 DEF FineParts
  <2> QED
    BY <1>2, <1>5, <1>6, <2>4, FineByParts
<1> QED
  BY <1>1, <1>3, <1>4, <1>9, <1>10 DEF SumsInv

\* Numbers: only Insert and compactLedger make rows.
LEMMA RowIdsStep ==
  ASSUME SumsInv, [Next]_vars
  PROVE  RowIds'
<1>1. Inv /\ Shape /\ RowIds /\ nextId \in Nat
  BY ShapeParts DEF SumsInv
<1>2. ASSUME UNCHANGED <<table, nextId>>, fold' \in {fold, None}
      PROVE  RowIds'
  BY <1>1, <1>2 DEF RowIds
<1>3. CASE Insert
  <2>1. fold' = fold
    BY <1>3 DEF Insert
  <2>2. CASE Conflicts(hand)
    BY <1>2, <1>3, <2>1, <2>2 DEF Insert
  <2>3. CASE ~Conflicts(hand)
    <3>1. table' = table \cup {NewRow} /\ NewRow.id = nextId /\ nextId' = nextId + 1
      BY <1>1, <1>3, <2>3, InsertAdds
    <3>2. \A r \in table : r.id \in Int
      BY <1>1, ShapeParts DEF LedgerRow
    <3>3. fold # None => fold.id \in Nat
      BY <1>1 DEF Shape, TypeOK
    <3> HIDE DEF NewRow
    <3> QED
      BY <1>1, <2>1, <3>1, <3>2, <3>3 DEF RowIds
  <2> QED
    BY <2>2, <2>3
<1>4. CASE FoldInsert
  <2>1. table' = table /\ nextId' = nextId + 1 /\ fold'.id = nextId
    BY <1>4 DEF FoldInsert
  <2>2. \A r \in table : r.id \in Int
    BY <1>1, ShapeParts DEF LedgerRow
  <2> QED
    BY <1>1, <2>1, <2>2 DEF RowIds
<1>5. CASE FoldDelete
  <2>1. fold # None /\ table' = table /\ nextId' = nextId
    BY <1>5 DEF FoldDelete
  <2>2. fold'.id = fold.id
    <3>1. fold = [at |-> fold.at, id |-> fold.id, removed |-> fold.removed, carry |-> fold.carry]
      BY <1>1, <2>1 DEF Inv, FoldInv
    <3> QED
      BY <1>5, <3>1 DEF FoldDelete
  <2> QED
    BY <1>1, <2>1, <2>2 DEF RowIds
<1>6. CASE FoldCommit
  <2>1. \A r \in table' : r \in table \/ r.id = fold.id
    BY <1>1, <1>6, CommitKeepsSums
  <2>2. fold' = None /\ nextId' = nextId /\ fold # None
    BY <1>6 DEF FoldCommit
  <2> QED
    BY <1>1, <2>1, <2>2 DEF RowIds
<1>7. CASE EngineStep
  BY <1>2, <1>7 DEF EngineStep, Execute, Push, PushFails, SaveSnapshot, SnapshotGone, Restart, apiVars
<1>8. CASE Pop \/ InsertFails \/ Tick \/ FoldFails \/ ApiRestart
  BY <1>2, <1>8 DEF Pop, InsertFails, Tick, FoldFails, ApiRestart, apiVars
<1>9. CASE CheckStep
  BY <1>2, <1>9 DEF CheckStep, ReadLedger, AskEngine, Answer, CheckFails
<1>10. CASE UNCHANGED vars
  BY <1>2, <1>10 DEF vars
<1> QED
  BY <1>3, <1>4, <1>5, <1>6, <1>7, <1>8, <1>9, <1>10 DEF Next, WorkerStep, CronStep

\* Types.
LEMMA ShapeStep ==
  ASSUME SumsInv, [Next]_vars
  PROVE  Shape'
<1>1. Inv /\ Shape /\ RowIds /\ nextId \in Nat /\ TypeOK /\ IsFiniteSet(table)
  BY ShapeParts DEF SumsInv, Shape
<1> USE DEF Shape, TypeOK
<1>2. CASE \E legs \in Commands : Execute(legs)
  <2>1. PICK legs \in Commands : Execute(legs)
    BY <1>2
  <2>2. legs \in Seq(Leg)
    BY LedgerAssumption DEF LedgerAssumption
  <2>3. Moves(legs) \in Seq(Message) /\ \A a : Change(legs, a) \in Int
    BY <2>2, MovesMessages, MovedType
  <2>4. holding' \in [Accounts -> Int]
    BY <1>1, <2>1, <2>3 DEF Execute
  <2>5. UNCHANGED <<image, list, hand, table, nextId, now, fold, exact>> /\ out' = Moves(legs)
    BY <2>1 DEF Execute
  <2> QED
    BY <1>1, <2>3, <2>4, <2>5
<1>3. CASE Push
  <2>1. Head(out) \in Message /\ Tail(out) \in Seq(Message) /\ Append(list, Head(out)) \in Seq(Message)
    <3>1. Head(out) \in Message /\ Tail(out) \in Seq(Message)
      BY <1>1, <1>3, Parts DEF Push
    <3> QED
      BY <1>1, <3>1, MovedAppend
  <2> QED
    BY <1>1, <1>3, <2>1 DEF Push, apiVars
<1>4. CASE PushFails
  <2>1. Tail(out) \in Seq(Message)
    BY <1>1, <1>4, Parts DEF PushFails
  <2> QED
    BY <1>1, <1>4, <2>1 DEF PushFails, apiVars
<1>5. CASE SaveSnapshot \/ SnapshotGone
  BY <1>1, <1>5 DEF SaveSnapshot, SnapshotGone, apiVars
<1>6. CASE Restart
  <2>1. Seeds \in Seq(Message) /\ SeedAmount \in Int /\ <<>> \in Seq(Message)
    BY SeedsMessages, MovedNone
  <2>2. holding' \in [Accounts -> Int] /\ out' \in Seq(Message) /\ exact' \subseteq exact
    BY <1>1, <1>6, <2>1 DEF Restart
  <2>3. UNCHANGED <<image, list, hand, table, nextId, now, fold>>
    BY <1>6 DEF Restart
  <2> QED
    BY <1>1, <2>2, <2>3
<1>7. CASE Pop
  <2>1. Head(list) \in Message /\ Tail(list) \in Seq(Message)
    BY <1>1, <1>7, Parts DEF Pop
  <2> QED
    BY <1>1, <1>7, <2>1 DEF Pop, engineVars
<1>8. CASE Insert
  <2>1. UNCHANGED <<holding, image, out, list, now, fold, exact>> /\ hand' = None
    BY <1>8 DEF Insert, engineVars
  <2>2. table' \subseteq LedgerRow /\ IsFiniteSet(table') /\ nextId' \in Nat
    <3>1. CASE Conflicts(hand)
      BY <1>1, <1>8, <3>1 DEF Insert
    <3>2. CASE ~Conflicts(hand)
      <4>1. table' \in SUBSET LedgerRow /\ IsFiniteSet(table') /\ nextId' = nextId + 1
        BY <1>1, <1>8, <3>2, InsertAdds
      <4> QED
        BY <1>1, <4>1
    <3> QED
      BY <3>1, <3>2
  <2> QED
    BY <1>1, <2>1, <2>2
<1>9. CASE InsertFails
  BY <1>1, <1>9 DEF InsertFails, engineVars
<1>10. CASE Tick
  BY <1>1, <1>10 DEF Tick, engineVars, apiVars
<1>11. CASE FoldInsert
  <2>1. UNCHANGED <<holding, image, out, list, hand, table, now, exact>> /\ nextId' = nextId + 1
    BY <1>11 DEF FoldInsert, engineVars
  <2>2. Carry(Expired(now), nextId, now) \in SUBSET LedgerRow
    BY <1>1, ShapeParts, CarrySum
  <2>3. fold' \in [at : Nat, id : Nat, removed : SUBSET LedgerRow, carry : SUBSET LedgerRow]
    BY <1>1, <1>11, <2>2 DEF FoldInsert
  <2> QED
    BY <1>1, <2>1, <2>3
<1>12. CASE FoldDelete
  <2>1. UNCHANGED <<holding, image, out, list, hand, table, nextId, now, exact>>
    BY <1>12 DEF FoldDelete, engineVars
  <2>2. Expired(fold.at) \in SUBSET LedgerRow
    BY <1>1, ShapeParts
  <2>3. fold' \in [at : Nat, id : Nat, removed : SUBSET LedgerRow, carry : SUBSET LedgerRow]
    BY <1>1, <1>12, <2>2 DEF FoldDelete
  <2> QED
    BY <1>1, <2>1, <2>3
<1>13. CASE FoldCommit
  <2>1. UNCHANGED <<holding, image, out, list, hand, nextId, now, exact>> /\ fold' = None
    BY <1>13 DEF FoldCommit, engineVars
  <2>2. table' \in SUBSET LedgerRow /\ IsFiniteSet(table')
    BY <1>1, <1>13, CommitKeepsSums
  <2> QED
    BY <1>1, <2>1, <2>2
<1>14. CASE FoldFails \/ ApiRestart
  BY <1>1, <1>14 DEF FoldFails, ApiRestart, engineVars
<1>15. CASE CheckStep
  BY <1>1, <1>15 DEF CheckStep, ReadLedger, AskEngine, Answer, CheckFails, engineVars
<1>16. CASE UNCHANGED vars
  BY <1>1, <1>16 DEF vars
<1> QED
  BY <1>2, <1>3, <1>4, <1>5, <1>6, <1>7, <1>8, <1>9, <1>10, <1>11, <1>12, <1>13, <1>14, <1>15, <1>16
  DEF Next, EngineStep, WorkerStep, CronStep

\* What is on its way.
LEMMA TellsStep ==
  ASSUME SumsInv, [Next]_vars
  PROVE  TellsSense'
<1>1. Inv /\ Shape /\ Shape' /\ TellsSense
  BY ShapeStep DEF SumsInv
<1>2. Waiting(hand, list, out) = HandSet(hand) \cup Elements(list) \cup Elements(out)
  BY <1>1, ShapeParts, WaitingParts
<1>3. Waiting(hand', list', out') = HandSet(hand') \cup Elements(list') \cup Elements(out')
  <2>1. hand' \in Message \cup {None} /\ list' \in Seq(Message) /\ out' \in Seq(Message)
    BY <1>1 DEF Shape, TypeOK
  <2> QED
    BY <2>1, WaitingParts
<1> DEFINE Sense(m) == m.delta \in Deltas /\ (m.reason = "seed" => m = Seed(m.acct) /\ m.acct \in Seeded)
<1>4. ASSUME \A m \in HandSet(hand') \cup Elements(list') \cup Elements(out') :
               Sense(m) \/ m \in HandSet(hand) \cup Elements(list) \cup Elements(out)
      PROVE  TellsSense'
  BY <1>1, <1>2, <1>3, <1>4 DEF TellsSense
<1>5. CASE \E legs \in Commands : Execute(legs)
  <2>1. PICK legs \in Commands : Execute(legs)
    BY <1>5
  <2>2. legs \in Seq(Leg)
    BY LedgerAssumption DEF LedgerAssumption
  <2>3. \A m \in Elements(Moves(legs)) :
          m.reason = "move" /\ \E i \in DOMAIN legs : m.acct = legs[i].acct /\ m.delta = legs[i].delta
    BY <2>2, MovesMessages
  <2>4. \A m \in Elements(Moves(legs)) : Sense(m)
    BY <2>1, <2>3 DEF Deltas
  <2>5. hand' = hand /\ list' = list /\ out' = Moves(legs)
    BY <2>1 DEF Execute
  <2> QED
    BY <1>4, <2>4, <2>5
<1>6. CASE Push
  <2>1. out # <<>> /\ hand' = hand /\ list' = Append(list, Head(out)) /\ out' = Tail(out)
    BY <1>6 DEF Push, apiVars
  <2>2. Elements(out) = {Head(out)} \cup Elements(Tail(out)) /\ Head(out) \in Message
    BY <1>1, <2>1, MovedParts, ShapeParts, Parts
  <2>3. Elements(list') = Elements(list) \cup {Head(out)}
    BY <1>1, <2>1, <2>2, MovedAppend, ShapeParts
  <2> QED
    BY <1>4, <2>1, <2>2, <2>3
<1>7. CASE PushFails
  <2>1. out # <<>> /\ hand' = hand /\ list' = list /\ out' = Tail(out)
    BY <1>7 DEF PushFails, apiVars
  <2>2. Elements(out) = {Head(out)} \cup Elements(Tail(out))
    BY <1>1, <2>1, MovedParts, ShapeParts
  <2> QED
    BY <1>4, <2>1, <2>2
<1>8. CASE Restart
  <2>1. hand' = hand /\ list' = list /\ out' \in {<<>>, Seeds}
    BY <1>8 DEF Restart
  <2>2. Elements(<<>>) = {}
    BY MovedNone
  <2>3. Elements(Seeds) = {Seed(b) : b \in Seeded}
    BY SeedsMessages
  <2>4. \A m \in Elements(Seeds) : Sense(m)
    BY <2>3, SeedFields DEF Deltas
  <2> QED
    BY <1>4, <2>1, <2>2, <2>4
<1>9. CASE Pop
  <2>1. list # <<>> /\ hand' = Head(list) /\ list' = Tail(list) /\ out' = out
    BY <1>9 DEF Pop, engineVars
  <2>2. Elements(list) = {Head(list)} \cup Elements(Tail(list))
    BY <1>1, <2>1, MovedParts, ShapeParts
  <2>3. HandSet(hand') \subseteq {Head(list)}
    BY <2>1 DEF HandSet
  <2> QED
    BY <1>4, <2>1, <2>2, <2>3
<1>10. ASSUME hand' \in {hand, None}, UNCHANGED <<list, out>>
       PROVE  TellsSense'
  <2>1. HandSet(hand') \subseteq HandSet(hand)
    BY <1>10 DEF HandSet
  <2> QED
    BY <1>4, <1>10, <2>1
<1>11. CASE Insert \/ InsertFails \/ ApiRestart
  BY <1>10, <1>11 DEF Insert, InsertFails, ApiRestart, engineVars
<1>12. CASE SaveSnapshot \/ SnapshotGone
  BY <1>10, <1>12 DEF SaveSnapshot, SnapshotGone, apiVars
<1>13. CASE CronStep
  BY <1>10, <1>13 DEF CronStep, Tick, FoldInsert, FoldDelete, FoldCommit, FoldFails, engineVars, apiVars
<1>14. CASE CheckStep
  BY <1>10, <1>14 DEF CheckStep, ReadLedger, AskEngine, Answer, CheckFails, engineVars
<1>15. CASE UNCHANGED vars
  BY <1>10, <1>15 DEF vars
<1> QED
  BY <1>5, <1>6, <1>7, <1>8, <1>9, <1>11, <1>12, <1>13, <1>14, <1>15
  DEF Next, EngineStep, WorkerStep

\* The equation, account by account.
LEMMA AccountStep ==
  ASSUME SumsInv, [Next]_vars
  PROVE  AccountInv'
<1>1. /\ Inv /\ Shape /\ RowIds /\ TellsSense
      /\ hand \in Message \cup {None} /\ list \in Seq(Message) /\ out \in Seq(Message)
      /\ \A a : TableSum(table, a) \in Int
      /\ exact \subseteq Accounts
  BY ShapeParts DEF SumsInv
<1>2. SUFFICES ASSUME NEW a \in exact'
               PROVE  Fine(holding', table', hand', list', out', a)
  BY DEF AccountInv
<1>3. ASSUME a \in exact
      PROVE  Fine(holding, table, hand, list, out, a) /\ a \in Accounts
  BY <1>1, <1>3 DEF SumsInv, AccountInv
<1>4. ASSUME UNCHANGED <<holding, table, hand, list, out>>, exact' = exact
      PROVE  Fine(holding', table', hand', list', out', a)
  BY <1>3, <1>4
<1>5. CASE \E legs \in Commands : Execute(legs)
  <2>1. PICK legs \in Commands : Execute(legs)
    BY <1>5
  <2>2. legs \in Seq(Leg)
    BY LedgerAssumption DEF LedgerAssumption
  <2>3. /\ UNCHANGED <<table, hand, list, exact>> /\ out = <<>> /\ out' = Moves(legs)
        /\ holding' = [b \in Accounts |-> holding[b] + Change(legs, b)]
    BY <2>1 DEF Execute
  <2>4. Fine(holding, table, hand, list, <<>>, a) /\ a \in Accounts
    BY <1>3, <2>3
  <2>5. holding'[a] = holding[a] + Change(legs, a)
    BY <2>3, <2>4
  <2>6. Fine(holding', table, hand, list, Moves(legs), a)
    BY <1>1, <2>2, <2>4, <2>5, FineExecute
  <2> QED
    BY <2>3, <2>6
<1>6. CASE Push
  <2>1. /\ UNCHANGED <<holding, table, hand, exact>> /\ out # <<>>
        /\ list' = Append(list, Head(out)) /\ out' = Tail(out)
    BY <1>6 DEF Push, apiVars
  <2>2. Fine(holding, table, hand, list, out, a)
    BY <1>3, <2>1
  <2>3. Fine(holding, table, hand, Append(list, Head(out)), Tail(out), a)
    BY <1>1, <2>1, <2>2, FinePush
  <2> QED
    BY <2>1, <2>3
<1>7. CASE PushFails
  <2>1. /\ UNCHANGED <<holding, table, hand, list>> /\ out # <<>> /\ out' = Tail(out)
        /\ exact' = exact \ {Head(out).acct}
    BY <1>7 DEF PushFails, apiVars
  <2>2. Fine(holding, table, hand, list, out, a) /\ Head(out).acct # a
    BY <1>3, <2>1
  <2>3. Fine(holding, table, hand, list, Tail(out), a)
    BY <1>1, <2>1, <2>2, FineDropOut
  <2> QED
    BY <2>1, <2>3
<1>8. CASE Restart
  <2>1. /\ UNCHANGED <<table, hand, list>> /\ out' \in {<<>>, Seeds}
        /\ exact' = exact \ (Touched(out) \cup {b \in Accounts : holding'[b] # holding[b]})
    BY <1>8 DEF Restart
  <2>2. Fine(holding, table, hand, list, out, a) /\ holding'[a] = holding[a] /\ a \notin Touched(out)
    BY <1>3, <2>1
  <2>3. \A m \in Elements(out) : m.acct # a
    BY <2>2 DEF Elements, Touched
  <2>4. Fine(holding', table, hand, list, out', a)
    <3> DEFINE new == holding'
               o2 == out'
    <3>1. (o2 = <<>> \/ o2 = Seeds) /\ new[a] = holding[a]
      BY <2>1, <2>2
    <3> HIDE DEF new, o2
    <3>2. Fine(new, table, hand, list, o2, a)
      BY <1>1, <2>2, <2>3, <3>1, FineRestart
    <3> QED
      BY <3>2 DEF new, o2
  <2> QED
    BY <2>1, <2>4
<1>9. CASE Pop
  <2>1. /\ UNCHANGED <<holding, table, out, exact>> /\ hand = None /\ list # <<>>
        /\ hand' = Head(list) /\ list' = Tail(list)
    BY <1>9 DEF Pop, engineVars
  <2>2. Fine(holding, table, None, list, out, a)
    BY <1>3, <2>1
  <2>3. Fine(holding, table, Head(list), Tail(list), out, a)
    BY <1>1, <2>1, <2>2, FinePop
  <2> QED
    BY <2>1, <2>3
<1>10. CASE Insert
  <2>1. UNCHANGED <<holding, list, out, exact>> /\ hand' = None /\ hand # None
    BY <1>10 DEF Insert, engineVars
  <2>2. Fine(holding, table, hand, list, out, a)
    BY <1>3, <2>1
  <2>3. CASE Conflicts(hand)
    <3>1. table' = table
      BY <1>10, <2>3 DEF Insert
    <3>2. hand.acct # a \/ (hand.reason = "seed" /\ Booked(table, a))
      BY <2>3 DEF Conflicts, Booked
    <3>3. Fine(holding, table, None, list, out, a)
      BY <1>1, <2>2, <3>2, FineDropHand
    <3> QED
      BY <2>1, <3>1, <3>3
  <2>4. CASE ~Conflicts(hand)
    <3>1. /\ TableSum(table', a) = TableSum(table, a) + (IF hand.acct = a THEN hand.delta ELSE 0)
          /\ Booked(table', a) <=> Booked(table, a) \/ (hand.reason = "seed" /\ hand.acct = a)
          /\ hand \in Message
      BY <1>1, <1>10, <2>4, InsertAdds
    <3>2. hand \in Waiting(hand, list, out)
      <4>1. Waiting(hand, list, out) = HandSet(hand) \cup Elements(list) \cup Elements(out)
        BY <1>1, WaitingParts
      <4> QED
        BY <2>1, <4>1 DEF HandSet
    <3>3. hand.reason = "seed" => hand = Seed(hand.acct) /\ ~Booked(table, hand.acct)
      BY <1>1, <2>4, <3>2 DEF TellsSense, Conflicts, Booked
    <3>4. Fine(holding, table', None, list, out, a)
      BY <1>1, <2>2, <3>1, <3>3, FineInsert
    <3> QED
      BY <2>1, <3>4
  <2> QED
    BY <2>3, <2>4
<1>11. CASE InsertFails \/ ApiRestart
  <2>1. /\ UNCHANGED <<holding, table, list, out>> /\ hand' = None
        /\ a \in exact /\ (hand # None => hand.acct # a)
    <3>1. CASE InsertFails
      BY <3>1 DEF InsertFails, engineVars
    <3>2. CASE ApiRestart
      <4>1. exact' = exact \ Touched(InHand) /\ UNCHANGED <<holding, table, list, out>> /\ hand' = None
        BY <3>2 DEF ApiRestart, engineVars
      <4>2. hand # None => hand.acct \in Touched(InHand)
        BY DEF Touched, InHand
      <4> QED
        BY <4>1, <4>2
    <3> QED
      BY <1>11, <3>1, <3>2
  <2>2. Fine(holding, table, None, list, out, a)
    BY <1>1, <1>3, <2>1, FineDropHand
  <2> QED
    BY <2>1, <2>2
<1>12. CASE FoldCommit
  <2>1. UNCHANGED <<holding, hand, list, out, exact>>
    BY <1>12 DEF FoldCommit, engineVars
  <2>2. TableSum(table', a) = TableSum(table, a) /\ (Booked(table', a) <=> Booked(table, a))
    BY <1>1, <1>12, CommitKeepsSums
  <2>3. Fine(holding, table, hand, list, out, a)
    BY <1>3, <2>1
  <2>4. Fine(holding, table', hand, list, out, a)
    BY <2>2, <2>3, FineSame
  <2> QED
    BY <2>1, <2>4
<1>13. CASE SaveSnapshot \/ SnapshotGone
  BY <1>4, <1>13 DEF SaveSnapshot, SnapshotGone, apiVars
<1>14. CASE Tick \/ FoldInsert \/ FoldDelete \/ FoldFails
  BY <1>4, <1>14 DEF Tick, FoldInsert, FoldDelete, FoldFails, engineVars, apiVars
<1>15. CASE CheckStep
  BY <1>4, <1>15 DEF CheckStep, ReadLedger, AskEngine, Answer, CheckFails, engineVars
<1>16. CASE UNCHANGED vars
  BY <1>4, <1>16 DEF vars
<1> QED
  BY <1>5, <1>6, <1>7, <1>8, <1>9, <1>10, <1>11, <1>12, <1>13, <1>14, <1>15, <1>16
  DEF Next, EngineStep, WorkerStep, CronStep

LEMMA NextSums == SumsInv /\ [Next]_vars => SumsInv'
  BY NextInv, ShapeStep, RowIdsStep, TellsStep, AccountStep DEF SumsInv

LEMMA SumsInvHolds == Spec => []SumsInv
  BY InitSums, NextSums, PTL DEF Spec

-----------------------------------------------------------------------------
(* The append-only ledger *)

\* The postings on their way, for module Postings.
Transit(h, l) == (IF h = None THEN <<>> ELSE <<h>>) \o l

SeedsIn(tbl) == {r.acct : r \in {s \in tbl : s.reason = "seed"}}

LEMMA TransitFacts ==
  ASSUME NEW l \in Seq(Message), NEW h \in Message
  PROVE  /\ Transit(None, l) = l
         /\ Transit(h, l) # <<>> /\ Head(Transit(h, l)) = h /\ Tail(Transit(h, l)) = l
         /\ l # <<>> => Transit(Head(l), Tail(l)) = l
  <1>1. h # None
    BY MessageTypes
  <1>2. Transit(None, l) = l
    BY DEF Transit
  <1>3. Transit(h, l) # <<>> /\ Head(Transit(h, l)) = h /\ Tail(Transit(h, l)) = l
    BY <1>1 DEF Transit
  <1>4. ASSUME l # <<>>
        PROVE  Transit(Head(l), Tail(l)) = l
    <2>1. Head(l) \in Message /\ l = <<Head(l)>> \o Tail(l)
      BY <1>4, Parts
    <2>2. Head(l) # None
      BY <2>1, MessageTypes
    <2> QED
      BY <2>1, <2>2 DEF Transit
  <1> QED
    BY <1>2, <1>3, <1>4

LEMMA TransitAppend ==
  ASSUME NEW l \in Seq(Message), NEW h \in Message \cup {None}, NEW m \in Message
  PROVE  Transit(h, Append(l, m)) = Append(Transit(h, l), m)
  BY DEF Transit

LEMMA MappedState ==
  /\ InHand \o list = Transit(hand, list)
  /\ {r.acct : r \in {s \in table : s.reason = "seed"}} = SeedsIn(table)
  /\ (InHand \o list)' = Transit(hand', list')
  /\ {r.acct : r \in {s \in table : s.reason = "seed"}}' = SeedsIn(table')
  /\ [a \in Accounts |-> TableSum(table, a)]' = [a \in Accounts |-> TableSum(table', a)]
  BY DEF Transit, SeedsIn, InHand

LEMMA InitAppendOnly == Init => AppendOnly!Init
<1> SUFFICES ASSUME Init PROVE AppendOnly!Init
  OBVIOUS
<1>1. InHand \o list = <<>>
  BY DEF Init, InHand
<1>2. \A a : TableSum(table, a) = 0
  BY TableSumNone DEF Init
<1>3. {r.acct : r \in {s \in table : s.reason = "seed"}} = {}
  BY DEF Init
<1> QED
  BY <1>1, <1>2, <1>3 DEF AppendOnly!Init

\* What a step does to the three variables of Postings.
MapsTo(t, b, o, t2, b2, o2) ==
  \/ \E p \in AppendOnly!Posting : t2 = Append(t, p) /\ b2 = b /\ o2 = o
  \/ /\ t # <<>> /\ t2 = Tail(t)
     /\ IF Head(t).reason = "seed" /\ Head(t).acct \in o
        THEN b2 = b /\ o2 = o
        ELSE /\ b2 = [b EXCEPT ![Head(t).acct] = @ + Head(t).delta]
             /\ o2 = IF Head(t).reason = "seed" THEN o \cup {Head(t).acct} ELSE o
  \/ t # <<>> /\ t2 = Tail(t) /\ b2 = b /\ o2 = o
  \/ t2 = t /\ b2 = b /\ o2 = o

LEMMA MapsToStep ==
  ASSUME MapsTo(Transit(hand, list), [a \in Accounts |-> TableSum(table, a)], SeedsIn(table),
                Transit(hand', list'), [a \in Accounts |-> TableSum(table', a)], SeedsIn(table'))
  PROVE  [AppendOnly!Next]_(AppendOnly!vars)
<1> DEFINE t == InHand \o list
           b == [a \in Accounts |-> TableSum(table, a)]
           o == {r.acct : r \in {s \in table : s.reason = "seed"}}
<1>1. MapsTo(t, b, o, t', b', o')
  BY MappedState
<1> HIDE DEF t, b, o
<1>2. CASE \E p \in AppendOnly!Posting : t' = Append(t, p) /\ b' = b /\ o' = o
  BY <1>2 DEF t, b, o, AppendOnly!Next, AppendOnly!Tell
<1>3. CASE /\ t # <<>> /\ t' = Tail(t)
           /\ IF Head(t).reason = "seed" /\ Head(t).acct \in o
              THEN b' = b /\ o' = o
              ELSE /\ b' = [b EXCEPT ![Head(t).acct] = @ + Head(t).delta]
                   /\ o' = IF Head(t).reason = "seed" THEN o \cup {Head(t).acct} ELSE o
  BY <1>3 DEF t, b, o, AppendOnly!Next, AppendOnly!Book
<1>4. CASE t # <<>> /\ t' = Tail(t) /\ b' = b /\ o' = o
  BY <1>4 DEF t, b, o, AppendOnly!Next, AppendOnly!Lose
<1>5. CASE t' = t /\ b' = b /\ o' = o
  BY <1>5 DEF t, b, o, AppendOnly!vars
<1> QED
  BY <1>1, <1>2, <1>3, <1>4, <1>5 DEF MapsTo

LEMMA MapsStep ==
  ASSUME SumsInv, [Next]_vars
  PROVE  MapsTo(Transit(hand, list), [a \in Accounts |-> TableSum(table, a)], SeedsIn(table),
                Transit(hand', list'), [a \in Accounts |-> TableSum(table', a)], SeedsIn(table'))
<1> DEFINE b == [a \in Accounts |-> TableSum(table, a)]
           b2 == [a \in Accounts |-> TableSum(table', a)]
           t == Transit(hand, list)
           t2 == Transit(hand', list')
           o == SeedsIn(table)
           o2 == SeedsIn(table')
<1> SUFFICES MapsTo(t, b, o, t2, b2, o2)
  OBVIOUS
<1>1. /\ Inv /\ Shape /\ RowIds /\ TellsSense
      /\ hand \in Message \cup {None} /\ list \in Seq(Message) /\ out \in Seq(Message)
      /\ \A a : TableSum(table, a) \in Int
  BY ShapeParts DEF SumsInv
<1>2. ASSUME t2 = t, b2 = b, o2 = o
      PROVE  MapsTo(t, b, o, t2, b2, o2)
  BY <1>2 DEF MapsTo
<1>3. ASSUME UNCHANGED <<hand, list, table>>
      PROVE  MapsTo(t, b, o, t2, b2, o2)
  BY <1>2, <1>3
<1>4. CASE Push
  <2>1. /\ UNCHANGED <<table, hand>> /\ out # <<>> /\ list' = Append(list, Head(out))
    BY <1>4 DEF Push, apiVars
  <2>2. Head(out) \in Message /\ Head(out) \in Elements(out)
    BY <1>1, <2>1, Parts, MovedParts
  <2>3. Head(out) \in AppendOnly!Posting
    <3>1. Head(out).delta \in Deltas
      <4>1. Waiting(hand, list, out) = HandSet(hand) \cup Elements(list) \cup Elements(out)
        BY <1>1, WaitingParts
      <4> QED
        BY <1>1, <2>2, <4>1 DEF TellsSense
    <3> DEFINE m == Head(out)
    <3>2. m \in Message /\ m.delta \in Deltas
      BY <2>2, <3>1
    <3> HIDE DEF m
    <3>3. m \in AppendOnly!Posting
      BY <3>2 DEF Message, AppendOnly!Posting
    <3> QED
      BY <3>3 DEF m
  <2>4. t2 = Append(t, Head(out))
    BY <1>1, <2>1, <2>2, TransitAppend
  <2>5. b2 = b /\ o2 = o
    BY <2>1
  <2> HIDE DEF t, t2, b, b2, o, o2
  <2> QED
    BY <2>3, <2>4, <2>5 DEF MapsTo
<1>5. CASE Pop
  <2>1. UNCHANGED table /\ hand = None /\ list # <<>> /\ hand' = Head(list) /\ list' = Tail(list)
    BY <1>5 DEF Pop
  <2>2. Head(list) \in Message
    BY <1>1, <2>1, Parts
  <2>3. t2 = t
    BY <1>1, <2>1, <2>2, TransitFacts
  <2> QED
    BY <1>2, <2>1, <2>3
<1>6. CASE Insert
  <2>1. hand \in Message /\ hand # None /\ hand' = None /\ list' = list
    BY <1>1, <1>6 DEF Insert
  <2>2. t # <<>> /\ Head(t) = hand /\ Tail(t) = list /\ t2 = list
    BY <1>1, <2>1, TransitFacts
  <2>3. CASE Conflicts(hand)
    <3>1. table' = table
      BY <1>6, <2>3 DEF Insert
    <3>2. hand.reason = "seed" /\ hand.acct \in o
      BY <2>3 DEF Conflicts, SeedsIn
    <3>3. b2 = b /\ o2 = o
      BY <3>1
    <3> HIDE DEF t, t2, b, b2, o, o2
    <3> QED
      BY <2>2, <3>2, <3>3 DEF MapsTo
  <2>4. CASE ~Conflicts(hand)
    <3>1. ~(hand.reason = "seed" /\ hand.acct \in o)
      BY <2>4 DEF Conflicts, SeedsIn
    <3>2. \A a : TableSum(table', a) = TableSum(table, a) + (IF hand.acct = a THEN hand.delta ELSE 0)
      BY <1>1, <1>6, <2>4, InsertAdds
    <3>3. hand.acct \in Accounts
      BY <2>1, MessageTypes
    <3>4. b2 = [b EXCEPT ![hand.acct] = @ + hand.delta]
      BY <1>1, <3>2, <3>3
    <3>5. o2 = IF hand.reason = "seed" THEN o \cup {hand.acct} ELSE o
      <4>1. table' = table \cup {NewRow}
        BY <1>1, <1>6, <2>4, InsertAdds
      <4>2. NewRow.reason = hand.reason /\ NewRow.acct = hand.acct
        BY DEF NewRow
      <4> HIDE DEF NewRow
      <4> QED
        BY <4>1, <4>2 DEF SeedsIn
    <3> HIDE DEF t, t2, b, b2, o, o2
    <3> QED
      BY <2>2, <3>1, <3>4, <3>5 DEF MapsTo
  <2> QED
    BY <2>3, <2>4
<1>7. CASE InsertFails \/ (ApiRestart /\ hand # None)
  <2>1. hand \in Message /\ hand' = None /\ list' = list /\ table' = table
    BY <1>1, <1>7 DEF InsertFails, ApiRestart, engineVars
  <2>2. t # <<>> /\ Tail(t) = list /\ t2 = list
    BY <1>1, <2>1, TransitFacts
  <2>3. b2 = b /\ o2 = o
    BY <2>1
  <2> HIDE DEF t, t2, b, b2, o, o2
  <2> QED
    BY <2>2, <2>3 DEF MapsTo
<1>8. CASE ApiRestart /\ hand = None
  BY <1>3, <1>8 DEF ApiRestart
<1>9. CASE FoldCommit
  <2>1. hand' = hand /\ list' = list
    BY <1>9 DEF FoldCommit
  <2>2. \A a : TableSum(table', a) = TableSum(table, a) /\ (Booked(table', a) <=> Booked(table, a))
    BY <1>1, <1>9, CommitKeepsSums
  <2>3. b2 = b
    BY <2>2
  <2>4. o2 = o
    <3>1. \A tbl, a : a \in SeedsIn(tbl) <=> Booked(tbl, a)
      BY DEF SeedsIn, Booked
    <3> QED
      BY <2>2, <3>1
  <2> QED
    BY <1>2, <2>1, <2>3, <2>4
<1>10. CASE (\E legs \in Commands : Execute(legs)) \/ PushFails \/ SaveSnapshot \/ SnapshotGone \/ Restart
  BY <1>3, <1>10 DEF Execute, PushFails, SaveSnapshot, SnapshotGone, Restart, apiVars
<1>11. CASE Tick \/ FoldInsert \/ FoldDelete \/ FoldFails
  BY <1>3, <1>11 DEF Tick, FoldInsert, FoldDelete, FoldFails, apiVars
<1>12. CASE CheckStep
  BY <1>3, <1>12 DEF CheckStep, ReadLedger, AskEngine, Answer, CheckFails
<1>13. CASE UNCHANGED vars
  BY <1>3, <1>13 DEF vars
<1> QED
  BY <1>4, <1>5, <1>6, <1>7, <1>8, <1>9, <1>10, <1>11, <1>12, <1>13
  DEF Next, EngineStep, WorkerStep, CronStep

-----------------------------------------------------------------------------
(* The reconcile request *)

\* What the request under way has read of an account is still so, if nothing
\* was on its way for it and no command has touched it since.
Holds(c, hold, tbl, h, l, o, a) ==
  /\ c.sums[a] = TableSum(tbl, a)
  /\ \A m \in Waiting(h, l, o) : m.acct # a
  /\ Owner[a] \in c.asked => c.totals[a] = hold[a]

CheckInv ==
  check # None =>
    /\ check = [sums |-> check.sums, totals |-> check.totals, asked |-> check.asked,
                stirred |-> check.stirred]
    /\ DOMAIN check.sums \subseteq Accounts
    /\ \A a \in DOMAIN check.sums \ check.stirred : Holds(check, holding, table, hand, list, out, a)

LEMMA CheckStepInv ==
  ASSUME SumsInv, CheckInv, [Next]_vars
  PROVE  CheckInv'
<1>1. /\ Inv /\ Shape /\ Shape' /\ RowIds
      /\ hand \in Message \cup {None} /\ list \in Seq(Message) /\ out \in Seq(Message)
      /\ hand' \in Message \cup {None} /\ list' \in Seq(Message) /\ out' \in Seq(Message)
  <2>1. Shape /\ Shape'
    BY ShapeStep DEF SumsInv
  <2> QED
    BY <2>1, ShapeParts DEF SumsInv, Shape, TypeOK
<1>2. /\ Waiting(hand, list, out) = HandSet(hand) \cup Elements(list) \cup Elements(out)
      /\ Waiting(hand', list', out') = HandSet(hand') \cup Elements(list') \cup Elements(out')
  BY <1>1, WaitingParts
<1>3. ASSUME check' = None
      PROVE  CheckInv'
  BY <1>3 DEF CheckInv
\* The request goes on, and less is on its way.
<1>4. ASSUME check' = check, holding' = holding,
             Waiting(hand', list', out') \subseteq Waiting(hand, list, out),
             \A a : (\A m \in Waiting(hand, list, out) : m.acct # a)
                      => TableSum(table', a) = TableSum(table, a)
      PROVE  CheckInv'
  <2> SUFFICES ASSUME check # None PROVE CheckInv'
    BY <1>3, <1>4
  <2>1. ASSUME NEW a \in DOMAIN check.sums \ check.stirred
        PROVE  Holds(check, holding', table', hand', list', out', a)
    <3>1. Holds(check, holding, table, hand, list, out, a)
      BY DEF CheckInv
    <3> QED
      BY <1>4, <3>1 DEF Holds
  <2> QED
    BY <1>4, <2>1 DEF CheckInv
<1>5. ASSUME UNCHANGED <<check, holding, hand, list, out, table>>
      PROVE  CheckInv'
  BY <1>4, <1>5
<1>6. CASE \E legs \in Commands : Execute(legs)
  <2> SUFFICES ASSUME check # None PROVE CheckInv'
    BY <1>3, <1>6 DEF Execute
  <2>1. PICK legs \in Commands : Execute(legs)
    BY <1>6
  <2>2. legs \in Seq(Leg)
    BY LedgerAssumption DEF LedgerAssumption
  <2>3. /\ hand' = hand /\ list' = list /\ out = <<>> /\ out' = Moves(legs) /\ table' = table
        /\ check' = [check EXCEPT !.stirred = @ \cup Touched(legs)]
        /\ holding' = [b \in Accounts |-> holding[b] + Change(legs, b)]
    BY <2>1 DEF Execute
  <2>4. /\ check' = [sums |-> check.sums, totals |-> check.totals, asked |-> check.asked,
                     stirred |-> check.stirred \cup Touched(legs)]
        /\ DOMAIN check.sums \subseteq Accounts
    BY <2>3 DEF CheckInv
  <2>5. Moves(legs) \in Seq(Message) /\ Touched(Moves(legs)) = Touched(legs)
    BY <2>2, MovesMessages
  <2>6. ASSUME NEW a \in Accounts, a \notin Touched(legs)
        PROVE  /\ \A m \in Elements(Moves(legs)) : m.acct # a
               /\ holding'[a] = holding[a]
    <3>1. \A m \in Elements(Moves(legs)) : m.acct # a
      BY <2>5, <2>6 DEF Touched, Elements
    <3>2. Change(legs, a) = 0
      <4> DEFINE w == [i \in DOMAIN legs |-> IF legs[i].acct = a THEN legs[i].delta ELSE 0]
      <4>1. DOMAIN legs = 1..Len(legs) /\ Len(legs) \in Nat
        BY <2>2
      <4>2. \A i \in DOMAIN legs : w[i] = 0
        BY <2>6 DEF Touched
      <4>3. w \in Seq(Int) /\ Len(w) = Len(legs)
        <5>1. w = [i \in 1..Len(legs) |-> 0]
          BY <4>1, <4>2
        <5> HIDE DEF w
        <5> QED
          BY <4>1, <5>1
      <4>4. Change(legs, a) = Total(w)
        BY DEF Change
      <4> HIDE DEF w
      <4>5. 0 \notin 1..Len(w)
        BY <4>1, <4>3
      <4> QED
        BY <4>1, <4>2, <4>3, <4>4, <4>5, TotalSingle
    <3>3. holding[a] \in Int
      BY <1>1 DEF Shape, TypeOK
    <3> QED
      BY <2>3, <3>1, <3>2, <3>3
  <2>7. ASSUME NEW a \in DOMAIN check'.sums \ check'.stirred
        PROVE  Holds(check', holding', table', hand', list', out', a)
    <3>1. /\ check'.sums = check.sums /\ check'.totals = check.totals /\ check'.asked = check.asked
          /\ a \in DOMAIN check.sums \ check.stirred /\ a \in Accounts /\ a \notin Touched(legs)
      BY <2>4, <2>7
    <3>2. Holds(check, holding, table, hand, list, out, a)
      BY <3>1 DEF CheckInv
    <3>3. \A m \in Waiting(hand', list', out') : m.acct # a
      BY <1>2, <2>3, <2>6, <3>1, <3>2 DEF Holds
    <3> QED
      BY <2>3, <2>6, <3>1, <3>2, <3>3 DEF Holds
  <2> QED
    BY <2>4, <2>7 DEF CheckInv
<1>7. CASE Restart
  <2> SUFFICES ASSUME check # None PROVE CheckInv'
    BY <1>3, <1>7 DEF Restart
  <2>1. check' = [check EXCEPT !.stirred = Accounts]
    BY <1>7 DEF Restart
  <2>2. /\ check' = [sums |-> check.sums, totals |-> check.totals, asked |-> check.asked,
                     stirred |-> Accounts]
        /\ DOMAIN check.sums \subseteq Accounts
    BY <2>1 DEF CheckInv
  <2> QED
    BY <2>2 DEF CheckInv
<1>8. CASE Push
  <2>1. /\ UNCHANGED <<check, holding, table, hand>> /\ out # <<>>
        /\ list' = Append(list, Head(out)) /\ out' = Tail(out)
    BY <1>8 DEF Push, apiVars
  <2>2. Elements(out) = {Head(out)} \cup Elements(Tail(out)) /\ Head(out) \in Message
    BY <1>1, <2>1, MovedParts, Parts
  <2>3. Elements(list') = Elements(list) \cup {Head(out)}
    BY <1>1, <2>1, <2>2, MovedAppend
  <2> QED
    BY <1>2, <1>4, <2>1, <2>2, <2>3
<1>9. CASE PushFails
  <2>1. UNCHANGED <<check, holding, table, hand, list>> /\ out # <<>> /\ out' = Tail(out)
    BY <1>9 DEF PushFails, apiVars
  <2>2. Elements(out) = {Head(out)} \cup Elements(Tail(out))
    BY <1>1, <2>1, MovedParts
  <2> QED
    BY <1>2, <1>4, <2>1, <2>2
<1>10. CASE Pop
  <2>1. /\ UNCHANGED <<check, holding, table, out>> /\ list # <<>>
        /\ hand' = Head(list) /\ list' = Tail(list)
    BY <1>10 DEF Pop, engineVars
  <2>2. Elements(list) = {Head(list)} \cup Elements(Tail(list)) /\ HandSet(hand') \subseteq {Head(list)}
    BY <1>1, <2>1, MovedParts DEF HandSet
  <2> QED
    BY <1>2, <1>4, <2>1, <2>2
<1>11. CASE Insert
  <2>1. UNCHANGED <<check, holding, list, out>> /\ hand # None /\ hand' = None
    BY <1>11 DEF Insert, engineVars
  <2>2. Waiting(hand', list', out') \subseteq Waiting(hand, list, out) /\ hand \in Waiting(hand, list, out)
    BY <1>2, <2>1 DEF HandSet
  <2>3. CASE Conflicts(hand)
    BY <1>4, <1>11, <2>1, <2>2, <2>3 DEF Insert
  <2>4. CASE ~Conflicts(hand)
    <3>1. \A a : TableSum(table', a) = TableSum(table, a) + (IF hand.acct = a THEN hand.delta ELSE 0)
      BY <1>1, <1>11, <2>4, InsertAdds
    <3>2. \A a : TableSum(table, a) \in Int
      BY <1>1, ShapeParts
    <3>3. \A a : hand.acct # a => TableSum(table', a) = TableSum(table, a)
      BY <3>1, <3>2
    <3> QED
      BY <1>4, <2>1, <2>2, <3>3
  <2> QED
    BY <2>3, <2>4
<1>12. CASE InsertFails
  <2>1. UNCHANGED <<check, holding, table, list, out>> /\ hand' = None
    BY <1>12 DEF InsertFails, engineVars
  <2> QED
    BY <1>2, <1>4, <2>1 DEF HandSet
<1>13. CASE FoldCommit
  <2>1. UNCHANGED <<check, holding, hand, list, out>>
    BY <1>13 DEF FoldCommit, engineVars
  <2>2. \A a : TableSum(table', a) = TableSum(table, a)
    BY <1>1, <1>13, CommitKeepsSums
  <2> QED
    BY <1>4, <2>1, <2>2
<1>14. CASE ReadLedger
  <2> DEFINE sums == [a \in {r.acct : r \in table} |-> TableSum(table, a)]
  <2>1. /\ check' = [sums |-> sums, totals |-> [a \in Accounts |-> 0], asked |-> {},
                     stirred |-> Touched(InFlight)]
        /\ UNCHANGED <<holding, hand, list, out, table>>
    BY <1>14 DEF ReadLedger, engineVars
  <2>2. DOMAIN sums \subseteq Accounts /\ \A a \in DOMAIN sums : sums[a] = TableSum(table, a)
    BY <1>1, ShapeParts DEF LedgerRow
  <2>3. Touched(InFlight) = {m.acct : m \in Waiting(hand, list, out)}
    BY DEF Touched, Waiting, Elements, InFlight, Flight, InHand
  <2> HIDE DEF sums
  <2>4. ASSUME NEW a \in DOMAIN check'.sums \ check'.stirred
        PROVE  Holds(check', holding', table', hand', list', out', a)
    BY <2>1, <2>2, <2>3 DEF Holds
  <2> QED
    BY <2>1, <2>2, <2>4 DEF CheckInv
<1>15. CASE \E u \in Users : AskEngine(u)
  <2>1. PICK u \in Users : AskEngine(u)
    BY <1>15
  <2>2. /\ check # None /\ UNCHANGED <<holding, hand, list, out, table>>
        /\ check' = [check EXCEPT !.asked = @ \cup {u},
                                  !.totals = [a \in Accounts |->
                                                IF Owner[a] = u THEN holding[a] ELSE @[a]]]
    BY <2>1 DEF AskEngine, engineVars
  <2>3. /\ check' = [sums |-> check.sums,
                     totals |-> [a \in Accounts |-> IF Owner[a] = u THEN holding[a] ELSE check.totals[a]],
                     asked |-> check.asked \cup {u}, stirred |-> check.stirred]
        /\ DOMAIN check.sums \subseteq Accounts
    BY <2>2 DEF CheckInv
  <2>4. ASSUME NEW a \in DOMAIN check'.sums \ check'.stirred
        PROVE  Holds(check', holding', table', hand', list', out', a)
    <3>1. a \in Accounts /\ a \in DOMAIN check.sums \ check.stirred
      BY <2>3
    <3>2. Holds(check, holding, table, hand, list, out, a)
      BY <2>2, <3>1 DEF CheckInv
    <3>3. /\ check'.sums = check.sums /\ check'.asked = check.asked \cup {u}
          /\ check'.totals[a] = IF Owner[a] = u THEN holding[a] ELSE check.totals[a]
      BY <2>3, <3>1
    <3>4. check'.sums[a] = TableSum(table', a) /\ \A m \in Waiting(hand', list', out') : m.acct # a
      BY <2>2, <3>2, <3>3 DEF Holds
    <3>5. Owner[a] \in check'.asked => check'.totals[a] = holding'[a]
      BY <2>2, <3>2, <3>3 DEF Holds
    <3> QED
      BY <3>4, <3>5 DEF Holds
  <2> QED
    BY <2>3, <2>4 DEF CheckInv
<1>16. CASE Answer \/ CheckFails \/ ApiRestart
  BY <1>3, <1>16 DEF Answer, CheckFails, ApiRestart
<1>17. CASE SaveSnapshot \/ SnapshotGone
  BY <1>5, <1>17 DEF SaveSnapshot, SnapshotGone, apiVars
<1>18. CASE Tick \/ FoldInsert \/ FoldDelete \/ FoldFails
  BY <1>5, <1>18 DEF Tick, FoldInsert, FoldDelete, FoldFails, engineVars, apiVars
<1>19. CASE UNCHANGED vars
  BY <1>5, <1>19 DEF vars
<1> QED
  BY <1>6, <1>7, <1>8, <1>9, <1>10, <1>11, <1>12, <1>13, <1>14, <1>15, <1>16, <1>17, <1>18, <1>19
  DEF Next, EngineStep, WorkerStep, CronStep, CheckStep

LEMMA CheckHolds == Spec => [](SumsInv /\ CheckInv)
<1>1. Init => CheckInv
  BY DEF Init, CheckInv
<1> QED
  BY <1>1, InitSums, NextSums, CheckStepInv, PTL DEF Spec

LEMMA AnswerIsTrue ==
  ASSUME CheckInv, Answer
  PROVE  \A a \in DOMAIN check.sums \ check.stirred :
           (a \in Drifts(check)) <=> (TableSum(table, a) # holding[a])
<1> TAKE a \in DOMAIN check.sums \ check.stirred
<1>1. Holds(check, holding, table, hand, list, out, a) /\ Owner[a] \in check.asked
  BY DEF Answer, CheckInv, UsersToAsk
<1> QED
  BY <1>1 DEF Holds, Drifts

-----------------------------------------------------------------------------
(* Theorems *)

LEMMA FoldIsExactFromInv == Inv => FoldIsExact
  BY DEF Inv, FoldInv, FoldIsExact

\* compactLedger deletes the rows its carry rows sum up and no other, with
\* the worker inserting between its two statements.
THEOREM FoldDeletesWhatItSummed == Spec => []FoldIsExact
  BY InvHolds, FoldIsExactFromInv, PTL

\* Types.
THEOREM LedgerTypes == Spec => []TypeOK
<1>1. SumsInv => TypeOK
  BY DEF SumsInv, Shape
<1> QED
  BY <1>1, SumsInvHolds, PTL

\* What the reconcile endpoint relies on: a holding of the engine is the sum of
\* the account's rows in the table and on their way, unless a row of it was lost
\* or a restart took something back, whatever compactLedger, restarts of both
\* processes and repeated seeds do meanwhile.
THEOREM HoldingIsTheLedgersSum == Spec => []ExactUnlessLost
<1>1. SumsInv => ExactUnlessLost
  BY AccountInvIsExact DEF SumsInv
<1> QED
  BY <1>1, SumsInvHolds, PTL

\* A drift that the reconcile endpoint reports of an account nothing was on its
\* way for is real, and such a drift is reported.
THEOREM ReconcileTellsTheTruth == Spec => AlarmsAreReal
<1>1. CheckInv /\ [Next]_vars
        => [Answer => \A a \in DOMAIN check.sums \ check.stirred :
                        (a \in Drifts(check)) <=> (TableSum(table, a) # holding[a])]_vars
  BY AnswerIsTrue
<1> QED
  BY <1>1, CheckHolds, PTL DEF Spec, AlarmsAreReal

\* The queue, the worker and the folded table implement the append-only ledger
\* of module Postings: every step tells, books or loses one posting, or none.
THEOREM LedgerIsAppendOnly == Spec => ActsAsAppendOnly
<1>1. SumsInv /\ [Next]_vars => [AppendOnly!Next]_(AppendOnly!vars)
  BY MapsStep, MapsToStep
<1> QED
  BY <1>1, InitAppendOnly, SumsInvHolds, PTL DEF Spec, ActsAsAppendOnly, AppendOnly!Spec
=============================================================================
