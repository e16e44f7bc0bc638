--------------------------- MODULE DepositsProofs ---------------------------
(***************************************************************************)
(* One key is one deposit, for any requests and keys, any number of        *)
(* retries and of crashes: no key is credited twice or without its row, a  *)
(* reply belongs to the command it is taken for, a confirmed transfer was  *)
(* credited and its status does not change any more.                       *)
(***************************************************************************)
EXTENDS Deposits, SequenceTheorems, TLAPS

\* The commands on the list.
Waiting == {queue[i] : i \in 1 .. Len(queue)}

\* Those that still change the engine's state when it gets to them.
Unapplied == Waiting \cup IF engine = "popped" THEN current ELSE {}

\* A handler that runs has a command to send.  One that has claimed its key is
\* the only one, and the row is pending as long as it runs.
Claims ==
  /\ \A r \in Requests : stage[r] = "new" => task[r] = "none"
  /\ \A r \in Requests : stage[r] \notin {"new", "over"} => task[r] # "none"
  /\ \A r \in Requests : stage[r] \in {"answered", "failed"} => task[r] = "ON_RAMP"
  /\ \A r \in Requests : task[r] = "ON_RAMP" => transfers[KeyOf[r]] # "none"
  /\ \A r \in Requests : task[r] = "ON_RAMP" /\ stage[r] # "over" =>
       transfers[KeyOf[r]] = "pending"
  /\ \A q, r \in Requests : task[q] = "ON_RAMP" /\ task[r] = "ON_RAMP" /\ KeyOf[q] = KeyOf[r]
       => q = r

\* What is under way was sent by the request it names.
MessagesAreTrue ==
  \A m \in Waiting \cup current :
    /\ m.clientId = <<m.request, m.attempt>>
    /\ m.type = task[m.request]
    /\ stage[m.request] # "new"

\* A deposit is under way once, and not before it is sent.
SentOnce ==
  /\ \A m \in Unapplied : m.type = "ON_RAMP" =>
       stage[m.request] \notin {"new", "ready", "subscribed"}
  /\ \A i, j \in 1 .. Len(queue) :
       queue[i].type = "ON_RAMP" /\ queue[j].type = "ON_RAMP"
         /\ queue[i].request = queue[j].request => i = j
  /\ engine = "popped" =>
       \A m \in current, n \in Waiting :
         m.type = "ON_RAMP" /\ n.type = "ON_RAMP" => m.request # n.request

\* It is not credited before the engine has applied it ...
NotYetCredited ==
  /\ \A m \in Unapplied : m.type = "ON_RAMP" => ledger[KeyOf[m.request]] = 0
  /\ \A r \in Requests : task[r] = "ON_RAMP" /\ stage[r] \in {"ready", "subscribed"} =>
       ledger[KeyOf[r]] = 0

\* ... and is from then on, so when it is answered.
CreditedBefore ==
  /\ engine = "applied" =>
       \A m \in current : m.type = "ON_RAMP" /\ KeyOf[m.request] \notin Refused =>
         ledger[KeyOf[m.request]] = 1
  /\ \A r \in Requests :
       task[r] = "ON_RAMP" /\ inbox[r] # {} /\ KeyOf[r] \notin Refused => ledger[KeyOf[r]] = 1
  /\ \A r \in Requests : stage[r] = "answered" => inbox[r] # {}

\* Replies come after the request has begun.
InboxHasSent == \A r \in Requests : stage[r] = "new" => inbox[r] = {}

\* Inductive together with the types ...
ClaimInv == TypeOK /\ Claims

\* ... and what the properties need beside it: the way of a command.
Inv ==
  /\ MessagesAreTrue /\ SentOnce /\ NotYetCredited /\ CreditedBefore
  /\ InboxHasSent /\ CreditedOnce /\ ConfirmedIsRecorded /\ OwnReply

-----------------------------------------------------------------------------
(* Types and claims *)

\* An attempt that fails is followed by another one while the limit allows.
LEMMA AttemptTypes ==
  ASSUME ClaimInv, NEW r \in Requests, stage[r] \in {"ready", "subscribed", "awaiting"},
         AttemptFailed(r), UNCHANGED <<task, transfers>>
  PROVE  /\ stage' \in [Requests -> {"new", "ready", "subscribed", "awaiting", "answered",
                                     "failed", "over"}]
         /\ attempt' \in [Requests -> 0 .. ReadRetries - 1]
         /\ inbox' \in [Requests -> SUBSET MessageType]
         /\ Claims'
<1> USE DepositsAssumption DEF ClaimInv, TypeOK
<1>1. CASE /\ attempt[r] + 1 < Limit(task[r])
           /\ attempt' = [attempt EXCEPT ![r] = @ + 1]
           /\ stage' = [stage EXCEPT ![r] = "ready"]
           /\ inbox' = [inbox EXCEPT ![r] = {}]
  <2>1. attempt' \in [Requests -> 0 .. ReadRetries - 1]
    BY <1>1 DEF Limit
  <2>2. Claims'
    BY <1>1 DEF Claims
  <2> QED
    BY <1>1, <2>1, <2>2
<1>2. CASE /\ stage' = [stage EXCEPT ![r] = IF task[r] = "ON_RAMP" THEN "failed" ELSE "over"]
           /\ UNCHANGED <<attempt, inbox>>
  <2>1. Claims'
    BY <1>2 DEF Claims
  <2> QED
    BY <1>2, <2>1
<1> QED
  BY <1>1, <1>2 DEF AttemptFailed

\* A command that is sent is well formed.
LEMMA MessageTypes ==
  ASSUME ClaimInv, NEW r \in Requests, stage[r] \in {"ready", "subscribed"}
  PROVE  /\ Message(r) \in MessageType
         /\ Append(queue, Message(r)) \in Seq(MessageType)
<1>1. task[r] # "none"
  BY DEF ClaimInv, Claims
<1>2. task[r] \in {"ON_RAMP", "GET_BALANCE"}
  BY <1>1 DEF ClaimInv, TypeOK
<1>3. attempt[r] \in Nat
  BY DepositsAssumption DEF ClaimInv, TypeOK
<1>4. Message(r) \in MessageType
  BY <1>2, <1>3 DEF Message, MessageType, Channel
<1> QED
  BY <1>4, AppendProperties DEF ClaimInv, TypeOK

LEMMA HandleTypes ==
  ASSUME ClaimInv, NEW r \in Requests, Handle(r)
  PROVE  ClaimInv'
<1> USE DepositsAssumption DEF ClaimInv, TypeOK
<1>1. CASE Claim(r)
  <2>1. KeyOf[r] \in Keys
    OBVIOUS
  <2>a. /\ \A q \in Requests : stage[q] = "new" => task[q] = "none"
        /\ \A q \in Requests : stage[q] \notin {"new", "over"} => task[q] # "none"
        /\ \A q \in Requests : stage[q] \in {"answered", "failed"} => task[q] = "ON_RAMP"
    BY DEF Claims
  <2>b. \A q \in Requests : task[q] = "ON_RAMP" => transfers[KeyOf[q]] # "none"
    BY DEF Claims
  <2>c. \A q \in Requests : task[q] = "ON_RAMP" /\ stage[q] # "over" =>
          transfers[KeyOf[q]] = "pending"
    BY DEF Claims
  <2>d. \A p, q \in Requests :
          task[p] = "ON_RAMP" /\ task[q] = "ON_RAMP" /\ KeyOf[p] = KeyOf[q] => p = q
    BY DEF Claims
  <2>2. CASE transfers[KeyOf[r]] = "none"
    <3>1. TypeOK'
      BY <1>1, <2>1, <2>2 DEF Claim, loop, money
    <3>2. \A q \in Requests : task[q] = "ON_RAMP" => KeyOf[q] # KeyOf[r]
      BY <2>2, <2>b
    <3>3. task' = [task EXCEPT ![r] = "ON_RAMP"]
      BY <1>1, <2>2 DEF Claim
    <3>4. /\ stage' = [stage EXCEPT ![r] = "ready"]
          /\ transfers' = [transfers EXCEPT ![KeyOf[r]] = "pending"]
      BY <1>1, <2>2 DEF Claim
    <3>5. ASSUME NEW q \in Requests
          PROVE  /\ stage'[q] = "new" => task'[q] = "none"
                 /\ stage'[q] \notin {"new", "over"} => task'[q] # "none"
                 /\ stage'[q] \in {"answered", "failed"} => task'[q] = "ON_RAMP"
      BY <3>3, <3>4, <2>a
    <3>6. ASSUME NEW q \in Requests, task'[q] = "ON_RAMP"
          PROVE  /\ transfers'[KeyOf[q]] # "none"
                 /\ stage'[q] # "over" => transfers'[KeyOf[q]] = "pending"
      <4>1. CASE q = r
        BY <4>1, <3>4, <2>1
      <4>2. CASE q # r
        <5>1. task[q] = "ON_RAMP" /\ stage'[q] = stage[q]
          BY <4>2, <3>3, <3>4, <3>6
        <5>2. transfers'[KeyOf[q]] = transfers[KeyOf[q]]
          BY <5>1, <3>2, <3>4
        <5> QED
          BY <5>1, <5>2, <2>b, <2>c
      <4> QED
        BY <4>1, <4>2
    <3>7. ASSUME NEW p \in Requests, NEW q \in Requests,
                 task'[p] = "ON_RAMP", task'[q] = "ON_RAMP", KeyOf[p] = KeyOf[q]
          PROVE  p = q
      <4>1. \A x \in Requests : x # r => task'[x] = task[x]
        BY <3>3
      <4> QED
        BY <4>1, <3>2, <3>7, <2>d
    <3>8. Claims'
      BY <3>5, <3>6, <3>7 DEF Claims
    <3> QED
      BY <3>1, <3>8
  <2>3. CASE transfers[KeyOf[r]] # "none"
    <3>1. TypeOK'
      BY <1>1, <2>1, <2>3 DEF Claim, loop, money
    <3>2. /\ task' = [task EXCEPT ![r] = "GET_BALANCE"]
          /\ stage' = [stage EXCEPT ![r] = "ready"]
          /\ transfers' = transfers
      BY <1>1, <2>3 DEF Claim
    <3>3. \A q \in Requests : task'[q] = "ON_RAMP" => task[q] = "ON_RAMP" /\ stage'[q] = stage[q]
      BY <3>2
    <3>4. ASSUME NEW q \in Requests
          PROVE  /\ stage'[q] = "new" => task'[q] = "none"
                 /\ stage'[q] \notin {"new", "over"} => task'[q] # "none"
                 /\ stage'[q] \in {"answered", "failed"} => task'[q] = "ON_RAMP"
      BY <3>2, <2>a
    <3>5. \A q \in Requests : task'[q] = "ON_RAMP" =>
            /\ transfers[KeyOf[q]] # "none"
            /\ stage'[q] # "over" => transfers[KeyOf[q]] = "pending"
      BY <3>3, <2>b, <2>c
    <3>6. \A p, q \in Requests :
            task'[p] = "ON_RAMP" /\ task'[q] = "ON_RAMP" /\ KeyOf[p] = KeyOf[q] => p = q
      BY <3>3, <2>d
    <3>7. Claims'
      BY <3>2, <3>4, <3>5, <3>6 DEF Claims
    <3> QED
      BY <3>1, <3>7
  <2> QED
    BY <2>2, <2>3
<1>2. CASE ClaimFails(r)
  <2>1. TypeOK'
    BY <1>2 DEF ClaimFails, loop, money
  <2>2. Claims'
    BY <1>2 DEF ClaimFails, Claims
  <2> QED
    BY <2>1, <2>2
<1>3. CASE Subscribe(r)
  <2>1. TypeOK'
    BY <1>3 DEF Subscribe, loop, money
  <2>2. Claims'
    BY <1>3 DEF Subscribe, Claims
  <2> QED
    BY <2>1, <2>2
<1>4. CASE Push(r)
  <2>1. TypeOK'
    BY <1>4, MessageTypes DEF Push, loop, money
  <2>2. Claims'
    BY <1>4 DEF Push, Claims
  <2> QED
    BY <2>1, <2>2
<1>5. CASE SendFails(r)
  BY <1>5, AttemptTypes, MessageTypes DEF SendFails, loop, money
<1>6. CASE GiveUp(r)
  BY <1>6, AttemptTypes DEF GiveUp, loop, money
<1>7. CASE Receive(r)
  <2>1. TypeOK'
    BY <1>7 DEF Receive, loop, money
  <2>2. Claims'
    BY <1>7 DEF Receive, Claims
  <2> QED
    BY <2>1, <2>2
<1>8. CASE Mark(r)
  <2>1. TypeOK'
    BY <1>8 DEF Mark, loop, money
  <2>2. Claims'
    BY <1>8 DEF Mark, Claims
  <2> QED
    BY <2>1, <2>2
<1> QED
  BY <1>1, <1>2, <1>3, <1>4, <1>5, <1>6, <1>7, <1>8 DEF Handle, Work

\* The engine's steps and the crashes leave the claims alone.
LEMMA OtherTypes ==
  ASSUME ClaimInv, Pop \/ Apply \/ Answer \/ Save \/ ApiCrash \/ EngineCrash
  PROVE  ClaimInv'
<1> USE DepositsAssumption DEF ClaimInv, TypeOK
<1>1. CASE Pop
  <2>1. Head(queue) \in MessageType /\ Tail(queue) \in Seq(MessageType)
    BY <1>1, HeadTailProperties DEF Pop
  <2> QED
    BY <1>1, <2>1 DEF Pop, api, money, Claims
<1>2. CASE Apply
  <2>1. /\ Incremented(memory) \in [Keys -> Nat]
        /\ Incremented(ledger) \in [Keys -> Nat]
    BY DEF Incremented
  <2> QED
    BY <1>2, <2>1 DEF Apply, api, Claims
<1>3. CASE Answer
  <2>1. inbox' \in [Requests -> SUBSET MessageType]
    BY <1>3 DEF Answer
  <2> QED
    BY <1>3, <2>1 DEF Answer, money, Claims
<1>4. CASE Save
  BY <1>4 DEF Save, api, loop, Claims
<1>5. CASE ApiCrash
  <2>1. TypeOK'
    BY <1>5 DEF ApiCrash, loop, money
  <2>2. Claims'
    BY <1>5 DEF ApiCrash, Claims
  <2> QED
    BY <2>1, <2>2
<1>6. CASE EngineCrash
  BY <1>6 DEF EngineCrash, api, Claims
<1> QED
  BY <1>1, <1>2, <1>3, <1>4, <1>5, <1>6

LEMMA ClaimStep ==
  ASSUME ClaimInv, [Next]_vars
  PROVE  ClaimInv'
<1>1. CASE \E r \in Requests : Handle(r)
  BY <1>1, HandleTypes
<1>2. CASE Pop \/ Apply \/ Answer \/ Save \/ ApiCrash \/ EngineCrash
  BY <1>2, OtherTypes
<1>3. CASE UNCHANGED vars
  BY <1>3 DEF vars, api, loop, money, ClaimInv, TypeOK, Claims
<1> QED
  BY <1>1, <1>2, <1>3 DEF Next

LEMMA ClaimInit == Init => ClaimInv
<1> SUFFICES ASSUME Init
             PROVE  ClaimInv
  OBVIOUS
<1> USE DepositsAssumption DEF Init
<1>1. <<>> \in Seq(MessageType)
  OBVIOUS
<1>2. TypeOK
  BY <1>1 DEF TypeOK
<1>3. Claims
  BY DEF Claims
<1> QED
  BY <1>2, <1>3 DEF ClaimInv

\* The variables have their types, and no request is tried more often than
\* SendAndAwait allows.
THEOREM DepositTypes == Spec => []TypeOK
<1>1. ClaimInv => TypeOK
  BY DEF ClaimInv
<1> QED
  BY <1>1, ClaimInit, ClaimStep, PTL DEF Spec

-----------------------------------------------------------------------------
(* The list *)

\* Pushing adds the command at the end.
LEMMA PushEffect ==
  ASSUME TypeOK, NEW m \in MessageType, queue' = Append(queue, m)
  PROVE  /\ Waiting' = Waiting \cup {m}
         /\ Len(queue) \in Nat /\ Len(queue') = Len(queue) + 1
         /\ \A i \in 1 .. Len(queue) : queue'[i] = queue[i]
         /\ queue'[Len(queue) + 1] = m
<1>1. /\ Len(queue) \in Nat /\ Len(queue') = Len(queue) + 1
      /\ \A i \in 1 .. Len(queue) : queue'[i] = queue[i]
      /\ queue'[Len(queue) + 1] = m
  BY AppendProperties DEF TypeOK
<1>2. 1 .. Len(queue') = (1 .. Len(queue)) \cup {Len(queue) + 1}
  BY <1>1
<1>3. Waiting' = {queue'[i] : i \in 1 .. Len(queue')}
  BY DEF Waiting
<1> QED
  BY <1>1, <1>2, <1>3 DEF Waiting

\* Popping takes the first one; the others move up.
LEMMA PopEffect ==
  ASSUME TypeOK, queue # <<>>, queue' = Tail(queue)
  PROVE  /\ Len(queue) \in Nat /\ Len(queue) > 0 /\ Len(queue') = Len(queue) - 1
         /\ \A i \in 1 .. Len(queue') : queue'[i] = queue[i + 1]
         /\ Head(queue) = queue[1]
         /\ Head(queue) \in Waiting
         /\ Waiting' \subseteq Waiting
<1>1. /\ Len(queue) \in Nat /\ Len(queue) > 0 /\ Len(queue') = Len(queue) - 1
      /\ \A i \in 1 .. Len(queue') : queue'[i] = queue[i + 1]
      /\ Head(queue) = queue[1]
  BY HeadTailProperties DEF TypeOK
<1>2. Head(queue) \in Waiting
  BY <1>1 DEF Waiting
<1>3. ASSUME NEW i \in 1 .. Len(queue')
      PROVE  queue'[i] \in Waiting
  <2>1. i + 1 \in 1 .. Len(queue)
    BY <1>1
  <2> QED
    BY <1>1, <2>1 DEF Waiting
<1>4. Waiting' = {queue'[i] : i \in 1 .. Len(queue')}
  BY DEF Waiting
<1> QED
  BY <1>1, <1>2, <1>3, <1>4

\* What is under way is well typed.
LEMMA WaitingTypes ==
  ASSUME TypeOK
  PROVE  \A m \in Waiting \cup current : m \in MessageType /\ m.request \in Requests
<1>1. \A i \in 1 .. Len(queue) : queue[i] \in MessageType
  BY DEF TypeOK
<1> QED
  BY <1>1 DEF Waiting, TypeOK, MessageType

-----------------------------------------------------------------------------
(* The way of a command through a step of its handler *)

\* A handler whose request r goes on, and does not go back before its push when
\* that was a deposit, with at most one push.
GoesOn(r) ==
  /\ stage[r] # "new" /\ stage'[r] # "new"
  /\ \A q \in Requests \ {r} : stage'[q] = stage[q]
  /\ task[r] = "ON_RAMP" /\ stage'[r] \in {"ready", "subscribed"} =>
       stage[r] \in {"ready", "subscribed"} /\ queue' = queue
  /\ \/ queue' = queue
     \/ stage[r] = "subscribed" /\ queue' = Append(queue, Message(r))
  /\ UNCHANGED <<task, loop, money>>

LEMMA GoesOnKeeps ==
  ASSUME ClaimInv, Inv, NEW r \in Requests, GoesOn(r)
  PROVE  MessagesAreTrue' /\ SentOnce' /\ NotYetCredited'
<1> USE DEF GoesOn, loop, money
<1>t. TypeOK
  BY DEF ClaimInv
<1>w. \A m \in Waiting \cup current : m \in MessageType /\ m.request \in Requests
  BY <1>t, WaitingTypes
<1>1. CASE queue' = queue
  <2>1. Waiting' = Waiting /\ Unapplied' = Unapplied /\ Unapplied \subseteq Waiting \cup current
    BY <1>1 DEF Waiting, Unapplied
  <2>2. MessagesAreTrue'
    BY <2>1, <1>w DEF Inv, MessagesAreTrue
  <2>3. \A m \in Unapplied : m.type = "ON_RAMP" => task[m.request] = "ON_RAMP"
    BY <2>1 DEF Inv, MessagesAreTrue
  <2>4. \A m \in Unapplied : m.type = "ON_RAMP" =>
          stage'[m.request] \notin {"new", "ready", "subscribed"}
    <3> SUFFICES ASSUME NEW m \in Unapplied, m.type = "ON_RAMP"
                 PROVE  stage'[m.request] \notin {"new", "ready", "subscribed"}
      OBVIOUS
    <3>1. m.request \in Requests /\ stage[m.request] \notin {"new", "ready", "subscribed"}
      BY <2>1, <1>w DEF Inv, SentOnce
    <3>2. CASE m.request = r
      BY <3>1, <3>2, <2>3
    <3>3. CASE m.request # r
      BY <3>1, <3>3
    <3> QED
      BY <3>2, <3>3
  <2>5. SentOnce'
    BY <1>1, <2>1, <2>4 DEF Inv, SentOnce
  <2>6. NotYetCredited'
    BY <2>1 DEF Inv, NotYetCredited
  <2> QED
    BY <2>2, <2>5, <2>6
<1>2. CASE stage[r] = "subscribed" /\ queue' = Append(queue, Message(r)) /\ queue' # queue
  <2> DEFINE s == Message(r)
  <2>0. s \in MessageType
    BY <1>2, MessageTypes
  <2>1. /\ Waiting' = Waiting \cup {s}
        /\ Len(queue) \in Nat /\ Len(queue') = Len(queue) + 1
        /\ \A i \in 1 .. Len(queue) : queue'[i] = queue[i]
        /\ queue'[Len(queue) + 1] = s
    BY <1>2, <1>t, <2>0, PushEffect
  <2>2. /\ s.request = r /\ s.type = task[r] /\ s.clientId = <<s.request, s.attempt>>
    BY DEF Message, Channel
  <2>3. Unapplied' = Unapplied \cup {s} /\ Unapplied \subseteq Waiting \cup current
    BY <2>1 DEF Unapplied
  <2>4. MessagesAreTrue'
    BY <2>1, <2>2, <1>w DEF Inv, MessagesAreTrue
  <2>5. \A m \in Unapplied : m.type = "ON_RAMP" => m.request # r
    BY <1>2 DEF Inv, SentOnce
  <2>6. \A m \in Unapplied' : m.type = "ON_RAMP" =>
          stage'[m.request] \notin {"new", "ready", "subscribed"}
    <3> SUFFICES ASSUME NEW m \in Unapplied', m.type = "ON_RAMP"
                 PROVE  stage'[m.request] \notin {"new", "ready", "subscribed"}
      OBVIOUS
    <3>1. CASE m = s
      BY <3>1, <2>2, <1>2
    <3>2. CASE m \in Unapplied
      <4>1. m.request \in Requests /\ m.request # r
        BY <3>2, <2>3, <2>5, <1>w
      <4> QED
        BY <4>1, <3>2 DEF Inv, SentOnce
    <3> QED
      BY <3>1, <3>2, <2>3
  <2>7. ASSUME NEW i \in 1 .. Len(queue'), NEW j \in 1 .. Len(queue'),
               queue'[i].type = "ON_RAMP", queue'[j].type = "ON_RAMP",
               queue'[i].request = queue'[j].request
        PROVE  i = j
    <3>1. \A n \in 1 .. Len(queue) : queue[n] \in Unapplied
      BY DEF Unapplied, Waiting
    <3>2. CASE i \in 1 .. Len(queue) /\ j \in 1 .. Len(queue)
      BY <3>2, <2>1, <2>7 DEF Inv, SentOnce
    <3>3. CASE i = Len(queue) + 1 /\ j \in 1 .. Len(queue)
      BY <3>3, <3>1, <2>1, <2>2, <2>5, <2>7
    <3>4. CASE j = Len(queue) + 1 /\ i \in 1 .. Len(queue)
      BY <3>4, <3>1, <2>1, <2>2, <2>5, <2>7
    <3> QED
      BY <3>2, <3>3, <3>4, <2>1
  <2>8. engine = "popped" =>
          \A m \in current, n \in Waiting' :
            m.type = "ON_RAMP" /\ n.type = "ON_RAMP" => m.request # n.request
    BY <2>1, <2>2, <2>5 DEF Inv, SentOnce, Unapplied
  <2>9. SentOnce'
    BY <2>6, <2>7, <2>8 DEF SentOnce
  <2>10. NotYetCredited'
    <3>1. s.type = "ON_RAMP" => ledger[KeyOf[s.request]] = 0
      BY <1>2, <2>2 DEF Inv, NotYetCredited
    <3>2. \A m \in Unapplied' : m.type = "ON_RAMP" => ledger[KeyOf[m.request]] = 0
      BY <3>1, <2>3 DEF Inv, NotYetCredited
    <3> QED
      BY <3>2 DEF Inv, NotYetCredited
  <2> QED
    BY <2>4, <2>9, <2>10
<1> QED
  BY <1>1, <1>2

-----------------------------------------------------------------------------
(* Steps of a handler *)

\* A step that leaves inboxes and rows alone, or the like: what is left to show
\* of the invariant when a handler goes on.
LEMMA AttemptKeeps ==
  ASSUME ClaimInv, Inv, NEW r \in Requests, stage[r] \in {"ready", "subscribed", "awaiting"},
         AttemptFailed(r), UNCHANGED <<task, transfers, loop, money>>
  PROVE  /\ CreditedBefore' /\ CreditedOnce' /\ ConfirmedIsRecorded' /\ OwnReply'
         /\ stage'[r] # "new" /\ \A q \in Requests \ {r} : stage'[q] = stage[q]
         /\ task[r] = "ON_RAMP" => stage'[r] = "failed"
<1> USE DepositsAssumption DEF ClaimInv, TypeOK, loop, money
<1>1. CreditedOnce' /\ ConfirmedIsRecorded'
  BY DEF Inv, CreditedOnce, ConfirmedIsRecorded
<1>2. CASE /\ attempt[r] + 1 < Limit(task[r])
           /\ attempt' = [attempt EXCEPT ![r] = @ + 1]
           /\ stage' = [stage EXCEPT ![r] = "ready"]
           /\ inbox' = [inbox EXCEPT ![r] = {}]
  <2>1. task[r] # "ON_RAMP"
    BY <1>2 DEF Limit
  <2>2. CreditedBefore' /\ OwnReply'
    BY <1>2 DEF Inv, CreditedBefore, OwnReply
  <2> QED
    BY <1>1, <1>2, <2>1, <2>2
<1>3. CASE /\ stage' = [stage EXCEPT ![r] = IF task[r] = "ON_RAMP" THEN "failed" ELSE "over"]
           /\ UNCHANGED <<attempt, inbox>>
  <2>1. CreditedBefore' /\ OwnReply'
    BY <1>3 DEF Inv, CreditedBefore, OwnReply
  <2> QED
    BY <1>1, <1>3, <2>1
<1> QED
  BY <1>2, <1>3 DEF AttemptFailed

LEMMA ClaimKeeps ==
  ASSUME ClaimInv, Inv, NEW r \in Requests, Claim(r) \/ ClaimFails(r)
  PROVE  Inv'
<1> USE DepositsAssumption DEF ClaimInv, TypeOK, loop, money
<1>t. TypeOK
  OBVIOUS
<1>1. /\ stage[r] = "new" /\ KeyOf[r] \in Keys /\ task[r] = "none"
      /\ UNCHANGED <<attempt, inbox, queue, loop, money, crashes>>
      /\ \E s \in {"ready", "over"} : stage' = [stage EXCEPT ![r] = s]
      /\ \E c \in {"none", "ON_RAMP", "GET_BALANCE"} : task' = [task EXCEPT ![r] = c]
      /\ transfers' = transfers \/ (transfers[KeyOf[r]] = "none"
                                    /\ transfers' = [transfers EXCEPT ![KeyOf[r]] = "pending"])
  <2>1. task[r] = "none"
    BY DEF Claim, ClaimFails, Claims
  <2>2. KeyOf[r] \in Keys
    OBVIOUS
  <2>3. CASE Claim(r)
    BY <2>1, <2>2, <2>3 DEF Claim
  <2>4. CASE ClaimFails(r)
    <3>1. task' = [task EXCEPT ![r] = "none"]
      BY <2>1, <2>4 DEF ClaimFails
    <3> QED
      BY <2>1, <2>2, <2>4, <3>1 DEF ClaimFails
  <2> QED
    BY <2>3, <2>4
<1>2. Waiting' = Waiting /\ Unapplied' = Unapplied /\ Unapplied \subseteq Waiting \cup current
  BY <1>1 DEF Waiting, Unapplied
<1>3. \A m \in Waiting \cup current : m.request \in Requests /\ m.request # r
  BY <1>1, <1>t, WaitingTypes DEF Inv, MessagesAreTrue
<1>4. inbox[r] = {}
  BY <1>1, <1>t DEF Inv, InboxHasSent
<1>5. task'[r] = "ON_RAMP" => ledger[KeyOf[r]] = 0
  <2> SUFFICES ASSUME task'[r] = "ON_RAMP"
               PROVE  ledger[KeyOf[r]] = 0
    OBVIOUS
  <2>1. transfers[KeyOf[r]] = "none"
    BY <1>1 DEF Claim, ClaimFails
  <2> QED
    BY <1>1, <2>1 DEF Inv, CreditedOnce
<1>6. MessagesAreTrue'
  BY <1>1, <1>2, <1>3 DEF Inv, MessagesAreTrue
<1>7. SentOnce'
  BY <1>1, <1>2, <1>3 DEF Inv, SentOnce
<1>8. NotYetCredited'
  BY <1>1, <1>2, <1>5 DEF Inv, NotYetCredited
<1>9. CreditedBefore'
  BY <1>1, <1>4 DEF Inv, CreditedBefore
<1>10. CreditedOnce'
  BY <1>1 DEF Inv, CreditedOnce
<1>11. ConfirmedIsRecorded'
  BY <1>1 DEF Inv, ConfirmedIsRecorded
<1>12. OwnReply' /\ InboxHasSent'
  BY <1>1, <1>4 DEF Inv, OwnReply, InboxHasSent
<1> QED
  BY <1>6, <1>7, <1>8, <1>9, <1>10, <1>11, <1>12 DEF Inv

LEMMA WorkKeeps ==
  ASSUME ClaimInv, Inv, NEW r \in Requests, Work(r)
  PROVE  Inv'
<1> USE DepositsAssumption DEF ClaimInv, TypeOK
<1>h. InboxHasSent' /\ GoesOn(r)
  <2>1. CASE Subscribe(r)
    BY <2>1 DEF Subscribe, GoesOn, Inv, InboxHasSent
  <2>2. CASE Push(r)
    BY <2>2 DEF Push, GoesOn, Inv, InboxHasSent
  <2>3. CASE SendFails(r)
    <3>1. /\ stage'[r] # "new" /\ \A q \in Requests \ {r} : stage'[q] = stage[q]
          /\ task[r] = "ON_RAMP" => stage'[r] = "failed"
      BY <2>3, AttemptKeeps DEF SendFails
    <3>2. GoesOn(r)
      BY <2>3, <3>1 DEF SendFails, GoesOn
    <3>3. InboxHasSent'
      BY <2>3, <3>1 DEF SendFails, AttemptFailed, Inv, InboxHasSent
    <3> QED
      BY <3>2, <3>3
  <2>4. CASE GiveUp(r)
    <3>1. /\ stage'[r] # "new" /\ \A q \in Requests \ {r} : stage'[q] = stage[q]
          /\ task[r] = "ON_RAMP" => stage'[r] = "failed"
      BY <2>4, AttemptKeeps DEF GiveUp
    <3>2. GoesOn(r)
      BY <2>4, <3>1 DEF GiveUp, GoesOn
    <3>3. InboxHasSent'
      BY <2>4, <3>1 DEF GiveUp, AttemptFailed, Inv, InboxHasSent
    <3> QED
      BY <3>2, <3>3
  <2>5. CASE Receive(r)
    BY <2>5 DEF Receive, GoesOn, Inv, InboxHasSent
  <2>6. CASE Mark(r)
    BY <2>6 DEF Mark, GoesOn, Inv, InboxHasSent
  <2> QED
    BY <2>1, <2>2, <2>3, <2>4, <2>5, <2>6 DEF Work
<1>m. MessagesAreTrue' /\ SentOnce' /\ NotYetCredited'
  BY <1>h, GoesOnKeeps
<1>1. CASE Subscribe(r) \/ Push(r) \/ Receive(r)
  <2>1. UNCHANGED <<task, attempt, inbox, transfers, money, loop>>
    BY <1>1 DEF Subscribe, Push, Receive
  <2>2. /\ \A q \in Requests \ {r} : stage'[q] = stage[q]
        /\ stage'[r] = "answered" => inbox[r] # {}
    BY <1>1 DEF Subscribe, Push, Receive
  <2>3. CreditedBefore'
    BY <2>1, <2>2 DEF Inv, CreditedBefore, loop, money
  <2>4. CreditedOnce' /\ ConfirmedIsRecorded' /\ OwnReply'
    BY <2>1 DEF Inv, CreditedOnce, ConfirmedIsRecorded, OwnReply, money
  <2> QED
    BY <1>h, <1>m, <2>3, <2>4 DEF Inv
<1>2. CASE SendFails(r) \/ GiveUp(r)
  <2>1. CreditedBefore' /\ CreditedOnce' /\ ConfirmedIsRecorded' /\ OwnReply'
    BY <1>2, AttemptKeeps DEF SendFails, GiveUp
  <2> QED
    BY <1>h, <1>m, <2>1 DEF Inv
<1>3. CASE Mark(r)
  <2>1. /\ stage[r] \in {"answered", "failed"} /\ KeyOf[r] \in Keys
        /\ UNCHANGED <<task, attempt, inbox, loop, money>>
        /\ stage' = [stage EXCEPT ![r] = "over"]
        /\ transfers' = transfers
           \/ transfers' = [transfers EXCEPT ![KeyOf[r]] =
                              IF stage[r] = "answered" THEN "confirmed" ELSE "failed"]
    BY <1>3 DEF Mark
  <2>2. task[r] = "ON_RAMP" /\ transfers[KeyOf[r]] = "pending"
    BY <2>1 DEF Claims
  <2>3. stage[r] = "answered" /\ KeyOf[r] \notin Refused => ledger[KeyOf[r]] = 1
    BY <2>1, <2>2 DEF Inv, CreditedBefore
  <2>4. CreditedBefore' /\ OwnReply'
    BY <2>1 DEF Inv, CreditedBefore, OwnReply, loop, money
  <2>5. CreditedOnce'
    BY <2>1, <2>2 DEF Inv, CreditedOnce, money
  <2>6. ConfirmedIsRecorded'
    BY <2>1, <2>3 DEF Inv, ConfirmedIsRecorded, money
  <2> QED
    BY <1>h, <1>m, <2>4, <2>5, <2>6 DEF Inv
<1> QED
  BY <1>1, <1>2, <1>3 DEF Work

-----------------------------------------------------------------------------
(* The engine and the crashes *)

LEMMA PopKeeps ==
  ASSUME ClaimInv, Inv, Pop
  PROVE  Inv'
<1> USE DepositsAssumption DEF ClaimInv, TypeOK
<1>t. TypeOK
  OBVIOUS
<1>1. /\ queue # <<>> /\ queue' = Tail(queue) /\ current' = {Head(queue)}
      /\ engine = "idle" /\ engine' = "popped"
      /\ UNCHANGED <<stage, task, attempt, inbox, transfers, memory, saved, ledger>>
  BY DEF Pop, api, money
<1>2. /\ Len(queue) \in Nat /\ Len(queue) > 0 /\ Len(queue') = Len(queue) - 1
      /\ \A i \in 1 .. Len(queue') : queue'[i] = queue[i + 1]
      /\ Head(queue) = queue[1] /\ Head(queue) \in Waiting
      /\ Waiting' \subseteq Waiting
  BY <1>1, <1>t, PopEffect
<1>3. Unapplied' \subseteq Unapplied
  BY <1>1, <1>2 DEF Unapplied
<1>4. Waiting' \cup current' \subseteq Waiting
  BY <1>1, <1>2
<1>5. MessagesAreTrue'
  BY <1>1, <1>4 DEF Inv, MessagesAreTrue
<1>6. ASSUME NEW i \in 1 .. Len(queue'), NEW j \in 1 .. Len(queue'),
             queue'[i].type = "ON_RAMP", queue'[j].type = "ON_RAMP",
             queue'[i].request = queue'[j].request
      PROVE  i = j
  <2> HIDE DEF ClaimInv, TypeOK
  <2>1. i + 1 \in 1 .. Len(queue) /\ j + 1 \in 1 .. Len(queue)
    BY <1>2
  <2>2. queue'[i] = queue[i + 1] /\ queue'[j] = queue[j + 1]
    BY <1>2
  <2>3. \A x, y \in 1 .. Len(queue) :
          queue[x].type = "ON_RAMP" /\ queue[y].type = "ON_RAMP"
            /\ queue[x].request = queue[y].request => x = y
    BY DEF Inv, SentOnce
  <2>4. i + 1 = j + 1
    BY <1>6, <2>1, <2>2, <2>3
  <2> QED
    BY <2>4
<1>7. ASSUME NEW n \in Waiting', Head(queue).type = "ON_RAMP", n.type = "ON_RAMP"
      PROVE  Head(queue).request # n.request
  <2>1. PICK i \in 1 .. Len(queue') : n = queue'[i]
    BY DEF Waiting
  <2>2. i + 1 \in 1 .. Len(queue) /\ 1 \in 1 .. Len(queue) /\ i + 1 # 1 /\ n = queue[i + 1]
    BY <1>2, <2>1
  <2> QED
    BY <1>2, <1>7, <2>2 DEF Inv, SentOnce
<1>8. SentOnce'
  BY <1>1, <1>3, <1>6, <1>7 DEF Inv, SentOnce
<1>9. NotYetCredited'
  BY <1>1, <1>3 DEF Inv, NotYetCredited
<1>10. CreditedBefore'
  BY <1>1 DEF Inv, CreditedBefore
<1>11. InboxHasSent' /\ CreditedOnce' /\ ConfirmedIsRecorded' /\ OwnReply'
  BY <1>1 DEF Inv, InboxHasSent, CreditedOnce, ConfirmedIsRecorded, OwnReply
<1> QED
  BY <1>5, <1>8, <1>9, <1>10, <1>11 DEF Inv

\* The one step that credits.
LEMMA ApplyKeeps ==
  ASSUME ClaimInv, Inv, Apply
  PROVE  Inv'
<1> USE DepositsAssumption DEF ClaimInv, TypeOK
<1>t. TypeOK
  OBVIOUS
<1>w. \A m \in Waiting \cup current : m \in MessageType /\ m.request \in Requests
  BY <1>t, WaitingTypes
<1>1. /\ engine = "popped" /\ engine' = "applied"
      /\ memory' = Incremented(memory) /\ ledger' = Incremented(ledger)
      /\ UNCHANGED <<stage, task, attempt, inbox, transfers, queue, current, saved>>
  BY DEF Apply, api
<1>2. Waiting' = Waiting /\ Unapplied' = Waiting /\ Unapplied = Waiting \cup current
  BY <1>1 DEF Waiting, Unapplied
<1>3. ASSUME NEW k \in Keys, Credited(k)
      PROVE  /\ ledger[k] = 0 /\ transfers[k] # "none" /\ k \notin Refused
             /\ \A m \in Waiting : m.type = "ON_RAMP" => KeyOf[m.request] # k
             /\ \A r \in Requests : task[r] = "ON_RAMP" /\ KeyOf[r] = k =>
                  stage[r] \notin {"new", "ready", "subscribed"}
  <2>1. PICK c \in current : c.type = "ON_RAMP" /\ KeyOf[c.request] = k /\ k \notin Refused
    BY <1>3 DEF Credited
  <2>2. c.request \in Requests /\ task[c.request] = "ON_RAMP"
    BY <1>w, <2>1 DEF Inv, MessagesAreTrue
  <2>3. /\ ledger[k] = 0
        /\ stage[c.request] \notin {"new", "ready", "subscribed"}
    BY <1>2, <2>1 DEF Inv, NotYetCredited, SentOnce
  <2>4. \A r \in Requests : task[r] = "ON_RAMP" /\ KeyOf[r] = k => r = c.request
    BY <2>1, <2>2 DEF Claims
  <2>5. transfers[k] # "none"
    BY <2>1, <2>2 DEF Claims
  <2>6. ASSUME NEW m \in Waiting, m.type = "ON_RAMP", KeyOf[m.request] = k
        PROVE  FALSE
    <3>1. m.request \in Requests /\ task[m.request] = "ON_RAMP"
      BY <1>w, <2>6 DEF Inv, MessagesAreTrue
    <3>2. m.request = c.request
      BY <3>1, <2>4, <2>6
    <3> QED
      BY <1>1, <2>1, <2>6, <3>2 DEF Inv, SentOnce
  <2> QED
    BY <2>1, <2>3, <2>4, <2>5, <2>6
<1>4. \A k \in Keys :
        /\ ledger'[k] = IF Credited(k) THEN ledger[k] + 1 ELSE ledger[k]
        /\ memory'[k] = IF Credited(k) THEN memory[k] + 1 ELSE memory[k]
        /\ ledger[k] \in Nat /\ memory[k] \in Nat /\ saved[k] \in Nat
  BY <1>1 DEF Incremented
<1>5. MessagesAreTrue' /\ SentOnce'
  BY <1>1, <1>2 DEF Inv, MessagesAreTrue, SentOnce
<1>6. NotYetCredited'
  <2>1. ASSUME NEW m \in Waiting, m.type = "ON_RAMP"
        PROVE  ledger'[KeyOf[m.request]] = 0
    <3>1. KeyOf[m.request] \in Keys
      BY <1>w
    <3>2. ~ Credited(KeyOf[m.request])
      BY <1>3, <2>1, <3>1
    <3>3. ledger[KeyOf[m.request]] = 0
      BY <1>2, <2>1 DEF Inv, NotYetCredited
    <3> QED
      BY <1>4, <3>1, <3>2, <3>3
  <2>2. ASSUME NEW r \in Requests, task[r] = "ON_RAMP", stage[r] \in {"ready", "subscribed"}
        PROVE  ledger'[KeyOf[r]] = 0
    <3>1. KeyOf[r] \in Keys /\ ledger[KeyOf[r]] = 0
      BY <2>2 DEF Inv, NotYetCredited
    <3>2. ~ Credited(KeyOf[r])
      BY <1>3, <2>2, <3>1
    <3> QED
      BY <1>4, <3>1, <3>2
  <2> QED
    BY <1>1, <1>2, <2>1, <2>2 DEF NotYetCredited
<1>7. \A k \in Keys : ledger[k] = 1 => ledger'[k] = 1
  BY <1>3, <1>4
<1>8. CreditedBefore'
  <2>1. ASSUME NEW m \in current, m.type = "ON_RAMP", KeyOf[m.request] \notin Refused
        PROVE  ledger'[KeyOf[m.request]] = 1
    <3>1. KeyOf[m.request] \in Keys
      BY <1>w
    <3>2. Credited(KeyOf[m.request])
      BY <2>1 DEF Credited
    <3> QED
      BY <1>3, <1>4, <3>1, <3>2
  <2>2. \A r \in Requests : KeyOf[r] \in Keys
    OBVIOUS
  <2> QED
    BY <1>1, <1>7, <2>1, <2>2 DEF Inv, CreditedBefore
<1>9. CreditedOnce'
  <2> SUFFICES ASSUME NEW k \in Keys
               PROVE  /\ ledger'[k] <= IF transfers[k] = "none" THEN 0 ELSE 1
                      /\ memory'[k] <= ledger'[k]
                      /\ saved[k] <= ledger'[k]
    BY <1>1 DEF CreditedOnce
  <2>1. /\ ledger[k] <= IF transfers[k] = "none" THEN 0 ELSE 1
        /\ memory[k] <= ledger[k] /\ saved[k] <= ledger[k]
    BY DEF Inv, CreditedOnce
  <2> QED
    BY <1>3, <1>4, <2>1
<1>10. ConfirmedIsRecorded'
  BY <1>1, <1>7 DEF Inv, ConfirmedIsRecorded
<1>11. InboxHasSent' /\ OwnReply'
  BY <1>1 DEF Inv, InboxHasSent, OwnReply
<1> QED
  BY <1>5, <1>6, <1>8, <1>9, <1>10, <1>11 DEF Inv

\* A reply goes to the request whose command it answers, if to anybody.
LEMMA AnswerKeeps ==
  ASSUME ClaimInv, Inv, Answer
  PROVE  Inv'
<1> USE DepositsAssumption DEF ClaimInv, TypeOK
<1>t. TypeOK
  OBVIOUS
<1>1. /\ engine = "applied" /\ engine' = "idle" /\ current' = {}
      /\ inbox' = [r \in Requests |-> inbox[r] \cup
                     {m \in current : Listening(r) /\ Channel(r) = m.clientId}]
      /\ UNCHANGED <<stage, task, attempt, transfers, queue, memory, saved, ledger>>
  BY DEF Answer, money
<1>2. Waiting' = Waiting /\ Unapplied' = Waiting /\ Unapplied = Waiting
  BY <1>1 DEF Waiting, Unapplied
<1>3. MessagesAreTrue' /\ SentOnce' /\ NotYetCredited'
  BY <1>1, <1>2 DEF Inv, MessagesAreTrue, SentOnce, NotYetCredited
<1>4. ASSUME NEW r \in Requests, NEW m \in inbox'[r], m \notin inbox[r]
      PROVE  /\ m \in current /\ m.request = r /\ m.attempt = attempt[r]
             /\ m.type = task[r] /\ stage[r] # "new"
  <2>1. m \in current /\ Listening(r) /\ <<r, attempt[r]>> = m.clientId
    BY <1>1, <1>4 DEF Channel
  <2>2. m.clientId = <<m.request, m.attempt>> /\ m.type = task[m.request]
    BY <2>1 DEF Inv, MessagesAreTrue
  <2>3. m.request = r /\ m.attempt = attempt[r]
    BY <2>1, <2>2
  <2> QED
    BY <2>1, <2>2, <2>3 DEF Listening
<1>5. OwnReply'
  BY <1>1, <1>4 DEF Inv, OwnReply
<1>6. InboxHasSent'
  BY <1>1, <1>4 DEF Inv, InboxHasSent
<1>7. CreditedBefore'
  <2>1. ASSUME NEW r \in Requests, task[r] = "ON_RAMP", inbox'[r] # {}, KeyOf[r] \notin Refused
        PROVE  ledger[KeyOf[r]] = 1
    <3>1. PICK m : m \in inbox'[r]
      BY <2>1
    <3>2. CASE m \in inbox[r]
      BY <2>1, <3>2 DEF Inv, CreditedBefore
    <3>3. CASE m \notin inbox[r]
      <4>1. m \in current /\ m.request = r /\ m.type = "ON_RAMP"
        BY <1>4, <2>1, <3>1, <3>3
      <4>2. \A c \in current : c.type = "ON_RAMP" /\ KeyOf[c.request] \notin Refused =>
              ledger[KeyOf[c.request]] = 1
        BY <1>1 DEF Inv, CreditedBefore
      <4> QED
        BY <2>1, <4>1, <4>2
    <3> QED
      BY <3>2, <3>3
  <2>2. \A r \in Requests : inbox[r] \subseteq inbox'[r]
    BY <1>1
  <2> QED
    BY <1>1, <2>1, <2>2 DEF Inv, CreditedBefore
<1>8. CreditedOnce' /\ ConfirmedIsRecorded'
  BY <1>1 DEF Inv, CreditedOnce, ConfirmedIsRecorded
<1> QED
  BY <1>3, <1>5, <1>6, <1>7, <1>8 DEF Inv

LEMMA SaveKeeps ==
  ASSUME ClaimInv, Inv, Save
  PROVE  Inv'
<1>1. /\ saved' = memory
      /\ UNCHANGED <<stage, task, attempt, inbox, transfers, queue, engine, current,
                     memory, ledger>>
  BY DEF Save, api, loop
<1>2. Waiting' = Waiting /\ Unapplied' = Unapplied
  BY <1>1 DEF Waiting, Unapplied
<1>3. MessagesAreTrue' /\ SentOnce' /\ NotYetCredited' /\ CreditedBefore'
  BY <1>1, <1>2 DEF Inv, MessagesAreTrue, SentOnce, NotYetCredited, CreditedBefore
<1>4. InboxHasSent' /\ CreditedOnce' /\ ConfirmedIsRecorded' /\ OwnReply'
  BY <1>1 DEF Inv, InboxHasSent, CreditedOnce, ConfirmedIsRecorded, OwnReply
<1> QED
  BY <1>3, <1>4 DEF Inv

LEMMA ApiCrashKeeps ==
  ASSUME ClaimInv, Inv, ApiCrash
  PROVE  Inv'
<1>t. TypeOK
  BY DEF ClaimInv
<1>w. \A m \in Waiting \cup current : m \in MessageType /\ m.request \in Requests
  BY <1>t, WaitingTypes
<1>1. /\ stage' = [r \in Requests |-> IF stage[r] = "new" THEN "new" ELSE "over"]
      /\ UNCHANGED <<task, attempt, inbox, transfers, queue, engine, current,
                     memory, saved, ledger>>
  BY DEF ApiCrash, loop, money
<1>2. /\ Waiting' = Waiting /\ Unapplied' = Unapplied
      /\ Unapplied \subseteq Waiting \cup current
  BY <1>1 DEF Waiting, Unapplied
<1>3. MessagesAreTrue' /\ SentOnce'
  BY <1>1, <1>2, <1>w DEF Inv, MessagesAreTrue, SentOnce
<1>4. NotYetCredited' /\ CreditedBefore' /\ InboxHasSent'
  BY <1>1, <1>2 DEF Inv, NotYetCredited, CreditedBefore, InboxHasSent
<1>5. CreditedOnce' /\ ConfirmedIsRecorded' /\ OwnReply'
  BY <1>1 DEF Inv, CreditedOnce, ConfirmedIsRecorded, OwnReply
<1> QED
  BY <1>3, <1>4, <1>5 DEF Inv

LEMMA EngineCrashKeeps ==
  ASSUME ClaimInv, Inv, EngineCrash
  PROVE  Inv'
<1>1. /\ engine' = "idle" /\ current' = {} /\ memory' = saved
      /\ UNCHANGED <<stage, task, attempt, inbox, transfers, queue, saved, ledger>>
  BY DEF EngineCrash, api
<1>2. Waiting' = Waiting /\ Unapplied' = Waiting /\ Waiting \subseteq Unapplied
  BY <1>1 DEF Waiting, Unapplied
<1>3. MessagesAreTrue' /\ SentOnce' /\ NotYetCredited' /\ CreditedBefore'
  BY <1>1, <1>2 DEF Inv, MessagesAreTrue, SentOnce, NotYetCredited, CreditedBefore
<1>4. InboxHasSent' /\ CreditedOnce' /\ ConfirmedIsRecorded' /\ OwnReply'
  BY <1>1 DEF Inv, InboxHasSent, CreditedOnce, ConfirmedIsRecorded, OwnReply
<1> QED
  BY <1>3, <1>4 DEF Inv

-----------------------------------------------------------------------------
(* The theorems *)

LEMMA InvInit == Init => Inv
<1> SUFFICES ASSUME Init
             PROVE  Inv
  OBVIOUS
<1> USE DepositsAssumption DEF Init
<1>1. Waiting = {} /\ Unapplied = {}
  BY DEF Waiting, Unapplied
<1>2. MessagesAreTrue /\ SentOnce /\ NotYetCredited /\ CreditedBefore
  BY <1>1 DEF MessagesAreTrue, SentOnce, NotYetCredited, CreditedBefore
<1>3. InboxHasSent /\ CreditedOnce /\ ConfirmedIsRecorded /\ OwnReply
  BY DEF InboxHasSent, CreditedOnce, ConfirmedIsRecorded, OwnReply
<1> QED
  BY <1>2, <1>3 DEF Inv

LEMMA InvStep ==
  ASSUME ClaimInv, Inv, [Next]_vars
  PROVE  Inv'
<1>1. CASE \E r \in Requests : Handle(r)
  BY <1>1, ClaimKeeps, WorkKeeps DEF Handle
<1>2. CASE Pop
  BY <1>2, PopKeeps
<1>3. CASE Apply
  BY <1>3, ApplyKeeps
<1>4. CASE Answer
  BY <1>4, AnswerKeeps
<1>5. CASE Save
  BY <1>5, SaveKeeps
<1>6. CASE ApiCrash
  BY <1>6, ApiCrashKeeps
<1>7. CASE EngineCrash
  BY <1>7, EngineCrashKeeps
<1>8. CASE UNCHANGED vars
  <2>1. UNCHANGED <<stage, task, attempt, inbox, transfers, queue, engine, current,
                    memory, saved, ledger>>
    BY <1>8 DEF vars, api, loop, money
  <2>2. Waiting' = Waiting /\ Unapplied' = Unapplied
    BY <2>1 DEF Waiting, Unapplied
  <2>3. MessagesAreTrue' /\ SentOnce' /\ NotYetCredited' /\ CreditedBefore'
    BY <2>1, <2>2 DEF Inv, MessagesAreTrue, SentOnce, NotYetCredited, CreditedBefore
  <2>4. InboxHasSent' /\ CreditedOnce' /\ ConfirmedIsRecorded' /\ OwnReply'
    BY <2>1 DEF Inv, InboxHasSent, CreditedOnce, ConfirmedIsRecorded, OwnReply
  <2> QED
    BY <2>3, <2>4 DEF Inv
<1> QED
  BY <1>1, <1>2, <1>3, <1>4, <1>5, <1>6, <1>7, <1>8 DEF Next

LEMMA Invariance == Spec => [](ClaimInv /\ Inv)
<1> QED
  BY ClaimInit, InvInit, ClaimStep, InvStep, PTL DEF Spec

\* No key is credited twice or without its transfers row, whatever is retried,
\* lost, late or killed.
THEOREM OneCreditPerKey == Spec => []CreditedOnce
<1>1. Inv => CreditedOnce
  BY DEF Inv
<1> QED
  BY <1>1, Invariance, PTL

\* A transfer that reads confirmed has its ledger row, for every amount that the
\* engine accepts.
THEOREM ConfirmationIsTrue == Spec => []ConfirmedIsRecorded
<1>1. Inv => ConfirmedIsRecorded
  BY DEF Inv
<1> QED
  BY <1>1, Invariance, PTL

\* A request never takes another command's reply for its own.
THEOREM RepliesAreOwn == Spec => []OwnReply
<1>1. Inv => OwnReply
  BY DEF Inv
<1> QED
  BY <1>1, Invariance, PTL

\* A status that was settled stays: only the request that claimed the key marks
\* its row, and it finds it pending.
THEOREM SettledStays == Spec => StatusSettlesOnce
<1>1. ASSUME ClaimInv, [Next]_vars, NEW k \in Keys, transfers[k] \in {"confirmed", "failed"}
      PROVE  transfers'[k] = transfers[k]
  <2> USE DepositsAssumption DEF ClaimInv, TypeOK
  <2>1. CASE \E r \in Requests : Handle(r)
    <3>1. PICK r \in Requests : Handle(r)
      BY <2>1
    <3>2. CASE Claim(r) \/ ClaimFails(r)
      BY <1>1, <3>2 DEF Claim, ClaimFails
    <3>3. CASE Mark(r)
      <4>1. KeyOf[r] # k
        BY <1>1, <3>3 DEF Mark, Claims
      <4> QED
        BY <1>1, <3>3, <4>1 DEF Mark
    <3>4. CASE Subscribe(r) \/ Push(r) \/ SendFails(r) \/ GiveUp(r) \/ Receive(r)
      BY <3>4 DEF Subscribe, Push, SendFails, GiveUp, Receive
    <3> QED
      BY <3>1, <3>2, <3>3, <3>4 DEF Handle, Work
  <2>2. CASE Pop \/ Apply \/ Answer \/ Save \/ ApiCrash \/ EngineCrash
    BY <2>2 DEF Pop, Apply, Answer, Save, ApiCrash, EngineCrash
  <2>3. CASE UNCHANGED vars
    BY <2>3 DEF vars
  <2> QED
    BY <1>1, <2>1, <2>2, <2>3 DEF Next
<1>2. ClaimInv /\ [Next]_vars =>
        [\A k \in Keys : transfers[k] \in {"confirmed", "failed"} =>
           transfers'[k] = transfers[k]]_vars
  BY <1>1
<1> QED
  BY <1>2, ClaimInit, ClaimStep, PTL DEF Spec, StatusSettlesOnce

-----------------------------------------------------------------------------
(* Deposits implements Transfers *)

\* The loop handles one command at a time.
OneAtATime == \A m, n \in current : m = n

LEMMA OneAtATimeStep ==
  ASSUME OneAtATime, [Next]_vars
  PROVE  OneAtATime'
<1>1. CASE \E r \in Requests : Handle(r)
  BY <1>1 DEF OneAtATime, Handle, Work, Claim, ClaimFails, Subscribe, Push, SendFails, GiveUp,
     Receive, Mark, loop
<1>2. CASE Pop \/ Apply \/ Answer \/ Save \/ ApiCrash \/ EngineCrash
  BY <1>2 DEF OneAtATime, Pop, Apply, Answer, Save, ApiCrash, EngineCrash, loop
<1>3. CASE UNCHANGED vars
  BY <1>3 DEF OneAtATime, vars, loop
<1> QED
  BY <1>1, <1>2, <1>3 DEF Next

\* A handler's step on the transfers row is a claim, a settlement or none.
LEMMA HandleKeepsPromise ==
  ASSUME ClaimInv, Inv, NEW r \in Requests, Handle(r)
  PROVE  [Promise!Next]_Promise!vars
<1> USE DepositsAssumption DEF ClaimInv, TypeOK
<1>k. KeyOf[r] \in Keys
  OBVIOUS
<1>l. ledger' = ledger
  BY DEF Handle, Work, Claim, ClaimFails, Subscribe, Push, SendFails, GiveUp, Receive, Mark, money
<1>1. CASE transfers' = transfers
  BY <1>1, <1>l DEF Promise!vars
<1>2. CASE /\ transfers[KeyOf[r]] = "none"
           /\ transfers' = [transfers EXCEPT ![KeyOf[r]] = "pending"]
  BY <1>2, <1>k, <1>l DEF Promise!Next, Promise!Claim
<1>3. CASE Mark(r) /\ transfers' # transfers
  <2>1. task[r] = "ON_RAMP" /\ stage[r] # "over"
    BY <1>3 DEF Mark, Claims
  <2>2. transfers[KeyOf[r]] = "pending"
    BY <2>1 DEF Claims
  <2>3. CASE stage[r] = "answered"
    <3>1. KeyOf[r] \in Refused \/ ledger[KeyOf[r]] = 1
      BY <2>1, <2>3 DEF Inv, CreditedBefore
    <3>2. transfers' = [transfers EXCEPT ![KeyOf[r]] = "confirmed"]
      BY <1>3, <2>3 DEF Mark
    <3> QED
      BY <2>2, <3>1, <3>2, <1>k, <1>l DEF Promise!Next, Promise!Confirm
  <2>4. CASE stage[r] = "failed"
    <3>1. transfers' = [transfers EXCEPT ![KeyOf[r]] = "failed"]
      BY <1>3, <2>4 DEF Mark
    <3> QED
      BY <2>2, <3>1, <1>k, <1>l DEF Promise!Next, Promise!Fail
  <2> QED
    BY <1>3, <2>3, <2>4 DEF Mark
<1> QED
  BY <1>1, <1>2, <1>3 DEF Handle, Work, Claim, ClaimFails, Subscribe, Push, SendFails, GiveUp,
     Receive

\* The engine applies a command that claimed its key, and for the first time.
LEMMA ApplyKeepsPromise ==
  ASSUME ClaimInv, Inv, OneAtATime, Apply
  PROVE  [Promise!Next]_Promise!vars
<1> USE DepositsAssumption DEF ClaimInv, TypeOK
<1>t. TypeOK
  OBVIOUS
<1>w. \A m \in current : m.request \in Requests
  BY <1>t, WaitingTypes
<1>1. engine = "popped" /\ transfers' = transfers /\ ledger' = Incremented(ledger)
  BY DEF Apply
<1>2. CASE \A k \in Keys : ~Credited(k)
  <2>1. ledger' = ledger
    BY <1>1, <1>2 DEF Incremented
  <2> QED
    BY <1>1, <2>1 DEF Promise!vars
<1>3. ASSUME NEW k \in Keys, Credited(k)
      PROVE  Promise!Next
  <2>1. PICK c \in current : c.type = "ON_RAMP" /\ KeyOf[c.request] = k /\ k \notin Refused
    BY <1>3 DEF Credited
  <2>2. ledger[k] = 0
    BY <1>1, <2>1 DEF Inv, NotYetCredited, Unapplied
  <2>3. task[c.request] = "ON_RAMP" /\ c.request \in Requests
    BY <2>1, <1>w DEF Inv, MessagesAreTrue
  <2>4. transfers[k] # "none"
    BY <2>1, <2>3 DEF Claims
  <2>5. \A j \in Keys : Credited(j) <=> j = k
    BY <2>1 DEF Credited, OneAtATime
  <2>6. ledger' = [ledger EXCEPT ![k] = 1]
    <3> HIDE DEF ClaimInv, TypeOK
    <3>1. ledger \in [Keys -> Nat]
      BY <1>t DEF TypeOK
    <3>2. ledger' = [j \in Keys |-> IF j = k THEN ledger[j] + 1 ELSE ledger[j]]
      BY <1>1, <2>5 DEF Incremented
    <3>3. ledger' = [j \in Keys |-> IF j = k THEN 1 ELSE ledger[j]]
      BY <2>2, <3>2
    <3>4. [ledger EXCEPT ![k] = 1] = [j \in Keys |-> IF j = k THEN 1 ELSE ledger[j]]
      BY <3>1
    <3> QED
      BY <3>3, <3>4
  <2> QED
    BY <1>1, <2>1, <2>2, <2>4, <2>6 DEF Promise!Next, Promise!Credit
<1> QED
  BY <1>2, <1>3

LEMMA StepKeepsPromise ==
  ASSUME ClaimInv, Inv, OneAtATime, [Next]_vars
  PROVE  [Promise!Next]_Promise!vars
<1>1. CASE \E r \in Requests : Handle(r)
  BY <1>1, HandleKeepsPromise
<1>2. CASE Apply
  BY <1>2, ApplyKeepsPromise
<1>3. CASE Pop \/ Answer \/ Save \/ ApiCrash \/ EngineCrash
  BY <1>3 DEF Pop, Answer, Save, ApiCrash, EngineCrash, money, Promise!vars
<1>4. CASE UNCHANGED vars
  BY <1>4 DEF vars, money, Promise!vars
<1> QED
  BY <1>1, <1>2, <1>3, <1>4 DEF Next

\* The deposit protocol implements the promise of module Transfers, for any
\* requests and keys, any number of retries and of crashes.
THEOREM DepositsImplementTransfers == Spec => DepositsKeepPromise
<1>1. Init => Promise!Init
  BY DEF Init, Promise!Init
<1>2. Init => OneAtATime
  BY DEF Init, OneAtATime
<1>3. Spec => []OneAtATime
  BY <1>2, OneAtATimeStep, PTL DEF Spec
<1> QED
  BY <1>1, <1>3, Invariance, StepKeepsPromise, PTL DEF Spec, DepositsKeepPromise, Promise!Spec

=============================================================================
