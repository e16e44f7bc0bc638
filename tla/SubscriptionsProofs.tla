------------------------ MODULE SubscriptionsProofs -------------------------
(***************************************************************************)
(* What holds of the WebSocket service for any number of connections,      *)
(* sessions of one user, streams and messages.                             *)
(***************************************************************************)
EXTENDS Subscriptions, TLAPS

\* Goroutine by goroutine: what UserLeft has still to unsubscribe is what is left,
\* and from removeUser on nobody is in the users map, for ids of a single session.
LeavingIsLeft ==
  \A c \in Conns : pc[c] = "leaving" /\ Single(IdOf[c]) => left[c] = subscriptions[IdOf[c]]

RemovedIsGone ==
  \A c \in Conns :
    pc[c] \in {"removed", "leaving", "gone", "new"} /\ Single(IdOf[c]) => users[IdOf[c]] = None

\* Whom the message is due for is open, and has it, has it coming, or cannot be
\* served any more.
DueIsServed ==
  \A c \in due :
    /\ pc[c] = "open"
    /\ c \in reached \/ todo[IdOf[c]] > 0 \/ ~ alive[c] \/ users[IdOf[c]] # c

SessionInv == MapsAgree /\ LeavingIsLeft /\ RemovedIsGone /\ NothingIsLeft

Inv == TypeOK /\ RecordedAreServed /\ SessionInv /\ DueIsServed
-----------------------------------------------------------------------------
(* The operations on the maps *)

MapsOK ==
  /\ entries \subseteq Ids
  /\ subscriptions \in [Ids -> SUBSET Streams]
  /\ reverse \in [Streams -> [Ids -> Nat]]
  /\ channels \subseteq Streams /\ pubsub \subseteq Streams

\* Subscribe adds one occurrence of u to s unless u has s, and nothing else.
LEMMA SubscribeMaps ==
  ASSUME MapsOK, NEW u \in Ids, NEW s \in Streams, Subscribe(u, s)
  PROVE  /\ MapsOK'
         /\ \A v \in Ids : subscriptions'[v] = IF v = u THEN subscriptions[v] \cup {s} ELSE subscriptions[v]
         /\ \A t \in Streams, v \in Ids :
              reverse'[t][v] = IF t = s /\ v = u /\ s \notin subscriptions[u]
                               THEN reverse[t][v] + 1 ELSE reverse[t][v]
         /\ \A v \in Ids : v \in entries' <=> v \in entries \/ (v = u /\ s \notin subscriptions[u])
<1>1. CASE s \in subscriptions[u]
  BY <1>1 DEF Subscribe, maps, MapsOK
<1>2. CASE s \notin subscriptions[u]
  <2> DEFINE row == [reverse[s] EXCEPT ![u] = reverse[s][u] + 1]
  <2>1. /\ entries' = entries \cup {u}
        /\ subscriptions' = [subscriptions EXCEPT ![u] = subscriptions[u] \cup {s}]
        /\ reverse' = [reverse EXCEPT ![s] = row]
        /\ channels' \subseteq channels \cup {s} /\ pubsub' \subseteq pubsub \cup {s}
    BY <1>2 DEF Subscribe
  <2>2. row \in [Ids -> Nat] /\ \A v \in Ids : row[v] = IF v = u THEN reverse[s][v] + 1 ELSE reverse[s][v]
    BY DEF MapsOK
  <2>3. reverse' \in [Streams -> [Ids -> Nat]]
        /\ \A t \in Streams : reverse'[t] = IF t = s THEN row ELSE reverse[t]
    <3> HIDE DEF row
    <3> QED
      BY <2>1, <2>2 DEF MapsOK
  <2>4. MapsOK'
    BY <2>1, <2>3 DEF MapsOK
  <2> HIDE DEF row
  <2> QED
    BY <1>2, <2>1, <2>2, <2>3, <2>4 DEF MapsOK
<1> QED
  BY <1>1, <1>2

\* Unsubscribe takes one occurrence of u off s, if there is one, and nothing else.
LEMMA UnsubscribeMaps ==
  ASSUME MapsOK, NEW u \in Ids, NEW s \in Streams, Unsubscribe(u, s)
  PROVE  /\ MapsOK'
         /\ \A v \in Ids : subscriptions'[v] = IF v = u THEN subscriptions[v] \ {s} ELSE subscriptions[v]
         /\ \A t \in Streams, v \in Ids :
              reverse'[t][v] = IF t = s /\ v = u /\ reverse[t][v] > 0
                               THEN reverse[t][v] - 1 ELSE reverse[t][v]
         /\ entries' = entries
<1> DEFINE row == [reverse[s] EXCEPT ![u] = IF reverse[s][u] > 0 THEN reverse[s][u] - 1 ELSE 0]
<1>1. /\ subscriptions' = [subscriptions EXCEPT ![u] = subscriptions[u] \ {s}]
      /\ reverse' = [reverse EXCEPT ![s] = row]
      /\ channels' \subseteq channels /\ pubsub' \subseteq pubsub
      /\ entries' = entries
  BY DEF Unsubscribe
<1>2. row \in [Ids -> Nat]
      /\ \A v \in Ids : row[v] = IF v = u /\ reverse[s][v] > 0 THEN reverse[s][v] - 1 ELSE reverse[s][v]
  BY DEF MapsOK
<1> HIDE DEF row
<1>3. reverse' \in [Streams -> [Ids -> Nat]]
      /\ \A t \in Streams : reverse'[t] = IF t = s THEN row ELSE reverse[t]
  BY <1>1, <1>2 DEF MapsOK
<1>4. MapsOK'
  BY <1>1, <1>3 DEF MapsOK
<1> QED
  BY <1>1, <1>2, <1>3, <1>4 DEF MapsOK
-----------------------------------------------------------------------------
(* What a step does to the maps *)

\* The maps change by Subscribe, by Unsubscribe, or by Forget.
LEMMA MapsStep ==
  ASSUME TypeOK, [Next]_vars
  PROVE  \/ UNCHANGED maps
         \/ \E u \in Ids, s \in Streams : Subscribe(u, s) \/ Unsubscribe(u, s)
         \/ \E c \in Conns : Forget(c)
<1> USE SubscriptionsAssumption DEF TypeOK, maps
<1>1. CASE \E c \in Conns : Connect(c) \/ Refuse(c) \/ Vanish(c)
  BY <1>1 DEF Connect, Refuse, Vanish
<1>2. CASE \E c \in Conns : Accept(c)
  BY <1>2 DEF Accept
<1>3. CASE \E c \in Conns : Read(c)
  BY <1>3 DEF Read
<1>4. CASE \E c \in Conns : Register(c) \/ ReadEnds(c) \/ RemoveUser(c) \/ Copy(c)
  BY <1>4 DEF Register, ReadEnds, RemoveUser, Copy
<1>5. CASE \E c \in Conns : Leave(c)
  BY <1>5 DEF Leave
<1>6. CASE (\E s \in Streams : Arrives(s)) \/ Fanout
  BY <1>6 DEF Arrives, Fanout, Emit, Dispatched
<1>7. CASE UNCHANGED vars
  BY <1>7 DEF vars
<1> QED
  BY <1>1, <1>2, <1>3, <1>4, <1>5, <1>6, <1>7 DEF Next, Serve

LEMMA MapsTypes ==
  ASSUME TypeOK, [Next]_vars
  PROVE  MapsOK'
<1>0. MapsOK
  BY DEF TypeOK, MapsOK
<1>1. CASE UNCHANGED maps
  BY <1>0, <1>1 DEF MapsOK, maps
<1>2. CASE \E u \in Ids, s \in Streams : Subscribe(u, s) \/ Unsubscribe(u, s)
  BY <1>0, <1>2, SubscribeMaps, UnsubscribeMaps
<1>3. CASE \E c \in Conns : Forget(c)
  BY <1>0, <1>3, SubscriptionsAssumption DEF Forget, MapsOK
<1> QED
  BY <1>1, <1>2, <1>3, MapsStep

LEMMA TypeStep ==
  ASSUME TypeOK, [Next]_vars
  PROVE  TypeOK'
<1> DEFINE rest ==
      /\ pc \in [Conns -> {"new", "accepted", "open", "closed", "removed", "leaving", "gone"}]
      /\ alive \in [Conns -> BOOLEAN]
      /\ left \in [Conns -> SUBSET Streams]
      /\ users \in [Ids -> Conns \cup {None}]
<1> DEFINE sent ==
      /\ dispatching \in BOOLEAN
      /\ todo \in [Ids -> Nat]
      /\ due \subseteq Conns /\ reached \subseteq Conns
<1>0. MapsOK'
  BY MapsTypes
<1>1. rest /\ sent /\ MapsOK
  BY DEF TypeOK, MapsOK
<1>2. rest'
  <2>1. CASE \E c \in Conns : Connect(c) \/ Refuse(c) \/ Vanish(c) \/ Accept(c) \/ Read(c)
    BY <1>1, <2>1 DEF Connect, Refuse, Vanish, Accept, Read
  <2>2. CASE \E c \in Conns : Register(c) \/ ReadEnds(c) \/ RemoveUser(c)
    BY <1>1, <2>2, SubscriptionsAssumption DEF Register, ReadEnds, RemoveUser
  <2>3. CASE \E c \in Conns : Copy(c) \/ Leave(c) \/ Forget(c)
    <3>1. PICK c \in Conns : Copy(c) \/ Leave(c) \/ Forget(c)
      BY <2>3
    <3>2. IdOf[c] \in Ids /\ subscriptions[IdOf[c]] \in SUBSET Streams
      BY <1>1, SubscriptionsAssumption DEF MapsOK
    <3>3. CASE Copy(c)
      BY <1>1, <3>2, <3>3 DEF Copy
    <3>4. CASE Leave(c)
      BY <1>1, <3>4 DEF Leave
    <3>5. CASE Forget(c)
      BY <1>1, <3>5 DEF Forget
    <3> QED
      BY <3>1, <3>3, <3>4, <3>5
  <2>4. CASE (\E s \in Streams : Arrives(s)) \/ Fanout
    BY <1>1, <2>4 DEF Arrives, Fanout, Emit, Dispatched
  <2>5. CASE UNCHANGED vars
    BY <1>1, <2>5 DEF vars
  <2> QED
    BY <2>1, <2>2, <2>3, <2>4, <2>5 DEF Next, Serve
<1>3. sent'
  <2>1. CASE \E c \in Conns : Connect(c) \/ Refuse(c) \/ Vanish(c) \/ Accept(c) \/ Read(c)
    BY <1>1, <2>1 DEF Connect, Refuse, Vanish, Accept, Read, dispatch
  <2>2. CASE \E c \in Conns : Serve(c)
    BY <1>1, <2>2 DEF Serve, Register, ReadEnds, RemoveUser, Copy, Leave, Forget, dispatch
  <2>3. CASE \E s \in Streams : Arrives(s)
    BY <1>1, <2>3 DEF Arrives, Audience, MapsOK
  <2>4. CASE \E u \in Ids : Emit(u)
    BY <1>1, <2>4 DEF Emit
  <2>5. CASE Dispatched
    BY <1>1, <2>5 DEF Dispatched
  <2>6. CASE UNCHANGED vars
    BY <1>1, <2>6 DEF vars, dispatch
  <2> QED
    BY <2>1, <2>2, <2>3, <2>4, <2>5, <2>6 DEF Next, Fanout
<1> QED
  BY <1>0, <1>2, <1>3 DEF TypeOK, MapsOK
-----------------------------------------------------------------------------
(* Recorded subscribers are served *)

\* Whoever has a stream in the one map is in the other.
Found == \A u \in Ids : \A s \in subscriptions[u] : reverse[s][u] > 0

\* Redis sends what is wanted.
Heard == \A s \in Streams : (s \in pubsub <=> Wanted(s)) /\ (s \in channels <=> Wanted(s))

\* Who has no entry has no subscription.
Entered == \A u \in Ids \ entries : subscriptions[u] = {}

LEMMA ServedParts == RecordedAreServed <=> Found /\ Heard /\ Entered
  BY DEF RecordedAreServed, Found, Heard, Entered

LEMMA SubscribeServed ==
  ASSUME MapsOK, Found, Heard, Entered, NEW u \in Ids, NEW s \in Streams, Subscribe(u, s)
  PROVE  Found' /\ Heard' /\ Entered'
<1>1. CASE s \in subscriptions[u]
  BY <1>1 DEF Subscribe, maps, Found, Heard, Entered, Wanted
<1>2. CASE s \notin subscriptions[u]
  <2>1. /\ MapsOK'
        /\ \A v \in Ids : subscriptions'[v] = IF v = u THEN subscriptions[v] \cup {s} ELSE subscriptions[v]
        /\ \A t \in Streams, v \in Ids :
             reverse'[t][v] = IF t = s /\ v = u THEN reverse[t][v] + 1 ELSE reverse[t][v]
        /\ \A v \in Ids : v \in entries' <=> v \in entries \/ v = u
    BY <1>2, SubscribeMaps
  <2>2. \A t \in Streams, v \in Ids : reverse[t][v] \in Nat
    BY DEF MapsOK
  <2>3. \A v \in Ids : subscriptions[v] \subseteq Streams
    BY DEF MapsOK
  <2>4. Found'
    <3> SUFFICES ASSUME NEW v \in Ids, NEW t \in subscriptions'[v]
                 PROVE  reverse'[t][v] > 0
      BY DEF Found
    <3>1. t \in Streams /\ (t \in subscriptions[v] \/ (t = s /\ v = u))
      BY <2>1, <2>3
    <3>2. reverse[t][v] \in Nat /\ (t \in subscriptions[v] => reverse[t][v] > 0)
      BY <2>2, <3>1 DEF Found
    <3> QED
      BY <2>1, <3>1, <3>2
  <2>5. \A t \in Streams : t # s => (Wanted(t)' <=> Wanted(t))
    BY <2>1 DEF Wanted
  <2>6. Wanted(s)'
    BY <2>1, <2>2 DEF Wanted
  <2>7. s \in channels' /\ s \in pubsub'
        /\ \A t \in Streams : t # s => (t \in channels' <=> t \in channels) /\ (t \in pubsub' <=> t \in pubsub)
    <3>1. CASE (\A v \in Ids : reverse[s][v] = 0) /\ s \notin channels
      BY <1>2, <3>1 DEF Subscribe
    <3>2. CASE ~ ((\A v \in Ids : reverse[s][v] = 0) /\ s \notin channels)
      <4>1. channels' = channels /\ pubsub' = pubsub
        BY <1>2, <3>2 DEF Subscribe
      <4>2. Wanted(s)
        BY <2>2, <3>2 DEF Wanted, Heard
      <4> QED
        BY <4>1, <4>2 DEF Heard
    <3> QED
      BY <3>1, <3>2
  <2>8. Heard'
    BY <2>5, <2>6, <2>7 DEF Heard
  <2>9. Entered'
    BY <2>1 DEF Entered
  <2> QED
    BY <2>4, <2>8, <2>9
<1> QED
  BY <1>1, <1>2

LEMMA UnsubscribeServed ==
  ASSUME MapsOK, Found, Heard, Entered, NEW u \in Ids, NEW s \in Streams, Unsubscribe(u, s)
  PROVE  Found' /\ Heard' /\ Entered'
<1>1. /\ MapsOK'
      /\ \A v \in Ids : subscriptions'[v] = IF v = u THEN subscriptions[v] \ {s} ELSE subscriptions[v]
      /\ \A t \in Streams, v \in Ids :
           reverse'[t][v] = IF t = s /\ v = u /\ reverse[t][v] > 0
                            THEN reverse[t][v] - 1 ELSE reverse[t][v]
      /\ entries' = entries
  BY UnsubscribeMaps
<1>2. \A t \in Streams, v \in Ids : reverse[t][v] \in Nat /\ reverse'[t][v] \in Nat
  BY <1>1 DEF MapsOK
<1>3. \A v \in Ids : subscriptions[v] \subseteq Streams
  BY DEF MapsOK
<1>4. Found'
  <2> SUFFICES ASSUME NEW v \in Ids, NEW t \in subscriptions'[v]
               PROVE  reverse'[t][v] > 0
    BY DEF Found
  <2>1. t \in Streams /\ t \in subscriptions[v] /\ ~ (t = s /\ v = u)
    BY <1>1, <1>3
  <2> QED
    BY <1>1, <2>1 DEF Found
<1>5. \A t \in Streams : t # s => (Wanted(t)' <=> Wanted(t))
  BY <1>1 DEF Wanted
<1>6. Wanted(s)' => Wanted(s)
  BY <1>1, <1>2 DEF Wanted
<1>7. CASE Wanted(s) /\ ~ Wanted(s)'
  <2>1. (\E v \in Ids : reverse[s][v] > 0) /\ (\A v \in Ids : reverse'[s][v] = 0)
    BY <1>2, <1>7 DEF Wanted
  <2>2. channels' = channels \ {s} /\ pubsub' = pubsub \ {s}
    BY <2>1 DEF Unsubscribe
  <2>3. Heard'
    BY <1>5, <1>7, <2>2 DEF Heard
  <2> QED
    BY <1>1, <1>4, <2>3 DEF Entered
<1>8. CASE ~ (Wanted(s) /\ ~ Wanted(s)')
  <2>1. ~ ((\E v \in Ids : reverse[s][v] > 0) /\ (\A v \in Ids : reverse'[s][v] = 0))
    BY <1>2, <1>8 DEF Wanted
  <2>2. channels' = channels /\ pubsub' = pubsub
    BY <2>1 DEF Unsubscribe
  <2>3. Heard'
    BY <1>5, <1>6, <1>8, <2>2 DEF Heard
  <2> QED
    BY <1>1, <1>4, <2>3 DEF Entered
<1> QED
  BY <1>7, <1>8

LEMMA ServedStep ==
  ASSUME TypeOK, RecordedAreServed, [Next]_vars
  PROVE  RecordedAreServed'
<1>1. MapsOK /\ Found /\ Heard /\ Entered
  BY ServedParts DEF TypeOK, MapsOK
<1>2. CASE UNCHANGED maps
  BY <1>2 DEF maps, RecordedAreServed, Wanted
<1>3. CASE \E u \in Ids, s \in Streams : Subscribe(u, s) \/ Unsubscribe(u, s)
  <2>1. Found' /\ Heard' /\ Entered'
    BY <1>1, <1>3, SubscribeServed, UnsubscribeServed
  <2> QED
    BY <2>1 DEF RecordedAreServed, Found, Heard, Entered
<1>4. CASE \E c \in Conns : Forget(c)
  <2>1. PICK c \in Conns : Forget(c)
    BY <1>4
  <2>2. IdOf[c] \in Ids
    BY SubscriptionsAssumption
  <2>3. /\ \A v \in Ids : subscriptions'[v] = IF v = IdOf[c] THEN {} ELSE subscriptions[v]
        /\ entries' = entries \ {IdOf[c]}
        /\ UNCHANGED <<reverse, channels, pubsub>>
    BY <1>1, <2>1, <2>2 DEF Forget, MapsOK
  <2>4. Found' /\ Heard' /\ Entered'
    BY <1>1, <2>3 DEF Found, Heard, Entered, Wanted
  <2> QED
    BY <2>4 DEF RecordedAreServed, Found, Heard, Entered
<1> QED
  BY <1>2, <1>3, <1>4, MapsStep
-----------------------------------------------------------------------------
(* One session under an id *)

\* Only the goroutine of c touches what is kept under the id of c, if no other
\* connection goes by that id.
LEMMA OthersKeepOff ==
  ASSUME TypeOK, [Next]_vars, NEW c \in Conns, Single(IdOf[c]), pc'[c] = pc[c], pc[c] # "open",
         left'[c] = left[c]
  PROVE  /\ subscriptions'[IdOf[c]] = subscriptions[IdOf[c]]
         /\ users'[IdOf[c]] = users[IdOf[c]]
         /\ IdOf[c] \in entries' <=> IdOf[c] \in entries
         /\ \A s \in Streams : reverse'[s][IdOf[c]] = reverse[s][IdOf[c]]
<1>0. MapsOK
  BY DEF TypeOK, MapsOK
<1>1. /\ IdOf \in [Conns -> Ids] /\ OwnStream \in [Ids -> Streams]
      /\ pc \in [Conns -> {"new", "accepted", "open", "closed", "removed", "leaving", "gone"}]
      /\ left \in [Conns -> SUBSET Streams]
      /\ users \in [Ids -> Conns \cup {None}]
  BY SubscriptionsAssumption DEF TypeOK
<1>2. ASSUME NEW u \in Ids, u # IdOf[c], NEW s \in Streams, Subscribe(u, s) \/ Unsubscribe(u, s)
      PROVE  /\ subscriptions'[IdOf[c]] = subscriptions[IdOf[c]]
             /\ IdOf[c] \in entries' <=> IdOf[c] \in entries
             /\ \A t \in Streams : reverse'[t][IdOf[c]] = reverse[t][IdOf[c]]
  <2>0. IdOf[c] \in Ids
    BY <1>1
  <2>1. CASE Subscribe(u, s)
    <3>1. /\ \A v \in Ids : subscriptions'[v] = IF v = u THEN subscriptions[v] \cup {s} ELSE subscriptions[v]
          /\ \A t \in Streams, v \in Ids :
               reverse'[t][v] = IF t = s /\ v = u /\ s \notin subscriptions[u]
                                THEN reverse[t][v] + 1 ELSE reverse[t][v]
          /\ \A v \in Ids : v \in entries' <=> v \in entries \/ (v = u /\ s \notin subscriptions[u])
      BY <1>0, <2>1, SubscribeMaps
    <3> QED
      BY <1>2, <2>0, <3>1
  <2>2. CASE Unsubscribe(u, s)
    <3>1. /\ \A v \in Ids : subscriptions'[v] = IF v = u THEN subscriptions[v] \ {s} ELSE subscriptions[v]
          /\ \A t \in Streams, v \in Ids :
               reverse'[t][v] = IF t = s /\ v = u /\ reverse[t][v] > 0
                                THEN reverse[t][v] - 1 ELSE reverse[t][v]
          /\ entries' = entries
      BY <1>0, <2>2, UnsubscribeMaps
    <3> QED
      BY <1>2, <2>0, <3>1
  <2> QED
    BY <1>2, <2>1, <2>2
<1>3. ASSUME NEW d \in Conns,
             Connect(d) \/ Refuse(d) \/ Accept(d) \/ Read(d) \/ Vanish(d) \/ Serve(d)
      PROVE  UNCHANGED <<maps, users>> \/ IdOf[d] # IdOf[c]
  <2>1. CASE d # c
    BY <2>1 DEF Single
  <2>2. CASE d = c
    <3>1. ~ Accept(d) /\ ~ Read(d) /\ ~ Register(d) /\ ~ RemoveUser(d) /\ ~ Forget(d)
      BY <1>1, <2>2 DEF Accept, Read, Register, RemoveUser, Forget
    <3>2. ~ Leave(d)
      BY <1>1, <2>2 DEF Leave
    <3> QED
      BY <1>3, <3>1, <3>2 DEF Connect, Refuse, Vanish, Serve, ReadEnds, Copy
  <2> QED
    BY <2>1, <2>2
<1>4. CASE \E d \in Conns : Connect(d) \/ Refuse(d) \/ Accept(d) \/ Read(d) \/ Vanish(d) \/ Serve(d)
  <2>1. PICK d \in Conns : Connect(d) \/ Refuse(d) \/ Accept(d) \/ Read(d) \/ Vanish(d) \/ Serve(d)
    BY <1>4
  <2>2. CASE UNCHANGED <<maps, users>>
    BY <2>2 DEF maps
  <2>3. CASE IdOf[d] # IdOf[c]
    <3>1. CASE Connect(d) \/ Refuse(d) \/ Vanish(d) \/ ReadEnds(d) \/ Copy(d)
      BY <3>1 DEF Connect, Refuse, Vanish, ReadEnds, Copy, maps
    <3>2. CASE Register(d) \/ RemoveUser(d)
      BY <1>1, <2>3, <3>2 DEF Register, RemoveUser, maps
    <3>3. CASE Accept(d)
      BY <1>1, <1>2, <2>3, <3>3 DEF Accept
    <3>4. CASE Read(d)
      BY <1>1, <1>2, <2>3, <3>4 DEF Read
    <3>5. CASE Leave(d)
      BY <1>1, <1>2, <2>3, <3>5 DEF Leave
    <3>6. CASE Forget(d)
      BY <1>0, <1>1, <2>3, <3>6 DEF Forget, MapsOK
    <3> QED
      BY <2>1, <3>1, <3>2, <3>3, <3>4, <3>5, <3>6 DEF Serve
  <2> QED
    BY <1>3, <2>1, <2>2, <2>3
<1>5. CASE (\E s \in Streams : Arrives(s)) \/ Fanout
  BY <1>5 DEF Arrives, Fanout, Emit, Dispatched, maps
<1>6. CASE UNCHANGED vars
  BY <1>6 DEF vars, maps
<1> QED
  BY <1>4, <1>5, <1>6 DEF Next

\* A connection's place in the code changes by its own goroutine only.
LEMMA WhoMoves ==
  ASSUME TypeOK, [Next]_vars, NEW c \in Conns
  PROVE  \/ pc'[c] = pc[c] /\ left'[c] = left[c]
         \/ Connect(c) \/ Refuse(c) \/ Accept(c) \/ Serve(c)
<1>1. /\ pc \in [Conns -> {"new", "accepted", "open", "closed", "removed", "leaving", "gone"}]
      /\ left \in [Conns -> SUBSET Streams]
  BY DEF TypeOK
<1>2. CASE \E d \in Conns : Connect(d) \/ Refuse(d) \/ Accept(d)
  BY <1>1, <1>2 DEF Connect, Refuse, Accept
<1>3. CASE \E d \in Conns : Read(d) \/ Vanish(d)
  BY <1>3 DEF Read, Vanish
<1>4. CASE \E d \in Conns : Serve(d)
  <2>1. PICK d \in Conns : Serve(d)
    BY <1>4
  <2>2. CASE d = c
    BY <2>1, <2>2
  <2>3. CASE d # c
    BY <1>1, <2>1, <2>3 DEF Serve, Register, ReadEnds, RemoveUser, Copy, Leave, Forget
  <2> QED
    BY <2>2, <2>3
<1>5. CASE (\E s \in Streams : Arrives(s)) \/ Fanout
  BY <1>5 DEF Arrives, Fanout, Emit, Dispatched
<1>6. CASE UNCHANGED vars
  BY <1>6 DEF vars
<1> QED
  BY <1>2, <1>3, <1>4, <1>5, <1>6 DEF Next

LEMMA AgreeStep ==
  ASSUME TypeOK, MapsAgree, LeavingIsLeft, [Next]_vars
  PROVE  MapsAgree'
<1>0. MapsOK /\ IdOf \in [Conns -> Ids]
  BY SubscriptionsAssumption DEF TypeOK, MapsOK
<1>1. CASE UNCHANGED maps
  BY <1>1 DEF maps, MapsAgree
<1>2. ASSUME NEW u \in Ids, NEW s \in Streams, Subscribe(u, s)
      PROVE  MapsAgree'
  <2>1. /\ \A v \in Ids : subscriptions'[v] = IF v = u THEN subscriptions[v] \cup {s} ELSE subscriptions[v]
        /\ \A t \in Streams, v \in Ids :
             reverse'[t][v] = IF t = s /\ v = u /\ s \notin subscriptions[u]
                              THEN reverse[t][v] + 1 ELSE reverse[t][v]
    BY <1>0, <1>2, SubscribeMaps
  <2> SUFFICES ASSUME NEW v \in Ids, NEW t \in Streams, Single(v)
               PROVE  reverse'[t][v] = IF t \in subscriptions'[v] THEN 1 ELSE 0
    BY DEF MapsAgree
  <2>2. reverse[t][v] = IF t \in subscriptions[v] THEN 1 ELSE 0
    BY DEF MapsAgree
  <2>3. t \in subscriptions'[v] <=> t \in subscriptions[v] \/ (t = s /\ v = u)
    BY <2>1
  <2>4. CASE t = s /\ v = u
    BY <2>1, <2>2, <2>3, <2>4
  <2>5. CASE ~ (t = s /\ v = u)
    BY <2>1, <2>2, <2>3, <2>5
  <2> QED
    BY <2>4, <2>5
<1>3. ASSUME NEW u \in Ids, NEW s \in Streams, Unsubscribe(u, s)
      PROVE  MapsAgree'
  <2>1. /\ \A v \in Ids : subscriptions'[v] = IF v = u THEN subscriptions[v] \ {s} ELSE subscriptions[v]
        /\ \A t \in Streams, v \in Ids :
             reverse'[t][v] = IF t = s /\ v = u /\ reverse[t][v] > 0
                              THEN reverse[t][v] - 1 ELSE reverse[t][v]
    BY <1>0, <1>3, UnsubscribeMaps
  <2> SUFFICES ASSUME NEW v \in Ids, NEW t \in Streams, Single(v)
               PROVE  reverse'[t][v] = IF t \in subscriptions'[v] THEN 1 ELSE 0
    BY DEF MapsAgree
  <2>2. reverse[t][v] = IF t \in subscriptions[v] THEN 1 ELSE 0
    BY DEF MapsAgree
  <2>3. t \in subscriptions'[v] <=> t \in subscriptions[v] /\ ~ (t = s /\ v = u)
    BY <2>1
  <2>4. CASE t = s /\ v = u
    BY <2>1, <2>2, <2>3, <2>4
  <2>5. CASE ~ (t = s /\ v = u)
    BY <2>1, <2>2, <2>3, <2>5
  <2> QED
    BY <2>4, <2>5
<1>4. ASSUME NEW c \in Conns, Forget(c)
      PROVE  MapsAgree'
  <2>1. IdOf[c] \in Ids /\ UNCHANGED reverse /\ pc[c] = "leaving" /\ left[c] = {}
        /\ \A v \in Ids : subscriptions'[v] = IF v = IdOf[c] THEN {} ELSE subscriptions[v]
    BY <1>0, <1>4 DEF Forget, MapsOK
  <2>2. Single(IdOf[c]) => subscriptions[IdOf[c]] = {}
    BY <2>1 DEF LeavingIsLeft
  <2>3. \A v \in Ids : Single(v) => subscriptions'[v] = subscriptions[v]
    BY <2>1, <2>2
  <2> QED
    BY <2>1, <2>3 DEF MapsAgree
<1> QED
  BY <1>1, <1>2, <1>3, <1>4, MapsStep

LEMMA LeavingStep ==
  ASSUME TypeOK, LeavingIsLeft, [Next]_vars
  PROVE  LeavingIsLeft'
<1>0. MapsOK /\ IdOf \in [Conns -> Ids]
      /\ pc \in [Conns -> {"new", "accepted", "open", "closed", "removed", "leaving", "gone"}]
      /\ left \in [Conns -> SUBSET Streams]
  BY SubscriptionsAssumption DEF TypeOK, MapsOK
<1> SUFFICES ASSUME NEW c \in Conns, pc'[c] = "leaving", Single(IdOf[c])
             PROVE  left'[c] = subscriptions'[IdOf[c]]
  BY DEF LeavingIsLeft
<1>1. CASE pc'[c] = pc[c] /\ left'[c] = left[c]
  <2>1. subscriptions'[IdOf[c]] = subscriptions[IdOf[c]]
    BY <1>1, OthersKeepOff
  <2> QED
    BY <1>1, <2>1 DEF LeavingIsLeft
<1>2. CASE Connect(c) \/ Refuse(c) \/ Accept(c)
  BY <1>0, <1>2 DEF Connect, Refuse, Accept
<1>3. CASE Register(c) \/ ReadEnds(c) \/ RemoveUser(c) \/ Forget(c)
  BY <1>0, <1>3 DEF Register, ReadEnds, RemoveUser, Forget
<1>4. CASE Copy(c)
  BY <1>0, <1>4 DEF Copy, maps
<1>5. CASE Leave(c)
  <2>1. PICK s \in left[c] : Unsubscribe(IdOf[c], s) /\ left' = [left EXCEPT ![c] = left[c] \ {s}]
    BY <1>5 DEF Leave
  <2>2. s \in Streams /\ IdOf[c] \in Ids /\ left'[c] = left[c] \ {s} /\ pc[c] = "leaving"
    BY <1>0, <1>5, <2>1 DEF Leave
  <2>3. subscriptions'[IdOf[c]] = subscriptions[IdOf[c]] \ {s}
    BY <1>0, <2>1, <2>2, UnsubscribeMaps
  <2> QED
    BY <2>2, <2>3 DEF LeavingIsLeft
<1> QED
  BY <1>1, <1>2, <1>3, <1>4, <1>5, WhoMoves DEF Serve

LEMMA RemovedStep ==
  ASSUME TypeOK, RemovedIsGone, [Next]_vars
  PROVE  RemovedIsGone'
<1>0. IdOf \in [Conns -> Ids] /\ users \in [Ids -> Conns \cup {None}]
      /\ pc \in [Conns -> {"new", "accepted", "open", "closed", "removed", "leaving", "gone"}]
  BY SubscriptionsAssumption DEF TypeOK
<1> SUFFICES ASSUME NEW c \in Conns, pc'[c] \in {"removed", "leaving", "gone", "new"}, Single(IdOf[c])
             PROVE  users'[IdOf[c]] = None
  BY DEF RemovedIsGone
<1>1. CASE pc'[c] = pc[c] /\ left'[c] = left[c]
  <2>1. users'[IdOf[c]] = users[IdOf[c]]
    BY <1>1, OthersKeepOff
  <2> QED
    BY <1>1, <2>1 DEF RemovedIsGone
<1>2. CASE Connect(c) \/ Refuse(c) \/ Copy(c) \/ Leave(c) \/ Forget(c)
  BY <1>2 DEF Connect, Refuse, Copy, Leave, Forget, RemovedIsGone
<1>3. CASE Accept(c) \/ Register(c) \/ ReadEnds(c)
  BY <1>0, <1>3 DEF Accept, Register, ReadEnds
<1>4. CASE RemoveUser(c)
  BY <1>0, <1>4 DEF RemoveUser
<1> QED
  BY <1>1, <1>2, <1>3, <1>4, WhoMoves DEF Serve

LEMMA NothingStep ==
  ASSUME TypeOK, SessionInv, [Next]_vars
  PROVE  NothingIsLeft'
<1>0. IdOf \in [Conns -> Ids] /\ MapsOK
      /\ pc \in [Conns -> {"new", "accepted", "open", "closed", "removed", "leaving", "gone"}]
  BY SubscriptionsAssumption DEF TypeOK, MapsOK
<1> SUFFICES ASSUME NEW c \in Conns, pc'[c] \in {"gone", "new"}, Single(IdOf[c])
             PROVE  /\ users'[IdOf[c]] = None /\ IdOf[c] \notin entries'
                    /\ \A s \in Streams : reverse'[s][IdOf[c]] = 0
  BY DEF NothingIsLeft
<1>1. CASE pc'[c] = pc[c] /\ left'[c] = left[c]
  <2>1. /\ users'[IdOf[c]] = users[IdOf[c]]
        /\ IdOf[c] \in entries' <=> IdOf[c] \in entries
        /\ \A s \in Streams : reverse'[s][IdOf[c]] = reverse[s][IdOf[c]]
    BY <1>1, OthersKeepOff
  <2> QED
    BY <1>1, <2>1 DEF SessionInv, NothingIsLeft
<1>2. CASE Connect(c) \/ Refuse(c)
  BY <1>2 DEF Connect, Refuse, maps, SessionInv, NothingIsLeft
<1>3. CASE Accept(c) \/ Register(c) \/ ReadEnds(c) \/ RemoveUser(c) \/ Copy(c)
  BY <1>0, <1>3 DEF Accept, Register, ReadEnds, RemoveUser, Copy
<1>4. CASE Leave(c)
  BY <1>4 DEF Leave
<1>5. CASE Forget(c)
  <2>1. pc[c] = "leaving" /\ subscriptions[IdOf[c]] = {} /\ users[IdOf[c]] = None
    BY <1>5 DEF Forget, SessionInv, LeavingIsLeft, RemovedIsGone
  <2>2. \A s \in Streams : reverse[s][IdOf[c]] = 0
    BY <1>0, <2>1 DEF SessionInv, MapsAgree
  <2> QED
    BY <1>5, <2>1, <2>2 DEF Forget
<1> QED
  BY <1>1, <1>2, <1>3, <1>4, <1>5, WhoMoves DEF Serve
-----------------------------------------------------------------------------
(* The fan-out *)

LEMMA DueStep ==
  ASSUME TypeOK, RecordedAreServed, DueIsServed, [Next]_vars
  PROVE  DueIsServed'
<1>0. /\ IdOf \in [Conns -> Ids] /\ None \notin Conns /\ MapsOK
      /\ pc \in [Conns -> {"new", "accepted", "open", "closed", "removed", "leaving", "gone"}]
      /\ alive \in [Conns -> BOOLEAN]
      /\ users \in [Ids -> Conns \cup {None}]
      /\ todo \in [Ids -> Nat]
      /\ due \subseteq Conns
  BY SubscriptionsAssumption DEF TypeOK, MapsOK
<1>1. CASE \E d \in Conns : Connect(d) \/ Refuse(d) \/ Accept(d) \/ Read(d) \/ Vanish(d)
  BY <1>0, <1>1 DEF Connect, Refuse, Accept, Read, Vanish, dispatch, DueIsServed
<1>2. CASE \E d \in Conns : Serve(d)
  <2>1. PICK d \in Conns : Serve(d)
    BY <1>2
  <2>2. CASE ReadEnds(d)
    BY <1>0, <2>2 DEF ReadEnds, DueIsServed
  <2>3. CASE Register(d) \/ RemoveUser(d)
    BY <1>0, <2>3 DEF Register, RemoveUser, dispatch, DueIsServed
  <2>4. CASE Copy(d) \/ Leave(d) \/ Forget(d)
    BY <1>0, <2>4 DEF Copy, Leave, Forget, dispatch, DueIsServed
  <2> QED
    BY <2>1, <2>2, <2>3, <2>4 DEF Serve
<1>3. CASE \E s \in Streams : Arrives(s)
  <2>1. PICK s \in Streams : Arrives(s)
    BY <1>3
  <2>2. \A c \in Audience(s) : pc[c] = "open" /\ reverse[s][IdOf[c]] > 0
    BY <1>0 DEF Audience, RecordedAreServed
  <2> QED
    BY <2>1, <2>2 DEF Arrives, DueIsServed
<1>4. CASE \E u \in Ids : Emit(u)
  <2>1. PICK u \in Ids : Emit(u)
    BY <1>4
  <2> SUFFICES ASSUME NEW c \in due'
               PROVE  /\ pc'[c] = "open"
                      /\ c \in reached' \/ todo'[IdOf[c]] > 0 \/ ~ alive'[c] \/ users'[IdOf[c]] # c
    BY DEF DueIsServed
  <2>2. /\ c \in due /\ c \in Conns /\ UNCHANGED <<pc, alive, users>>
        /\ reached \subseteq reached'
        /\ \A v \in Ids : v # u => todo'[v] = todo[v]
    BY <1>0, <2>1 DEF Emit
  <2>3. CASE IdOf[c] # u
    BY <1>0, <2>2, <2>3 DEF DueIsServed
  <2>4. CASE IdOf[c] = u
    <3>1. users[u] = c /\ alive[c] => c \in reached'
      BY <1>0, <2>1, <2>2 DEF Emit
    <3> QED
      BY <2>2, <2>4, <3>1 DEF DueIsServed
  <2> QED
    BY <2>3, <2>4
<1>5. CASE Dispatched
  BY <1>5 DEF Dispatched, DueIsServed
<1>6. CASE UNCHANGED vars
  BY <1>6 DEF vars, dispatch, DueIsServed
<1> QED
  BY <1>1, <1>2, <1>3, <1>4, <1>5, <1>6 DEF Next, Fanout
-----------------------------------------------------------------------------
LEMMA InvInit == Init => Inv
<1> SUFFICES ASSUME Init
             PROVE  Inv
  OBVIOUS
<1>1. TypeOK
  BY SubscriptionsAssumption DEF Init, TypeOK
<1>2. RecordedAreServed
  BY DEF Init, RecordedAreServed, Wanted
<1>3. SessionInv
  BY SubscriptionsAssumption DEF Init, SessionInv, MapsAgree, LeavingIsLeft, RemovedIsGone, NothingIsLeft
<1>4. DueIsServed
  BY DEF Init, DueIsServed
<1> QED
  BY <1>1, <1>2, <1>3, <1>4 DEF Inv

LEMMA InvStep == Inv /\ [Next]_vars => Inv'
  BY TypeStep, ServedStep, AgreeStep, LeavingStep, RemovedStep, NothingStep, DueStep
  DEF Inv, SessionInv

LEMMA Invariance == Spec => []Inv
  BY InvInit, InvStep, PTL DEF Spec

\* The variables have their types.
THEOREM SubscriptionTypes == Spec => []TypeOK
<1>1. Inv => TypeOK
  BY DEF Inv
<1> QED
  BY <1>1, Invariance, PTL

\* Recorded subscribers are found by the fan-out and Redis sends what somebody is
\* found for, also with several sessions under one id.
THEOREM SubscribersAreServed == Spec => []RecordedAreServed
<1>1. Inv => RecordedAreServed
  BY DEF Inv
<1> QED
  BY <1>1, Invariance, PTL

\* For an id with one session the two maps agree.
THEOREM MapsStayInStep == Spec => []MapsAgree
<1>1. Inv => MapsAgree
  BY DEF Inv, SessionInv
<1> QED
  BY <1>1, Invariance, PTL

\* Of a single session that is over nothing is left in the service.
THEOREM GoneLeavesNothing == Spec => []NothingIsLeft
<1>1. Inv => NothingIsLeft
  BY DEF Inv, SessionInv
<1> QED
  BY <1>1, Invariance, PTL

\* A message reaches every open subscriber whose id is still its own.
THEOREM FanoutIsComplete == Spec => []MessageReachesAll
<1>1. Inv => MessageReachesAll
  <2> SUFFICES ASSUME Inv, \A u \in Ids : todo[u] = 0, NEW c \in due
               PROVE  c \in reached \/ ~ alive[c] \/ users[IdOf[c]] # c
    BY DEF MessageReachesAll
  <2>1. IdOf[c] \in Ids
    BY SubscriptionsAssumption DEF Inv, TypeOK
  <2> QED
    BY <2>1 DEF Inv, DueIsServed
<1> QED
  BY <1>1, Invariance, PTL
=============================================================================
