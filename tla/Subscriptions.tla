--------------------------- MODULE Subscriptions ----------------------------
(***************************************************************************)
(* The WebSocket service: who is connected, who wants which stream, what   *)
(* the service has Redis send it, and the fan-out of a message.            *)
(*                                                                         *)
(* Each connection has a read loop of its own; one goroutine dispatches    *)
(* what Redis sends.  They share the users map and the two subscription    *)
(* maps, each behind its mutex, one operation at a time.  A connection is  *)
(* known by an id: the user's when it has a token, else a fresh one.       *)
(***************************************************************************)
EXTENDS Integers

CONSTANTS
  Conns,     \* the connections there may be at a time
  Ids,       \* the ids they go by
  IdOf,      \* IdOf[c]: the id of connection c
  Streams,   \* what can be subscribed to
  OwnStream, \* OwnStream[u]: "trades:" and the id, subscribed on connecting
  None       \* no connection: GetUser returns nil

ASSUME SubscriptionsAssumption ==
  /\ IdOf \in [Conns -> Ids]
  /\ OwnStream \in [Ids -> Streams]
  /\ None \notin Conns

VARIABLES
  pc,             \* pc[c]: where the goroutine of c is
  alive,          \* alive[c]: the browser at the other end is there and reads
  left,           \* left[c]: what UserLeft has copied and not yet unsubscribed
  users,          \* the users map: the connection under each id, if any
  entries,        \* the ids that have an entry in subscriptions
  subscriptions,  \* subscriptions[u]: the streams recorded there
  reverse,        \* reverse[s][u]: how often u stands in reverseSubscriptions[s]
  channels,       \* subscribedChannels
  pubsub,         \* the channels Redis sends
  dispatching,    \* redisCallbackHandler is at a message
  todo,           \* todo[u]: emits to u still to come
  due,            \* the connections that should see the message
  reached         \* those it was written to

maps     == <<entries, subscriptions, reverse, channels, pubsub>>
dispatch == <<dispatching, todo, due, reached>>
vars     == <<pc, alive, left, users, maps, dispatch>>
-----------------------------------------------------------------------------
(* The subscription manager *)

\* Mutant: no look at what the user has already.
SubscribeAgain(u, s) ==
  /\ entries' = entries \cup {u}
  /\ subscriptions' = [subscriptions EXCEPT ![u] = @ \cup {s}]
  /\ reverse' = [reverse EXCEPT ![s][u] = @ + 1]
  /\ channels' = channels \cup {s}
  /\ pubsub' = pubsub \cup {s}

\* Subscribe: nothing if the user has the stream; the first subscriber of a
\* stream has Redis send it.
Subscribe(u, s) ==
  IF s \in subscriptions[u] THEN UNCHANGED maps
  ELSE LET first == \A v \in Ids : reverse[s][v] = 0 IN
       /\ entries' = entries \cup {u}
       /\ subscriptions' = [subscriptions EXCEPT ![u] = @ \cup {s}]
       /\ reverse' = [reverse EXCEPT ![s][u] = @ + 1]
       /\ IF first /\ s \notin channels
            THEN channels' = channels \cup {s} /\ pubsub' = pubsub \cup {s}
            ELSE UNCHANGED <<channels, pubsub>>

\* Mutant: the stream is closed when its first subscriber goes.
UnsubscribeForAll(u, s) ==
  /\ subscriptions' = [subscriptions EXCEPT ![u] = @ \ {s}]
  /\ reverse' = [reverse EXCEPT ![s][u] = IF @ > 0 THEN @ - 1 ELSE 0]
  /\ channels' = channels \ {s} /\ pubsub' = pubsub \ {s}
  /\ UNCHANGED entries

\* Mutant: the user is taken off the stream without being looked for.
UnsubscribeBlindly(u, s) ==
  /\ subscriptions' = [subscriptions EXCEPT ![u] = @ \ {s}]
  /\ reverse' = [reverse EXCEPT ![s][u] = @ - 1]
  /\ IF (\E v \in Ids : reverse[s][v] > 0) /\ (\A v \in Ids : reverse'[s][v] = 0)
       THEN channels' = channels \ {s} /\ pubsub' = pubsub \ {s}
       ELSE UNCHANGED <<channels, pubsub>>
  /\ UNCHANGED entries

\* Unsubscribe: out of both maps, wherever it is; the last subscriber of a
\* stream has Redis stop.  The entry stays, empty or not.
Unsubscribe(u, s) ==
  /\ subscriptions' = [subscriptions EXCEPT ![u] = @ \ {s}]
  /\ reverse' = [reverse EXCEPT ![s][u] = IF @ > 0 THEN @ - 1 ELSE 0]
  /\ IF (\E v \in Ids : reverse[s][v] > 0) /\ (\A v \in Ids : reverse'[s][v] = 0)
       THEN channels' = channels \ {s} /\ pubsub' = pubsub \ {s}
       ELSE UNCHANGED <<channels, pubsub>>
  /\ UNCHANGED entries
-----------------------------------------------------------------------------
(* A connection *)

\* A browser connects; without a token it gets an id nobody else has.
Connect(c) ==
  /\ pc[c] = "gone"
  /\ pc' = [pc EXCEPT ![c] = "new"]
  /\ alive' = [alive EXCEPT ![c] = TRUE]
  /\ UNCHANGED <<left, users, maps, dispatch>>

\* AddUser refuses a token that is not valid.
Refuse(c) ==
  /\ pc[c] = "new"
  /\ pc' = [pc EXCEPT ![c] = "gone"]
  /\ UNCHANGED <<alive, left, users, maps, dispatch>>

\* NewUser subscribes the user to their own stream ...
Accept(c) ==
  /\ pc[c] = "new"
  /\ Subscribe(IdOf[c], OwnStream[IdOf[c]])
  /\ pc' = [pc EXCEPT ![c] = "accepted"]
  /\ UNCHANGED <<alive, left, users, dispatch>>

\* ... and AddUser registers them, over whoever has that id, and starts reading.
Register(c) ==
  /\ pc[c] = "accepted"
  /\ users' = [users EXCEPT ![IdOf[c]] = c]
  /\ pc' = [pc EXCEPT ![c] = "open"]
  /\ UNCHANGED <<alive, left, maps, dispatch>>

\* A SUBSCRIBE or UNSUBSCRIBE message, one parameter of it at a time; the browser
\* that sent it may be gone by now.
Read(c) ==
  /\ pc[c] = "open"
  /\ \E s \in Streams : Subscribe(IdOf[c], s) \/ Unsubscribe(IdOf[c], s)
  /\ UNCHANGED <<pc, alive, left, users, dispatch>>

\* The browser goes away, with or without saying so.
Vanish(c) ==
  /\ alive[c]
  /\ alive' = [alive EXCEPT ![c] = FALSE]
  /\ UNCHANGED <<pc, left, users, maps, dispatch>>

\* Mutant: no read deadline: only a closing handshake ends the read loop.
ReadEndsByHandshake(c) ==
  /\ pc[c] = "open" /\ alive[c]
  /\ pc' = [pc EXCEPT ![c] = "closed"]
  /\ due' = due \ {c}
  /\ UNCHANGED <<alive, left, users, maps, dispatching, todo, reached>>

\* ReadMessage fails: the connection was closed, or nothing was heard for pongWait.
ReadEnds(c) ==
  /\ pc[c] = "open" /\ ~ alive[c]
  /\ pc' = [pc EXCEPT ![c] = "closed"]
  /\ due' = due \ {c}
  /\ UNCHANGED <<alive, left, users, maps, dispatching, todo, reached>>

\* removeUser takes the id off the map, whoever is registered under it.
RemoveUser(c) ==
  /\ pc[c] = "closed"
  /\ users' = [users EXCEPT ![IdOf[c]] = None]
  /\ pc' = [pc EXCEPT ![c] = "removed"]
  /\ UNCHANGED <<alive, left, maps, dispatch>>

\* UserLeft copies what there is to unsubscribe ...
Copy(c) ==
  /\ pc[c] = "removed"
  /\ left' = [left EXCEPT ![c] = subscriptions[IdOf[c]]]
  /\ pc' = [pc EXCEPT ![c] = "leaving"]
  /\ UNCHANGED <<alive, users, maps, dispatch>>

\* ... unsubscribes it, one by one ...
Leave(c) ==
  /\ pc[c] = "leaving"
  /\ \E s \in left[c] :
       /\ Unsubscribe(IdOf[c], s)
       /\ left' = [left EXCEPT ![c] = @ \ {s}]
  /\ UNCHANGED <<pc, alive, users, dispatch>>

\* Mutant: the entry stays in the map.
ForgetNothing(c) ==
  /\ pc[c] = "leaving" /\ left[c] = {}
  /\ pc' = [pc EXCEPT ![c] = "gone"]
  /\ UNCHANGED <<alive, left, users, maps, dispatch>>

\* ... and deletes the entry, with whatever is in it by now.
Forget(c) ==
  /\ pc[c] = "leaving" /\ left[c] = {}
  /\ entries' = entries \ {IdOf[c]}
  /\ subscriptions' = [subscriptions EXCEPT ![IdOf[c]] = {}]
  /\ pc' = [pc EXCEPT ![c] = "gone"]
  /\ UNCHANGED <<alive, left, users, reverse, channels, pubsub, dispatch>>
-----------------------------------------------------------------------------
(* The fan-out *)

\* The connections that are open under an id that wants stream s.
Audience(s) ==
  {c \in Conns : pc[c] = "open" /\ users[IdOf[c]] = c /\ s \in subscriptions[IdOf[c]]}

\* A message of a stream arrives, and the users to emit to are copied.
Arrives(s) ==
  /\ ~ dispatching /\ s \in pubsub
  /\ dispatching' = TRUE
  /\ todo' = reverse[s]
  /\ due' = Audience(s) /\ reached' = {}
  /\ UNCHANGED <<pc, alive, left, users, maps>>

\* Mutant: the first write that fails ends the fan-out.
EmitUntilError(u) ==
  /\ dispatching /\ todo[u] > 0
  /\ IF users[u] # None /\ ~ alive[users[u]]
       THEN todo' = [v \in Ids |-> 0] /\ UNCHANGED reached
       ELSE /\ todo' = [todo EXCEPT ![u] = @ - 1]
            /\ reached' = reached \cup ({users[u]} \ {None})
  /\ UNCHANGED <<pc, alive, left, users, maps, dispatching, due>>

\* Emit to whoever has the id now; an error, after at most the write deadline,
\* is logged and the next one is served.
Emit(u) ==
  /\ dispatching /\ todo[u] > 0
  /\ todo' = [todo EXCEPT ![u] = @ - 1]
  /\ \/ reached' = reached \cup ({users[u]} \ {None})
     \/ users[u] # None /\ ~ alive[users[u]] /\ UNCHANGED reached
  /\ UNCHANGED <<pc, alive, left, users, maps, dispatching, due>>

Dispatched ==
  /\ dispatching /\ \A u \in Ids : todo[u] = 0
  /\ dispatching' = FALSE /\ due' = {} /\ reached' = {}
  /\ UNCHANGED <<pc, alive, left, users, maps, todo>>
-----------------------------------------------------------------------------
Init ==
  /\ pc = [c \in Conns |-> "gone"]
  /\ alive = [c \in Conns |-> FALSE]
  /\ left = [c \in Conns |-> {}]
  /\ users = [u \in Ids |-> None]
  /\ entries = {}
  /\ subscriptions = [u \in Ids |-> {}]
  /\ reverse = [s \in Streams |-> [u \in Ids |-> 0]]
  /\ channels = {} /\ pubsub = {}
  /\ dispatching = FALSE
  /\ todo = [u \in Ids |-> 0]
  /\ due = {} /\ reached = {}

\* What a connection's goroutine does without being asked by the browser.
Serve(c) == Register(c) \/ ReadEnds(c) \/ RemoveUser(c) \/ Copy(c) \/ Leave(c) \/ Forget(c)

Fanout == (\E u \in Ids : Emit(u)) \/ Dispatched

Next ==
  \/ \E c \in Conns : Connect(c) \/ Refuse(c) \/ Accept(c) \/ Read(c) \/ Vanish(c) \/ Serve(c)
  \/ \E s \in Streams : Arrives(s)
  \/ Fanout

Spec == Init /\ [][Next]_vars

\* Goroutines are scheduled, and reads and writes have deadlines.
FairSpec == Spec /\ WF_vars(Fanout) /\ \A c \in Conns : WF_vars(Serve(c))
-----------------------------------------------------------------------------
\* The types of the variables.
TypeOK ==
  /\ pc \in [Conns -> {"new", "accepted", "open", "closed", "removed", "leaving", "gone"}]
  /\ alive \in [Conns -> BOOLEAN]
  /\ left \in [Conns -> SUBSET Streams]
  /\ users \in [Ids -> Conns \cup {None}]
  /\ entries \subseteq Ids
  /\ subscriptions \in [Ids -> SUBSET Streams]
  /\ reverse \in [Streams -> [Ids -> Nat]]
  /\ channels \subseteq Streams /\ pubsub \subseteq Streams
  /\ dispatching \in BOOLEAN
  /\ todo \in [Ids -> Nat]
  /\ due \subseteq Conns /\ reached \subseteq Conns

Wanted(s) == \E u \in Ids : reverse[s][u] > 0

\* Whoever is recorded as a subscriber is one the fan-out finds, and Redis sends
\* exactly the streams somebody is found for: whatever sessions of one user come
\* and go at the same time (subscription.go:56 and :87).
RecordedAreServed ==
  /\ \A u \in Ids : \A s \in subscriptions[u] : reverse[s][u] > 0
  /\ \A s \in Streams : (s \in pubsub <=> Wanted(s)) /\ (s \in channels <=> Wanted(s))
  /\ \A u \in Ids \ entries : subscriptions[u] = {}

\* The ids one connection goes by at a time: those of browsers without a token.
Single(u) == \A c, d \in Conns : IdOf[c] = u /\ IdOf[d] = u => c = d

\* For whoever has one session the two maps say the same, so nobody gets a message
\* twice or without asking, whatever happens to the sessions of others meanwhile
\* (subscription.go:52 and :67).
MapsAgree ==
  \A u \in Ids, s \in Streams :
    Single(u) => reverse[s][u] = IF s \in subscriptions[u] THEN 1 ELSE 0

\* A message reaches everybody who was to see it and is still there, however many
\* others vanish, stall or leave while it is sent (user.go:65).
MessageReachesAll ==
  dispatching /\ (\A u \in Ids : todo[u] = 0) =>
    \A c \in due : c \in reached \/ ~ alive[c] \/ users[IdOf[c]] # c

\* "without this the map keeps one empty entry per connection ever made"
\* (subscription.go:107): of a single session that is over nothing is left, and
\* with nobody there Redis sends nothing.
NothingIsLeft ==
  \A c \in Conns : pc[c] \in {"gone", "new"} /\ Single(IdOf[c]) =>
    /\ users[IdOf[c]] = None /\ IdOf[c] \notin entries
    /\ \A s \in Streams : reverse[s][IdOf[c]] = 0

\* "leaking the connection and its subscriptions permanently" (user.go:39) is what
\* must not happen: with everybody gone no subscription is left, two sessions of
\* one user or not.
NothingLeaks ==
  (\A c \in Conns : pc[c] = "gone") => \A s \in Streams : ~ Wanted(s)

\* A browser that is gone is forgotten, also if it never said so (user.go:76: "a
\* half-open TCP connection never produces a read error").
GoneIsForgotten ==
  \A c \in Conns : pc[c] = "open" /\ ~ alive[c] ~> pc[c] = "gone"
=============================================================================
