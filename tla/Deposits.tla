------------------------------ MODULE Deposits ------------------------------
(***************************************************************************)
(* Deposits over the command bus: what POST /onramp does in the API, the   *)
(* "messages" list, the engine at the other end and the reply channels.    *)
(*                                                                         *)
(* A request claims its idempotency key by inserting a transfers row.  The *)
(* request that gets the key sends ON_RAMP; every later one with the same  *)
(* key is a replay and asks for the balance instead.  SendAndAwait listens *)
(* on a channel of its own, pushes the command and waits: it gives up      *)
(* after a timeout, and repeats reads only.  Redis keeps the list when the *)
(* API or the engine dies; it does not keep what nobody listens to.        *)
(*                                                                         *)
(* A push queues its message once or not at all.  That is assumed of the   *)
(* Redis client too: left to its defaults it sends an LPUSH again when the *)
(* answer to the first is lost, and nothing in the code switches that off. *)
(***************************************************************************)
EXTENDS Integers, Sequences

CONSTANTS
  Requests,     \* the POST /onramp requests
  Keys,         \* the txnIds they carry
  KeyOf,        \* KeyOf[r]: the txnId of request r
  Refused,      \* keys whose amount is NaN: the API and the table take it, the engine not
  ReadRetries,  \* how often SendAndAwait tries a read
  MaxCrashes    \* bound: crashes of the API and of the engine

ASSUME DepositsAssumption ==
  /\ KeyOf \in [Requests -> Keys]
  /\ Refused \subseteq Keys
  /\ ReadRetries \in Nat \ {0}
  /\ MaxCrashes \in Nat

VARIABLES
  stage,      \* stage[r]: where the handler of r is
  task,       \* task[r]: the command r sends, known once the key is claimed
  attempt,    \* attempt[r]: retries done by SendAndAwait
  inbox,      \* inbox[r]: what arrived on the channel r listens on
  transfers,  \* transfers[k]: the status of the row with id k
  queue,      \* the "messages" list, oldest first
  engine,     \* the engine's loop: "idle", "popped", or "applied" with the mutex held
  current,    \* the command it is at
  memory,     \* memory[k]: how often the engine's balances hold deposit k
  saved,      \* the same of the snapshot
  ledger,     \* ledger[k]: ledger rows pushed for deposit k
  crashes

api    == <<stage, task, attempt, inbox>>
loop   == <<engine, current>>
money  == <<memory, saved, ledger>>
vars   == <<api, transfers, queue, loop, money, crashes>>

\* Mutant: writes are retried like reads.
LimitAlike(command) == ReadRetries

\* isMutating, and the retries SendAndAwait grants accordingly.
Limit(command) == IF command = "ON_RAMP" THEN 1 ELSE ReadRetries

\* Mutant: one client id for all attempts of a request.
ChannelPerRequest(r) == <<r, 0>>

\* Mutant: the ids of two requests collide.
ChannelShared(r) == <<CHOOSE q \in Requests : TRUE, attempt[r]>>

\* getRandomClientID: a fresh id for every attempt.
Channel(r) == <<r, attempt[r]>>

\* What is pushed onto the list.
Message(r) ==
  [type |-> task[r], request |-> r, attempt |-> attempt[r], clientId |-> Channel(r)]

\* The channel is subscribed from before the push until the attempt ends.
Listening(r) == stage[r] \in {"subscribed", "awaiting"}
-----------------------------------------------------------------------------
(* The handler of a request *)

\* Mutant: an insert that overwrites the row it collides with.
ClaimOverwrites(r) ==
  /\ stage[r] = "new"
  /\ transfers' = [transfers EXCEPT ![KeyOf[r]] = "pending"]
  /\ task' = [task EXCEPT ![r] = "ON_RAMP"]
  /\ stage' = [stage EXCEPT ![r] = "ready"]
  /\ UNCHANGED <<attempt, inbox, queue, loop, money, crashes>>

\* Transfers.Create inserts the row unless the key is there already; a replay
\* goes on to writeCurrentBalance.
Claim(r) ==
  LET k == KeyOf[r] IN
  /\ stage[r] = "new"
  /\ \/ /\ transfers[k] = "none"
        /\ transfers' = [transfers EXCEPT ![k] = "pending"]
        /\ task' = [task EXCEPT ![r] = "ON_RAMP"]
     \/ /\ transfers[k] # "none"
        /\ task' = [task EXCEPT ![r] = "GET_BALANCE"]
        /\ UNCHANGED transfers
  /\ stage' = [stage EXCEPT ![r] = "ready"]
  /\ UNCHANGED <<attempt, inbox, queue, loop, money, crashes>>

\* The insert reports an error, and may have been committed all the same.
ClaimFails(r) ==
  LET k == KeyOf[r] IN
  /\ stage[r] = "new"
  /\ \/ UNCHANGED transfers
     \/ /\ transfers[k] = "none"
        /\ transfers' = [transfers EXCEPT ![k] = "pending"]
  /\ stage' = [stage EXCEPT ![r] = "over"]
  /\ UNCHANGED <<task, attempt, inbox, queue, loop, money, crashes>>

\* Subscribe before pushing, so that no answer comes before anybody listens.
Subscribe(r) ==
  /\ stage[r] = "ready"
  /\ stage' = [stage EXCEPT ![r] = "subscribed"]
  /\ UNCHANGED <<task, attempt, inbox, transfers, queue, loop, money, crashes>>

Push(r) ==
  /\ stage[r] = "subscribed"
  /\ queue' = Append(queue, Message(r))
  /\ stage' = [stage EXCEPT ![r] = "awaiting"]
  /\ UNCHANGED <<task, attempt, inbox, transfers, loop, money, crashes>>

\* Mutant: a retry too many.
AttemptFailedOnceMore(r) ==
  \/ /\ attempt[r] < Limit(task[r])
     /\ attempt' = [attempt EXCEPT ![r] = @ + 1]
     /\ stage' = [stage EXCEPT ![r] = "ready"]
     /\ inbox' = [inbox EXCEPT ![r] = {}]
  \/ /\ stage' = [stage EXCEPT ![r] = IF task[r] = "ON_RAMP" THEN "failed" ELSE "over"]
     /\ UNCHANGED <<attempt, inbox>>

\* The attempt ended in an error: again, if the command may be retried and the
\* error is not that of a context that ended, else the handler fails.  A replay
\* that fails answers 500, and that is all.
AttemptFailed(r) ==
  \/ /\ attempt[r] + 1 < Limit(task[r])
     /\ attempt' = [attempt EXCEPT ![r] = @ + 1]
     /\ stage' = [stage EXCEPT ![r] = "ready"]
     /\ inbox' = [inbox EXCEPT ![r] = {}]
  \/ /\ stage' = [stage EXCEPT ![r] = IF task[r] = "ON_RAMP" THEN "failed" ELSE "over"]
     /\ UNCHANGED <<attempt, inbox>>

\* Redis fails: no confirmation of the subscription, or an error from LPUSH,
\* which may have reached the list.
SendFails(r) ==
  /\ \/ stage[r] \in {"ready", "subscribed"} /\ UNCHANGED queue
     \/ stage[r] = "subscribed" /\ queue' = Append(queue, Message(r))
  /\ AttemptFailed(r)
  /\ UNCHANGED <<task, transfers, loop, money, crashes>>

\* Mutant: without a deadline, an answer is waited for as long as it takes.
WaitsForever(r) == FALSE /\ UNCHANGED vars

\* The deadline passes or the client goes away; an answer may be on its way, or
\* even there.
GiveUp(r) ==
  /\ stage[r] = "awaiting"
  /\ AttemptFailed(r)
  /\ UNCHANGED <<task, transfers, queue, loop, money, crashes>>

\* ReceiveMessage returns the reply, whatever it says; a replay has its answer.
Receive(r) ==
  /\ stage[r] = "awaiting" /\ inbox[r] # {}
  /\ stage' = [stage EXCEPT ![r] = IF task[r] = "ON_RAMP" THEN "answered" ELSE "over"]
  /\ UNCHANGED <<task, attempt, inbox, transfers, queue, loop, money, crashes>>

\* MarkStatus, whose error is only logged.
Mark(r) ==
  /\ stage[r] \in {"answered", "failed"}
  /\ \/ transfers' = [transfers EXCEPT ![KeyOf[r]] =
                        IF stage[r] = "answered" THEN "confirmed" ELSE "failed"]
     \/ UNCHANGED transfers
  /\ stage' = [stage EXCEPT ![r] = "over"]
  /\ UNCHANGED <<task, attempt, inbox, queue, loop, money, crashes>>

\* The API process dies, and with it every request it is at.
ApiCrash ==
  /\ crashes < MaxCrashes
  /\ crashes' = crashes + 1
  /\ stage' = [r \in Requests |-> IF stage[r] = "new" THEN "new" ELSE "over"]
  /\ UNCHANGED <<task, attempt, inbox, transfers, queue, loop, money>>
-----------------------------------------------------------------------------
(* The engine *)

Pop ==
  /\ engine = "idle" /\ queue # <<>>
  /\ current' = {Head(queue)}
  /\ queue' = Tail(queue)
  /\ engine' = "popped"
  /\ UNCHANGED <<api, transfers, money, crashes>>

\* The deposit the engine accepts in the command it is at, if any.
Credited(k) ==
  \E m \in current : m.type = "ON_RAMP" /\ KeyOf[m.request] = k /\ k \notin Refused

Incremented(f) == [k \in Keys |-> IF Credited(k) THEN f[k] + 1 ELSE f[k]]

\* Process takes the mutex; onRamp credits and pushes the ledger row.
Apply ==
  /\ engine = "popped"
  /\ memory' = Incremented(memory)
  /\ ledger' = Incremented(ledger)
  /\ engine' = "applied"
  /\ UNCHANGED <<api, transfers, queue, current, saved, crashes>>

\* SendToAPI reaches whoever listens on the channel at this moment, then the
\* mutex is given back.
Answer ==
  /\ engine = "applied"
  /\ inbox' = [r \in Requests |-> inbox[r] \cup
                 {m \in current : Listening(r) /\ Channel(r) = m.clientId}]
  /\ engine' = "idle" /\ current' = {}
  /\ UNCHANGED <<stage, task, attempt, transfers, queue, money, crashes>>

\* SaveSnapshot needs the mutex; Snapshot has its steps.
Save ==
  /\ engine # "applied"
  /\ saved' = memory
  /\ UNCHANGED <<api, transfers, queue, loop, memory, ledger, crashes>>

\* The engine dies and boots from the snapshot; the command it was at is gone.
EngineCrash ==
  /\ crashes < MaxCrashes
  /\ crashes' = crashes + 1
  /\ engine' = "idle" /\ current' = {}
  /\ memory' = saved
  /\ UNCHANGED <<api, transfers, queue, saved, ledger>>
-----------------------------------------------------------------------------
Init ==
  /\ stage = [r \in Requests |-> "new"]
  /\ task = [r \in Requests |-> "none"]
  /\ attempt = [r \in Requests |-> 0]
  /\ inbox = [r \in Requests |-> {}]
  /\ transfers = [k \in Keys |-> "none"]
  /\ queue = <<>>
  /\ engine = "idle" /\ current = {}
  /\ memory = [k \in Keys |-> 0]
  /\ saved = [k \in Keys |-> 0]
  /\ ledger = [k \in Keys |-> 0]
  /\ crashes = 0

Work(r) == Subscribe(r) \/ Push(r) \/ SendFails(r) \/ GiveUp(r) \/ Receive(r) \/ Mark(r)

Handle(r) == Claim(r) \/ ClaimFails(r) \/ Work(r)

Next ==
  \/ \E r \in Requests : Handle(r)
  \/ Pop \/ Apply \/ Answer \/ Save
  \/ ApiCrash \/ EngineCrash

Spec == Init /\ [][Next]_vars

\* A handler that is running gets on: every wait in it has a deadline.
FairSpec == Spec /\ \A r \in Requests : WF_vars(Work(r))
-----------------------------------------------------------------------------
MessageType ==
  [type : {"ON_RAMP", "GET_BALANCE"}, request : Requests, attempt : Nat,
   clientId : Requests \X Nat]

\* The types of the variables; the inbox of a request holds at most one reply,
\* the command it answers standing for it.
TypeOK ==
  /\ stage \in [Requests -> {"new", "ready", "subscribed", "awaiting", "answered",
                             "failed", "over"}]
  /\ task \in [Requests -> {"none", "ON_RAMP", "GET_BALANCE"}]
  /\ attempt \in [Requests -> 0 .. ReadRetries - 1]
  /\ inbox \in [Requests -> SUBSET MessageType]
  /\ transfers \in [Keys -> {"none", "pending", "confirmed", "failed"}]
  /\ queue \in Seq(MessageType)
  /\ engine \in {"idle", "popped", "applied"}
  /\ current \in SUBSET MessageType
  /\ memory \in [Keys -> Nat]
  /\ saved \in [Keys -> Nat]
  /\ ledger \in [Keys -> Nat]
  /\ crashes \in Nat

\* "if the engine is told to credit first and this process dies, the money
\* exists in memory with nothing on disk explaining it" (balance.go:72): a key
\* is credited at most once, however often it is sent, whoever dies and however
\* late the engine gets to it, and never without its transfers row; what the
\* engine and its snapshot hold of it, the ledger has.
CreditedOnce ==
  \A k \in Keys :
    /\ ledger[k] <= IF transfers[k] = "none" THEN 0 ELSE 1
    /\ memory[k] <= ledger[k]
    /\ saved[k] <= ledger[k]

\* A transfer marked confirmed has its ledger row, unless its amount is one the
\* engine refuses: the reply it was confirmed by was its own (redismanager.go:147,
\* "Nothing downstream checks that a response matches the command").
ConfirmedIsRecorded ==
  \A k \in Keys \ Refused : transfers[k] = "confirmed" => ledger[k] = 1

\* What a request receives answers the very command it is waiting for, not
\* another request's and not an earlier attempt of its own.
OwnReply ==
  \A r \in Requests : \A m \in inbox[r] : m.request = r /\ m.attempt = attempt[r]

\* The status of a transfer settles once: nothing changes a confirmed or failed
\* row, not a replay and not a late answer.
StatusSettlesOnce ==
  [][\A k \in Keys : transfers[k] \in {"confirmed", "failed"} =>
       transfers'[k] = transfers[k]]_vars

\* A deposit is what module Transfers says: claim, credit once, confirm after
\* that or fail, whoever dies and however often it is asked for.
Promise == INSTANCE Transfers WITH status <- transfers, booked <- ledger

DepositsKeepPromise == Promise!Spec

\* Whatever is lost, every request that has its key ends (redismanager.go:61: a
\* reply is waited for with a deadline, and retries are counted).
EveryRequestEnds ==
  \A r \in Requests : stage[r] = "ready" ~> stage[r] = "over"
=============================================================================
