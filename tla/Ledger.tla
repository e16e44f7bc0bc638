------------------------------- MODULE Ledger -------------------------------
(***************************************************************************)
(* The ledger from the engine's memory to the table and back: the engine   *)
(* pushes a row for every change of a holding, the worker inside the API   *)
(* process takes the rows off the list and inserts them, the cron job of   *)
(* the same process folds old rows, and the reconcile endpoint compares    *)
(* the table's sums with the engine.                                       *)
(*                                                                         *)
(* A holding is Available + Locked of one user in one asset.  A command is *)
(* the ledger rows it pushes: a deposit has one, a fill one for every      *)
(* account it changes.  What else a command does is in module Engine, how  *)
(* the snapshot file is written in module Snapshot.                        *)
(***************************************************************************)
EXTENDS Sums

CONSTANTS
  Accounts,    \* pairs of a user and an asset
  Owner,       \* Owner[a]: the user of account a
  SeedOrder,   \* the accounts ensureMarkets seeds, in its order
  SeedAmount,  \* the 10M of each
  Commands,    \* what clients can have the engine do, as sequences of legs
  Retention,   \* the age from which a row may be folded
  None,
  MaxTime,     \* bound: the clock
  MaxCommands, \* bound: commands executed
  MaxFaults,   \* bound: everything that goes wrong
  MaxChecks    \* bound: calls of the reconcile endpoint

Leg == [acct : Accounts, delta : Int]

\* A LEDGER_ENTRY on its way to the database.
Message == [acct : Accounts, delta : Int, reason : {"seed", "move"}]

ASSUME LedgerAssumption ==
  /\ SeedOrder \in Seq(Accounts)
  /\ SeedAmount \in Int
  /\ Commands \subseteq Seq(Leg)
  /\ Retention \in Nat
  /\ MaxTime \in Nat
  /\ None \notin Message

VARIABLES
  holding,  \* the engine's memory
  image,    \* the holdings in the snapshot file, None without one
  out,      \* rows the handler that has the engine mutex has still to push
  list,     \* db_processor, the oldest row first
  hand,     \* the row the worker has popped, None between two
  table,    \* the committed rows of the ledger table
  nextId,   \* its BIGSERIAL
  now,      \* the database's clock
  fold,     \* the transaction of compactLedger, None outside one
  check,    \* the reconcile request under way, None without one
  exact,    \* the accounts that nothing has gone wrong for
  commands, checks, faults \* what the bounds count

vars == <<holding, image, out, list, hand, table, nextId, now, fold, check,
          exact, commands, checks, faults>>

engineVars == <<holding, image, out>>
apiVars    == <<hand, table, nextId, fold, check>>

-----------------------------------------------------------------------------
(* Rows *)

Row(acct, delta, reason) == [acct |-> acct, delta |-> delta, reason |-> reason]

Moves(legs) == [i \in DOMAIN legs |-> Row(legs[i].acct, legs[i].delta, "move")]
Seeds == [i \in DOMAIN SeedOrder |-> Row(SeedOrder[i], SeedAmount, "seed")]
Seeded == {SeedOrder[i] : i \in DOMAIN SeedOrder}

Of(S, a) == {r \in S : r.acct = a}

\* Balances of the ledger store: SUM(delta) of an account.
TableSum(S, a) == SumOver(Of(S, a), [r \in S |-> r.delta])

Change(legs, a) ==
  Total([i \in DOMAIN legs |-> IF legs[i].acct = a THEN legs[i].delta ELSE 0])

Touched(rows) == {rows[i].acct : i \in DOMAIN rows}

InHand == IF hand = None THEN <<>> ELSE <<hand>>

\* Everything told to the database that it has not stored yet.
InFlight == InHand \o list \o out

-----------------------------------------------------------------------------
(* The engine: one command at a time, under its mutex, which a save needs too *)

Init ==
  /\ holding = [a \in Accounts |-> IF a \in Seeded THEN SeedAmount ELSE 0]
  /\ image = None
  /\ out = Seeds
  /\ list = <<>> /\ hand = None
  /\ table = {} /\ nextId = 0
  /\ now = 0
  /\ fold = None /\ check = None
  /\ exact = Accounts
  /\ commands = 0 /\ checks = 0 /\ faults = 0

\* A command changes holdings and has a row to push for each change.  A check
\* under way remembers whom it may no longer be right about.
Execute(legs) ==
  /\ out = <<>>
  /\ commands < MaxCommands
  /\ holding' = [a \in Accounts |-> holding[a] + Change(legs, a)]
  /\ out' = Moves(legs)
  /\ check' = IF check = None THEN None
              ELSE [check EXCEPT !.stirred = @ \cup Touched(legs)]
  /\ commands' = commands + 1
  /\ UNCHANGED <<image, list, hand, table, nextId, now, fold, exact, checks, faults>>

\* pushLedger
Push ==
  /\ out # <<>>
  /\ list' = Append(list, Head(out))
  /\ out' = Tail(out)
  /\ UNCHANGED <<holding, image, apiVars, now, exact, commands, checks, faults>>

\* Redis refuses the row: the error is logged and the command goes on.
PushFails ==
  /\ out # <<>>
  /\ faults < MaxFaults
  /\ out' = Tail(out)
  /\ exact' = exact \ {Head(out).acct}
  /\ faults' = faults + 1
  /\ UNCHANGED <<holding, image, list, apiVars, now, commands, checks>>

SaveSnapshot ==
  /\ out = <<>>
  /\ image' = holding
  /\ UNCHANGED <<holding, out, list, apiVars, now, exact, commands, checks, faults>>

\* The file is deleted, or found corrupt at the next boot.
SnapshotGone ==
  /\ image # None
  /\ faults < MaxFaults
  /\ image' = None
  /\ faults' = faults + 1
  /\ UNCHANGED <<holding, out, list, apiVars, now, exact, commands, checks>>

\* Mutant: the boot counts on a snapshot.
RestartBlindly ==
  /\ faults < MaxFaults
  /\ holding' = image
  /\ out' = IF image # None THEN <<>> ELSE Seeds
  /\ exact' = {}
  /\ check' = None
  /\ faults' = faults + 1
  /\ UNCHANGED <<image, list, hand, table, nextId, now, fold, commands, checks>>

\* The process dies and boots: loadSnapshot, then seedBalances for whoever has
\* no entry, which is every seeded account or none.
Restart ==
  LET booted == IF image # None THEN image
                ELSE [a \in Accounts |-> IF a \in Seeded THEN SeedAmount ELSE 0]
  IN
  /\ faults < MaxFaults
  /\ holding' = booted
  /\ out' = IF image # None THEN <<>> ELSE Seeds
  /\ exact' = exact \ (Touched(out) \cup {a \in Accounts : booted[a] # holding[a]})
  /\ check' = IF check = None THEN None ELSE [check EXCEPT !.stirred = Accounts]
  /\ faults' = faults + 1
  /\ UNCHANGED <<image, list, hand, table, nextId, now, fold, commands, checks>>

-----------------------------------------------------------------------------
(* The worker: StartDataProcessor and handleLedgerEntry *)

\* BRPop takes the row off the list for good.
Pop ==
  /\ hand = None
  /\ list # <<>>
  /\ hand' = Head(list)
  /\ list' = Tail(list)
  /\ UNCHANGED <<engineVars, table, nextId, now, fold, check, exact, commands, checks, faults>>

\* Mutant: without the unique index every row goes in.
ConflictsNever(row) == FALSE

\* ledger_seed_uniq: one seed row for each account.
Conflicts(row) ==
  row.reason = "seed" /\ \E r \in table : r.reason = "seed" /\ r.acct = row.acct

\* INSERT ... ON CONFLICT DO NOTHING
Insert ==
  /\ hand # None
  /\ hand' = None
  /\ IF Conflicts(hand)
     THEN UNCHANGED <<table, nextId>>
     ELSE /\ table' = table \cup {[id |-> nextId, acct |-> hand.acct, delta |-> hand.delta,
                                   reason |-> hand.reason, created |-> now]}
          /\ nextId' = nextId + 1
  /\ UNCHANGED <<engineVars, list, now, fold, check, exact, commands, checks, faults>>

\* The insert fails: the error is logged and the row is gone.
InsertFails ==
  /\ hand # None
  /\ faults < MaxFaults
  /\ hand' = None
  /\ exact' = exact \ {hand.acct}
  /\ faults' = faults + 1
  /\ UNCHANGED <<engineVars, list, table, nextId, now, fold, check, commands, checks>>

\* The API process dies with its worker, its cron job and its requests; the
\* database rolls the transaction back.
ApiRestart ==
  /\ faults < MaxFaults
  /\ hand' = None
  /\ fold' = None
  /\ check' = None
  /\ exact' = exact \ Touched(InHand)
  /\ faults' = faults + 1
  /\ UNCHANGED <<engineVars, list, table, nextId, now, commands, checks>>

-----------------------------------------------------------------------------
(* compactLedger: one transaction, in which now() is the time it began *)

Tick ==
  /\ now < MaxTime
  /\ now' = now + 1
  /\ UNCHANGED <<engineVars, list, apiVars, exact, commands, checks, faults>>

\* Mutants: seed rows are folded like the others; rows made since count too.
ExpiresWithSeeds(r, at) == r.created + Retention < at
ExpiresNow(r, at) == r.created + Retention < now /\ r.reason # "seed"

Expires(r, at) == r.created + Retention < at /\ r.reason # "seed"

Expired(at) == {r \in table : Expires(r, at)}

\* SUM(delta) ... GROUP BY user_id, asset, as new rows.  Rows of one statement
\* share a number here; the account tells them apart.
Carry(rows, id, at) ==
  {[id |-> id, acct |-> a, delta |-> TableSum(rows, a), reason |-> "carry", created |-> at] :
     a \in {r.acct : r \in rows}}

\* Mutant: two statements without a transaction.
FoldInsertAtOnce ==
  /\ fold = None
  /\ Expired(now) # {}
  /\ fold' = [at |-> now, id |-> nextId, removed |-> {}, carry |-> {}]
  /\ table' = table \cup Carry(Expired(now), nextId, now)
  /\ nextId' = nextId + 1
  /\ UNCHANGED <<engineVars, list, hand, now, check, exact, commands, checks, faults>>

\* INSERT ... SELECT: a carry row for each account with old rows, visible to
\* others from the commit.  With nothing expired the whole transaction would
\* change nothing.
FoldInsert ==
  /\ fold = None
  /\ Expired(now) # {}
  /\ fold' = [at |-> now, id |-> nextId, removed |-> {},
              carry |-> Carry(Expired(now), nextId, now)]
  /\ nextId' = nextId + 1
  /\ UNCHANGED <<engineVars, list, hand, table, now, check, exact, commands, checks, faults>>

\* DELETE with the same predicate, on what others have committed by now and
\* on the transaction's own rows.
FoldDelete ==
  /\ fold # None /\ fold.removed = {}
  /\ fold' = [fold EXCEPT !.removed = Expired(fold.at),
                          !.carry = {r \in @ : ~Expires(r, fold.at)}]
  /\ UNCHANGED <<engineVars, list, hand, table, nextId, now, check, exact, commands, checks, faults>>

FoldCommit ==
  /\ fold # None /\ fold.removed # {}
  /\ table' = (table \ fold.removed) \cup fold.carry
  /\ fold' = None
  /\ UNCHANGED <<engineVars, list, hand, nextId, now, check, exact, commands, checks, faults>>

\* A statement or the commit fails: rolled back, tried again in an hour.
FoldFails ==
  /\ fold # None
  /\ faults < MaxFaults
  /\ fold' = None
  /\ faults' = faults + 1
  /\ UNCHANGED <<engineVars, list, hand, table, nextId, now, check, exact, commands, checks>>

-----------------------------------------------------------------------------
(* reconcileHandler: the sums in one query, then the engine, user by user *)

\* "stirred" is not part of the request: the accounts that rows were on their
\* way for when the sums were read, or that have changed since.
ReadLedger ==
  /\ check = None
  /\ checks < MaxChecks
  /\ check' = [sums |-> [a \in {r.acct : r \in table} |-> TableSum(table, a)],
               totals |-> [a \in Accounts |-> 0], asked |-> {},
               stirred |-> Touched(InFlight)]
  /\ checks' = checks + 1
  /\ UNCHANGED <<engineVars, list, hand, table, nextId, now, fold, exact, commands, faults>>

UsersToAsk == {Owner[a] : a \in DOMAIN check.sums} \ check.asked

\* engineBalanceTotals: GET_BALANCE, answered between two commands.
AskEngine(u) ==
  /\ check # None
  /\ u \in UsersToAsk
  /\ out = <<>>
  /\ check' = [check EXCEPT !.asked = @ \cup {u},
                            !.totals = [a \in Accounts |->
                                          IF Owner[a] = u THEN holding[a] ELSE @[a]]]
  /\ UNCHANGED <<engineVars, list, hand, table, nextId, now, fold, exact, commands, checks, faults>>

Drifts(c) == {a \in DOMAIN c.sums : c.sums[a] # c.totals[a]}

Answer ==
  /\ check # None
  /\ UsersToAsk = {}
  /\ check' = None
  /\ UNCHANGED <<engineVars, list, hand, table, nextId, now, fold, exact, commands, checks, faults>>

\* The engine does not answer in time: 500.
CheckFails ==
  /\ check # None
  /\ check' = None
  /\ UNCHANGED <<engineVars, list, hand, table, nextId, now, fold, exact, commands, checks, faults>>

-----------------------------------------------------------------------------
Users == {Owner[a] : a \in Accounts}

EngineStep == (\E legs \in Commands : Execute(legs)) \/ Push \/ PushFails
              \/ SaveSnapshot \/ SnapshotGone \/ Restart
WorkerStep == Pop \/ Insert \/ InsertFails
CronStep   == Tick \/ FoldInsert \/ FoldDelete \/ FoldCommit \/ FoldFails
CheckStep  == ReadLedger \/ (\E u \in Users : AskEngine(u)) \/ Answer \/ CheckFails

Next == EngineStep \/ WorkerStep \/ CronStep \/ CheckStep \/ ApiRestart

Spec == Init /\ [][Next]_vars

-----------------------------------------------------------------------------
(* Properties *)

LedgerRow == [id : Nat, acct : Accounts, delta : Int,
              reason : {"seed", "move", "carry"}, created : Nat]

TypeOK ==
  /\ holding \in [Accounts -> Int]
  /\ image = None \/ image \in [Accounts -> Int]
  /\ out \in Seq(Message) /\ list \in Seq(Message)
  /\ hand = None \/ hand \in Message
  /\ table \subseteq LedgerRow
  /\ nextId \in Nat /\ now \in Nat
  /\ fold = None \/ fold \in [at : Nat, id : Nat, removed : SUBSET LedgerRow, carry : SUBSET LedgerRow]
  /\ exact \subseteq Accounts

\* What rows change of account a, opening credits aside.
Moved(rows, a) ==
  Total([i \in DOMAIN rows |->
           IF rows[i].acct = a /\ rows[i].reason = "move" THEN rows[i].delta ELSE 0])

Told(rows, a) == \E i \in DOMAIN rows : rows[i] = Row(a, SeedAmount, "seed")

Opened(a) == \E r \in table : r.reason = "seed" /\ r.acct = a

\* An opening credit that is still on its way counts only when none is booked.
OnTheWay(a) ==
  Moved(InFlight, a) + (IF Told(InFlight, a) /\ ~Opened(a) THEN SeedAmount ELSE 0)

\* What the reconcile endpoint relies on (balance.go:180-183): as long as no
\* row of an account was lost and no restart took anything back from it, its
\* holding is the sum of its rows and of those still on their way, whatever
\* was folded, rolled back, told again or replayed meanwhile.
ExactUnlessLost ==
  \A a \in exact : holding[a] = TableSum(table, a) + OnTheWay(a)

\* What compactLedger is about to delete is exactly what its carry rows sum
\* up, although DELETE selects the rows again, later, while the worker goes
\* on inserting; and the DELETE spares the carry rows (cron.go:79-81).
FoldIsExact ==
  fold # None /\ fold.removed # {} => fold.carry = Carry(fold.removed, fold.id, fold.at)

\* The reconcile endpoint reads the ledger and the engine at different times
\* and while the cron job works.  About an account it knows, and for which
\* nothing was on its way or has changed since, it says the truth: it is
\* reported exactly when ledger and engine do differ.
AlarmsAreReal ==
  [][Answer => \A a \in DOMAIN check.sums \ check.stirred :
                 (a \in Drifts(check)) <=> (TableSum(table, a) # holding[a])]_vars

\* The table behaves as the append-only ledger of module Postings, although
\* compactLedger inserts and deletes, boots tell the seeds again, and the
\* worker and the API die (cron.go:52-59, ledger_seed_uniq).
Deltas == {SeedAmount} \cup UNION {{legs[i].delta : i \in DOMAIN legs} : legs \in Commands}

AppendOnly == INSTANCE Postings WITH
  Amounts <- Deltas,
  transit <- InHand \o list,
  booked  <- [a \in Accounts |-> TableSum(table, a)],
  opened  <- {r.acct : r \in {s \in table : s.reason = "seed"}}

ActsAsAppendOnly == AppendOnly!Spec
=============================================================================
