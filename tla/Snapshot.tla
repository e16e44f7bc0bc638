------------------------------ MODULE Snapshot ------------------------------
(***************************************************************************)
(* The engine's memory, its snapshot file and what it has handed to the    *)
(* database, across kills, restarts and shutdowns.                         *)
(*                                                                         *)
(* A command is what changes the engine's state and the database: it is    *)
(* popped off the "messages" list, processed under the engine mutex, its   *)
(* rows pushed one at a time, and answered.  Memory and a snapshot are the *)
(* sets of commands they reflect.  SaveSnapshot runs in two goroutines:    *)
(* the ticker's, every five seconds, and the one that waits for SIGTERM.   *)
(* It holds the mutex only while it marshals.                              *)
(***************************************************************************)
EXTENDS Integers

CONSTANTS
  Commands,
  Poison,       \* those that put a NaN or an Inf into a balance
  Rows,         \* the rows every other command pushes
  MaxFaults,    \* bound: kills, failed pushes and failed file operations
  MaxSigterms   \* bound: shutdowns

ASSUME SnapshotAssumption ==
  /\ Poison \subseteq Commands
  /\ Rows \in Nat \ {0}
  /\ MaxFaults \in Nat
  /\ MaxSigterms \in Nat

Savers == {"ticker", "signal"}

VARIABLES
  process,  \* "up", "exited" after a shutdown, "killed"
  memory,   \* the commands the engine's state reflects
  popped,   \* the commands taken off the list, in any life of the process
  loop,     \* where the message loop is: "idle", "popped" or "locked", in Process
  current,  \* the command it is at
  pushed,   \* pushed[c]: the rows of c that went on the db_processor list
  lost,     \* lost[c]: the rows of c whose push failed
  saver,    \* saver[s]: where SaveSnapshot is, what it marshalled, its open file
  tmp, snap, \* the two files
  faults, sigterms

vars == <<process, memory, popped, loop, current, pushed, lost, saver, tmp, snap,
          faults, sigterms>>

RowsOf(c) == IF c \in Poison THEN 0 ELSE Rows

\* A file reads as a snapshot only when it is whole.
File(state, image) == [state |-> state, image |-> image]
Absent == File("absent", {})
Empty  == File("empty", {})
Torn   == File("torn", {})

\* The states of one SaveSnapshot call; "at" is the name its file goes by.
Saver(pc, image, at) == [pc |-> pc, image |-> image, at |-> at]

\* The ticker's goroutine waits for the next tick, the other one for SIGTERM.
AtRest(s) == Saver(IF s = "ticker" THEN "ready" ELSE "waiting", {}, "none")

\* What follows SaveSnapshot: the next tick, or os.Exit.
Returned(s) == Saver(IF s = "ticker" THEN "ready" ELSE "exiting", {}, "none")

-----------------------------------------------------------------------------
(* The message loop *)

\* BRPop takes the message off the list: from here on only the process has it.
Pop(c) ==
  /\ process = "up" /\ loop = "idle" /\ c \notin popped
  /\ popped' = popped \cup {c}
  /\ loop' = "popped" /\ current' = {c}
  /\ UNCHANGED <<process, memory, pushed, lost, saver, tmp, snap, faults, sigterms>>

\* Process takes the mutex and the handler changes the state.
Apply ==
  /\ process = "up" /\ loop = "popped"
  /\ loop' = "locked"
  /\ memory' = memory \cup current
  /\ UNCHANGED <<process, popped, current, pushed, lost, saver, tmp, snap, faults, sigterms>>

\* The rows of c the handler has not come to yet.
ToPush(c) == RowsOf(c) - (pushed[c] + lost[c])

\* Mutant: a row more than the command has is pushed.
PushOneMore ==
  /\ process = "up" /\ loop = "locked"
  /\ \E c \in current :
       /\ ToPush(c) >= 0
       /\ pushed' = [pushed EXCEPT ![c] = @ + 1]
  /\ UNCHANGED <<process, memory, popped, loop, current, lost, saver, tmp, snap, faults, sigterms>>

\* pushDbMessage, once per row.
Push ==
  /\ process = "up" /\ loop = "locked"
  /\ \E c \in current :
       /\ ToPush(c) > 0
       /\ pushed' = [pushed EXCEPT ![c] = @ + 1]
  /\ UNCHANGED <<process, memory, popped, loop, current, lost, saver, tmp, snap, faults, sigterms>>

\* Redis refuses the row: the error is logged and the handler goes on.
PushFails ==
  /\ process = "up" /\ loop = "locked"
  /\ faults < MaxFaults /\ faults' = faults + 1
  /\ \E c \in current :
       /\ ToPush(c) > 0
       /\ lost' = [lost EXCEPT ![c] = @ + 1]
  /\ UNCHANGED <<process, memory, popped, loop, current, pushed, saver, tmp, snap, sigterms>>

\* The handler answers and Process gives the mutex back.
Finish ==
  /\ process = "up" /\ loop = "locked"
  /\ \A c \in current : ToPush(c) = 0
  /\ loop' = "idle" /\ current' = {}
  /\ UNCHANGED <<process, memory, popped, pushed, lost, saver, tmp, snap, faults, sigterms>>

-----------------------------------------------------------------------------
(* SaveSnapshot *)

\* Mutant: marshalling does not wait for the mutex.
MarshalUnlocked(s) ==
  /\ process = "up" /\ saver[s].pc = "ready"
  /\ saver' = [saver EXCEPT ![s] = IF memory \cap Poison = {}
                                   THEN Saver("marshalled", memory, "none") ELSE Returned(s)]
  /\ UNCHANGED <<process, memory, popped, loop, current, pushed, lost, tmp, snap, faults, sigterms>>

\* json.Marshal under the mutex; it fails on a NaN or an Inf.
Marshal(s) ==
  /\ process = "up" /\ saver[s].pc = "ready" /\ loop # "locked"
  /\ saver' = [saver EXCEPT ![s] = IF memory \cap Poison = {}
                                   THEN Saver("marshalled", memory, "none") ELSE Returned(s)]
  /\ UNCHANGED <<process, memory, popped, loop, current, pushed, lost, tmp, snap, faults, sigterms>>

\* Mutant: the snapshot itself is truncated and written.
OpenInPlace(s) ==
  /\ process = "up" /\ saver[s].pc = "marshalled"
  /\ snap' = Empty
  /\ saver' = [saver EXCEPT ![s].pc = "opened", ![s].at = "snap"]
  /\ UNCHANGED <<process, memory, popped, loop, current, pushed, lost, tmp, faults, sigterms>>

\* os.WriteFile creates or truncates the temporary file ...
Open(s) ==
  /\ process = "up" /\ saver[s].pc = "marshalled"
  /\ tmp' = Empty
  /\ saver' = [saver EXCEPT ![s].pc = "opened", ![s].at = "tmp"]
  /\ UNCHANGED <<process, memory, popped, loop, current, pushed, lost, snap, faults, sigterms>>

\* What writing an image from the start of a file leaves in it: what another
\* call wrote there may be longer and show behind it.
Written(file, image) ==
  {File("whole", image)} \cup (IF file.state = "empty" THEN {} ELSE {Torn})

\* ... and writes it, under whatever name it has by now.
Write(s) ==
  /\ process = "up" /\ saver[s].pc = "opened"
  /\ IF saver[s].at = "tmp" THEN tmp' \in Written(tmp, saver[s].image) ELSE UNCHANGED tmp
  /\ IF saver[s].at = "snap" THEN snap' \in Written(snap, saver[s].image) ELSE UNCHANGED snap
  /\ saver' = [saver EXCEPT ![s].pc = "written"]
  /\ UNCHANGED <<process, memory, popped, loop, current, pushed, lost, faults, sigterms>>

\* Renaming moves the file under every call that has it open, and the file it
\* replaces has no name any more.
Renamed(t) ==
  [t EXCEPT !.at = CASE @ = "tmp" -> "snap" [] @ = "snap" -> "gone" [] OTHER -> @]

\* os.Rename fails when the other call has renamed the file already.
Rename(s) ==
  /\ process = "up" /\ saver[s].pc = "written"
  /\ IF tmp = Absent
     THEN /\ saver' = [saver EXCEPT ![s] = Returned(s)]
          /\ UNCHANGED <<tmp, snap>>
     ELSE /\ snap' = tmp /\ tmp' = Absent
          /\ saver' = [t \in Savers |-> IF t = s THEN Returned(s) ELSE Renamed(saver[t])]
  /\ UNCHANGED <<process, memory, popped, loop, current, pushed, lost, faults, sigterms>>

\* Mutant: the goroutine ends when a save fails.
SaveFailsForGood(s) ==
  /\ process = "up" /\ saver[s].pc \in {"marshalled", "opened", "written"}
  /\ faults < MaxFaults /\ faults' = faults + 1
  /\ IF saver[s].pc = "opened" /\ saver[s].at = "tmp" THEN tmp' = Torn ELSE UNCHANGED tmp
  /\ IF saver[s].pc = "opened" /\ saver[s].at = "snap" THEN snap' = Torn ELSE UNCHANGED snap
  /\ saver' = [saver EXCEPT ![s] = Saver("exiting", {}, "none")]
  /\ UNCHANGED <<process, memory, popped, loop, current, pushed, lost, sigterms>>

\* A failing file operation is logged and the call returns, the temporary file
\* left as it is.
SaveFails(s) ==
  /\ process = "up" /\ saver[s].pc \in {"marshalled", "opened", "written"}
  /\ faults < MaxFaults /\ faults' = faults + 1
  /\ IF saver[s].pc = "opened" /\ saver[s].at = "tmp" THEN tmp' = Torn ELSE UNCHANGED tmp
  /\ IF saver[s].pc = "opened" /\ saver[s].at = "snap" THEN snap' = Torn ELSE UNCHANGED snap
  /\ saver' = [saver EXCEPT ![s] = Returned(s)]
  /\ UNCHANGED <<process, memory, popped, loop, current, pushed, lost, sigterms>>

-----------------------------------------------------------------------------
(* The process *)

\* The process ends: its memory, the command it was at and its open files go.
Ends(how) ==
  /\ process' = how
  /\ memory' = {}
  /\ loop' = "idle" /\ current' = {}
  /\ saver' = [s \in Savers |-> AtRest(s)]
  /\ UNCHANGED <<popped, pushed, lost, tmp, snap>>

Sigterm ==
  /\ process = "up" /\ saver["signal"].pc = "waiting"
  /\ sigterms < MaxSigterms /\ sigterms' = sigterms + 1
  /\ saver' = [saver EXCEPT !["signal"].pc = "ready"]
  /\ UNCHANGED <<process, memory, popped, loop, current, pushed, lost, tmp, snap, faults>>

\* The message loop is not stopped: os.Exit ends it wherever it is.
Exit ==
  /\ process = "up" /\ saver["signal"].pc = "exiting"
  /\ Ends("exited")
  /\ UNCHANGED <<faults, sigterms>>

Kill ==
  /\ process = "up"
  /\ faults < MaxFaults /\ faults' = faults + 1
  /\ Ends("killed")
  /\ UNCHANGED sigterms

\* Mutant: a restart always starts from the seeded state.
BootSeeded ==
  /\ process # "up"
  /\ process' = "up"
  /\ memory' = {}
  /\ UNCHANGED <<popped, loop, current, pushed, lost, saver, tmp, snap, faults, sigterms>>

\* NewEngine: loadSnapshot, or the seeded state when there is none or it does
\* not parse.
Boot ==
  /\ process # "up"
  /\ process' = "up"
  /\ memory' = IF snap.state = "whole" THEN snap.image ELSE {}
  /\ UNCHANGED <<popped, loop, current, pushed, lost, saver, tmp, snap, faults, sigterms>>

-----------------------------------------------------------------------------
Init ==
  /\ process = "up"
  /\ memory = {} /\ popped = {}
  /\ loop = "idle" /\ current = {}
  /\ pushed = [c \in Commands |-> 0] /\ lost = [c \in Commands |-> 0]
  /\ saver = [s \in Savers |-> AtRest(s)]
  /\ tmp = Absent /\ snap = Absent
  /\ faults = 0 /\ sigterms = 0

Save(s) == Marshal(s) \/ Open(s) \/ Write(s) \/ Rename(s)

Next ==
  \/ \E c \in Commands : Pop(c)
  \/ Apply \/ Push \/ PushFails \/ Finish
  \/ \E s \in Savers : Save(s) \/ SaveFails(s)
  \/ Sigterm \/ Exit \/ Kill \/ Boot

\* Both goroutines are scheduled and a handler runs to its end; Go's mutex
\* hands itself to a waiter, so the loop cannot keep a save out for ever.
Fairness ==
  /\ WF_vars(Apply) /\ WF_vars(Push) /\ WF_vars(Finish)
  /\ \A s \in Savers : SF_vars(Marshal(s)) /\ WF_vars(Save(s))

Spec == Init /\ [][Next]_vars
FairSpec == Spec /\ Fairness

-----------------------------------------------------------------------------
(* Properties *)

Images == SUBSET Commands
Files == [state : {"absent", "empty", "torn", "whole"}, image : Images]
SaverStates == [pc : {"ready", "waiting", "marshalled", "opened", "written", "exiting"},
                image : Images, at : {"none", "tmp", "snap", "gone"}]

TypeOK ==
  /\ process \in {"up", "exited", "killed"}
  /\ memory \in Images /\ popped \in Images /\ current \in Images
  /\ loop \in {"idle", "popped", "locked"}
  /\ pushed \in [Commands -> 0..Rows] /\ lost \in [Commands -> 0..Rows]
  /\ saver \in [Savers -> SaverStates]
  /\ tmp \in Files /\ snap \in Files
  /\ faults \in 0..MaxFaults /\ sigterms \in 0..MaxSigterms

Saved(c) == snap.state = "whole" /\ c \in snap.image

\* A snapshot never holds a command its handler is still pushing the rows of:
\* SaveSnapshot marshals under the mutex Process holds until the command is
\* done, and a process killed between two pushes forgets the command with the
\* rows it had still to push.  Every row of what is restored was given to
\* Redis, or Redis refused it.
SnapshotHoldsWholeCommands == \A c \in Commands : Saved(c) => ToPush(c) = 0

\* The engine never works on a state older than the snapshot it would restore.
MemoryCoversSnapshot == process = "up" => \A c \in Commands : Saved(c) => c \in memory

\* Once in the snapshot, a command stays there, through kills, failed writes
\* and restarts, as long as there was no SIGTERM and the ticker saves alone.
SavedStays == [][sigterms = 0 => \A c \in Commands : Saved(c) => Saved(c)']_vars

\* What the engine has applied is in the snapshot sooner or later, unless the
\* process dies first, however many saves fail in between.
EventuallySaved == \A c \in Commands : c \in memory ~> (Saved(c) \/ c \notin memory)

-----------------------------------------------------------------------------
(* What comments of the source say and the code does not do *)

\* SaveSnapshot: "the file is either the old snapshot or the new one".
SnapshotIsWhole == snap.state \in {"absent", "whole"}
=============================================================================
