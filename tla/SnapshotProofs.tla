--------------------------- MODULE SnapshotProofs ---------------------------
(***************************************************************************)
(* What a restart can count on, for any commands, any number of rows, any  *)
(* number of kills, failed writes and shutdowns, and with both goroutines  *)
(* saving at once: the snapshot never holds a command with rows still to   *)
(* push and the engine's memory is never behind the snapshot.  With the    *)
(* ticker alone nothing that was saved is ever lost.                       *)
(***************************************************************************)
EXTENDS Snapshot, TLAPS

\* The handler of c has come to the end of its rows.
Told(c) == ToPush(c) = 0

\* So it has for what is in memory, but for the command being processed.
Accounted ==
  \A c \in memory : Told(c) \/ (loop = "locked" /\ c \in current)

\* So it has for what was marshalled or written.
ImagesTold ==
  /\ \A s \in Savers : \A c \in saver[s].image : Told(c)
  /\ \A c \in tmp.image : Told(c)
  /\ \A c \in snap.image : Told(c)

WholeInv == TypeOK /\ Accounted /\ ImagesTold

\* Only whole files hold an image.
ImagesAreWhole ==
  /\ tmp.state # "whole" => tmp.image = {}
  /\ snap.state # "whole" => snap.image = {}

\* While the process is up nothing it saves or has saved is ahead of its
\* memory; the temporary file counts from when a save of this life opened it.
\* While it is down no save is under way.
Covered ==
  /\ process = "up" =>
       /\ \A s \in Savers : saver[s].image \subseteq memory
       /\ snap.image \subseteq memory
       /\ (\E s \in Savers : saver[s].pc \in {"opened", "written"}) => tmp.image \subseteq memory
  /\ process # "up" => \A s \in Savers : saver[s] = AtRest(s)

CoveredInv == TypeOK /\ ImagesAreWhole /\ Covered

-----------------------------------------------------------------------------
(* Types *)

\* A save under way or at rest.
LEMMA SaverTypes ==
  ASSUME NEW s \in Savers
  PROVE  /\ AtRest(s) \in SaverStates /\ Returned(s) \in SaverStates
         /\ AtRest(s).image = {} /\ Returned(s).image = {}
         /\ AtRest(s).pc \notin {"opened", "written"}
         /\ Returned(s).pc \notin {"opened", "written"}
BY DEF AtRest, Returned, Saver, Images, SaverStates

LEMMA FileTypes ==
  /\ Absent \in Files /\ Absent.image = {} /\ Absent.state = "absent"
  /\ Empty \in Files /\ Empty.image = {} /\ Empty.state = "empty"
  /\ Torn \in Files /\ Torn.image = {} /\ Torn.state = "torn"
BY DEF Absent, Empty, Torn, File, Files, Images

\* A write leaves the image in the file or a torn file.
LEMMA WrittenTypes ==
  ASSUME NEW file, NEW image \in Images, NEW f \in Written(file, image)
  PROVE  /\ f \in Files
         /\ f = Torn \/ (f.image = image /\ f.state = "whole")
<1>1. CASE f = Torn
  BY <1>1, FileTypes
<1>2. CASE f = File("whole", image)
  BY <1>2 DEF File, Files
<1> QED
  BY <1>1, <1>2 DEF Written

\* A rename changes only the name under which a save has its file open.
LEMMA RenamedTypes ==
  ASSUME NEW t \in SaverStates
  PROVE  /\ Renamed(t) \in SaverStates
         /\ Renamed(t).image = t.image /\ Renamed(t).pc = t.pc
<1>1. t \in [pc : {"ready", "waiting", "marshalled", "opened", "written", "exiting"},
             image : Images, at : {"none", "tmp", "snap", "gone"}]
  BY DEF SaverStates
<1> QED
  BY <1>1 DEF Renamed, SaverStates

-----------------------------------------------------------------------------
(* Steps *)

\* The message loop's own steps.
LoopSteps == (\E c \in Commands : Pop(c)) \/ Apply \/ Push \/ PushFails \/ Finish

LEMMA LoopTypes ==
  ASSUME TypeOK, LoopSteps
  PROVE  TypeOK'
<1>1. CASE \E c \in Commands : Pop(c)
  BY <1>1 DEF TypeOK, Pop, Images
<1>2. CASE Apply
  BY <1>2 DEF TypeOK, Apply, Images
<1>3. CASE Push \/ PushFails
  <2>1. PICK c \in current :
          /\ ToPush(c) > 0
          /\ \/ pushed' = [pushed EXCEPT ![c] = @ + 1] /\ lost' = lost
             \/ lost' = [lost EXCEPT ![c] = @ + 1] /\ pushed' = pushed
    BY <1>3 DEF Push, PushFails
  <2>2. c \in Commands /\ pushed[c] \in 0..Rows /\ lost[c] \in 0..Rows /\ Rows \in Nat
    BY <2>1, SnapshotAssumption DEF TypeOK, Images
  <2>3. pushed[c] + 1 \in 0..Rows /\ lost[c] + 1 \in 0..Rows
    BY <2>1, <2>2 DEF ToPush, RowsOf
  <2>4. pushed' \in [Commands -> 0..Rows] /\ lost' \in [Commands -> 0..Rows]
    BY <2>1, <2>2, <2>3 DEF TypeOK
  <2>5. faults' \in 0..MaxFaults
    BY <1>3, SnapshotAssumption DEF TypeOK, Push, PushFails
  <2> QED
    BY <1>3, <2>4, <2>5 DEF TypeOK, Push, PushFails
<1>4. CASE Finish
  BY <1>4 DEF TypeOK, Finish, Images
<1> QED
  BY <1>1, <1>2, <1>3, <1>4 DEF LoopSteps

LEMMA SaveTypes ==
  ASSUME TypeOK, NEW s \in Savers, Save(s) \/ SaveFails(s)
  PROVE  TypeOK'
<1>0. saver \in [Savers -> SaverStates] /\ saver[s] \in SaverStates /\ saver[s].image \in Images
  BY DEF TypeOK, SaverStates
<1>1. CASE Marshal(s)
  <2>1. Saver("marshalled", memory, "none") \in SaverStates
    BY DEF TypeOK, Saver, SaverStates
  <2>2. saver' \in [Savers -> SaverStates]
    BY <1>0, <1>1, <2>1, SaverTypes DEF Marshal
  <2> QED
    BY <1>1, <2>2 DEF TypeOK, Marshal
<1>2. CASE Open(s)
  <2>1. [saver[s] EXCEPT !.pc = "opened", !.at = "tmp"] \in SaverStates
    BY <1>0 DEF SaverStates
  <2>2. saver' \in [Savers -> SaverStates]
    BY <1>0, <1>2, <2>1 DEF Open
  <2>3. tmp' \in Files
    BY <1>2, FileTypes DEF Open
  <2> QED
    BY <1>2, <2>2, <2>3 DEF TypeOK, Open
<1>3. CASE Write(s)
  <2>1. [saver[s] EXCEPT !.pc = "written"] \in SaverStates
    BY <1>0 DEF SaverStates
  <2>2. saver' \in [Savers -> SaverStates]
    BY <1>0, <1>3, <2>1 DEF Write
  <2>3. tmp' \in Files /\ snap' \in Files
    BY <1>0, <1>3, WrittenTypes DEF Write, TypeOK
  <2> QED
    BY <1>3, <2>2, <2>3 DEF TypeOK, Write
<1>4. CASE Rename(s)
  <2>1. saver' \in [Savers -> SaverStates]
    BY <1>0, <1>4, SaverTypes, RenamedTypes DEF Rename
  <2>2. tmp' \in Files /\ snap' \in Files
    BY <1>4, FileTypes DEF Rename, TypeOK
  <2> QED
    BY <1>4, <2>1, <2>2 DEF TypeOK, Rename
<1>5. CASE SaveFails(s)
  <2>1. saver' \in [Savers -> SaverStates]
    BY <1>0, <1>5, SaverTypes DEF SaveFails
  <2>2. tmp' \in Files /\ snap' \in Files
    BY <1>5, FileTypes DEF SaveFails, TypeOK
  <2>3. faults' \in 0..MaxFaults
    BY <1>5, SnapshotAssumption DEF SaveFails, TypeOK
  <2> QED
    BY <1>5, <2>1, <2>2, <2>3 DEF TypeOK, SaveFails
<1> QED
  BY <1>1, <1>2, <1>3, <1>4, <1>5 DEF Save

\* The process's own steps.
ProcessSteps == Sigterm \/ Exit \/ Kill \/ Boot

LEMMA ProcessTypes ==
  ASSUME TypeOK, ProcessSteps
  PROVE  TypeOK'
<1>0. saver \in [Savers -> SaverStates] /\ "signal" \in Savers
  BY DEF TypeOK, Savers
<1>1. ASSUME NEW how \in {"exited", "killed"}, Ends(how)
      PROVE  /\ process' \in {"up", "exited", "killed"}
             /\ memory' \in Images /\ popped' \in Images /\ current' \in Images
             /\ loop' \in {"idle", "popped", "locked"}
             /\ pushed' \in [Commands -> 0..Rows] /\ lost' \in [Commands -> 0..Rows]
             /\ saver' \in [Savers -> SaverStates]
             /\ tmp' \in Files /\ snap' \in Files
  BY <1>1, SaverTypes DEF Ends, TypeOK, Images
<1>2. CASE Sigterm
  <2>1. [saver["signal"] EXCEPT !.pc = "ready"] \in SaverStates
    BY <1>0 DEF SaverStates
  <2>2. saver' \in [Savers -> SaverStates]
    BY <1>0, <1>2, <2>1 DEF Sigterm
  <2>3. sigterms' \in 0..MaxSigterms
    BY <1>2, SnapshotAssumption DEF Sigterm, TypeOK
  <2> QED
    BY <1>2, <2>2, <2>3 DEF TypeOK, Sigterm
<1>3. CASE Exit
  BY <1>1, <1>3 DEF TypeOK, Exit
<1>4. CASE Kill
  <2>1. faults' \in 0..MaxFaults
    BY <1>4, SnapshotAssumption DEF Kill, TypeOK
  <2> QED
    BY <1>1, <1>4, <2>1 DEF TypeOK, Kill
<1>5. CASE Boot
  <2>1. memory' \in Images
    BY <1>5 DEF Boot, TypeOK, Images, Files
  <2> QED
    BY <1>5, <2>1 DEF TypeOK, Boot
<1> QED
  BY <1>2, <1>3, <1>4, <1>5 DEF ProcessSteps

LEMMA NextTypes == TypeOK /\ [Next]_vars => TypeOK'
<1> SUFFICES ASSUME TypeOK, [Next]_vars PROVE TypeOK'
  OBVIOUS
<1>1. CASE UNCHANGED vars
  BY <1>1 DEF TypeOK, vars
<1> QED
  BY <1>1, LoopTypes, SaveTypes, ProcessTypes DEF Next, LoopSteps, ProcessSteps

LEMMA InitTypes == Init => TypeOK
BY SaverTypes, FileTypes, SnapshotAssumption DEF Init, TypeOK, Images

\* Every state of the snapshot model has its type, for every bound.
THEOREM SnapshotTypes == Spec => []TypeOK
BY InitTypes, NextTypes, PTL DEF Spec

-----------------------------------------------------------------------------
(* Whole commands *)

\* A command whose rows are done stays so.
LEMMA ToldStays ==
  ASSUME TypeOK, [Next]_vars, NEW c \in Commands, Told(c)
  PROVE  Told(c)'
<1>1. CASE Push \/ PushFails
  <2>1. PICK d \in current :
          /\ ToPush(d) > 0
          /\ \/ pushed' = [pushed EXCEPT ![d] = @ + 1] /\ lost' = lost
             \/ lost' = [lost EXCEPT ![d] = @ + 1] /\ pushed' = pushed
    BY <1>1 DEF Push, PushFails
  <2>2. c # d
    BY <2>1 DEF Told
  <2>3. pushed'[c] = pushed[c] /\ lost'[c] = lost[c]
    BY <2>1, <2>2 DEF TypeOK
  <2> QED
    BY <2>3 DEF Told, ToPush
<1>2. CASE ~(Push \/ PushFails)
  <2>1. pushed' = pushed /\ lost' = lost
    BY <1>2 DEF Next, vars, Pop, Apply, Finish, Save, Marshal, Open, Write, Rename, SaveFails,
                Sigterm, Exit, Kill, Boot, Ends
  <2> QED
    BY <2>1 DEF Told, ToPush
<1> QED
  BY <1>1, <1>2

LEMMA WholeInit == Init => WholeInv
<1> SUFFICES ASSUME Init PROVE Accounted /\ ImagesTold
  BY InitTypes DEF WholeInv
<1>1. memory = {} /\ tmp.image = {} /\ snap.image = {}
  BY FileTypes DEF Init
<1>2. \A s \in Savers : saver[s].image = {}
  BY SaverTypes DEF Init
<1> QED
  BY <1>1, <1>2 DEF Accounted, ImagesTold

LEMMA WholeNext == WholeInv /\ [Next]_vars => WholeInv'
<1> SUFFICES ASSUME WholeInv, [Next]_vars PROVE WholeInv'
  OBVIOUS
<1>0. TypeOK /\ TypeOK' /\ Accounted /\ ImagesTold
  BY NextTypes DEF WholeInv
<1>1. /\ memory \subseteq Commands /\ current \subseteq Commands
      /\ saver \in [Savers -> SaverStates]
      /\ \A s \in Savers : saver[s].image \subseteq Commands
      /\ tmp \in Files /\ tmp.image \subseteq Commands
      /\ snap \in Files /\ snap.image \subseteq Commands
  BY <1>0 DEF TypeOK, Images, Files, SaverStates
<1>2. \A c \in Commands : Told(c) => Told(c)'
  BY <1>0, ToldStays
\* It is enough to see where what is in memory and in the images came from.
<1>3. ASSUME \A c \in memory' : Told(c)' \/ (loop' = "locked" /\ c \in current'),
             \A s \in Savers : \A c \in saver'[s].image : c \in Commands /\ Told(c),
             \A c \in tmp'.image : c \in Commands /\ Told(c),
             \A c \in snap'.image : c \in Commands /\ Told(c)
      PROVE  WholeInv'
  BY <1>0, <1>2, <1>3 DEF WholeInv, Accounted, ImagesTold
<1>4. ASSUME UNCHANGED <<saver, tmp, snap>>,
             \A c \in memory' : Told(c)' \/ (loop' = "locked" /\ c \in current')
      PROVE  WholeInv'
  BY <1>0, <1>1, <1>3, <1>4 DEF ImagesTold
<1>5. ASSUME UNCHANGED <<memory, loop, current>>,
             \A s \in Savers : \A c \in saver'[s].image : c \in Commands /\ Told(c),
             \A c \in tmp'.image : c \in Commands /\ Told(c),
             \A c \in snap'.image : c \in Commands /\ Told(c)
      PROVE  WholeInv'
  BY <1>0, <1>1, <1>2, <1>3, <1>5 DEF Accounted
<1>6. CASE \E c \in Commands : Pop(c)
  BY <1>0, <1>1, <1>2, <1>4, <1>6 DEF Pop, Accounted
<1>7. CASE Apply
  BY <1>0, <1>1, <1>2, <1>4, <1>7 DEF Apply, Accounted
<1>8. CASE Push \/ PushFails
  BY <1>0, <1>1, <1>2, <1>4, <1>8 DEF Push, PushFails, Accounted
<1>9. CASE Finish
  BY <1>0, <1>1, <1>2, <1>4, <1>9 DEF Finish, Accounted, Told
<1>10. ASSUME NEW s \in Savers, Marshal(s) PROVE WholeInv'
  <2>1. Saver("marshalled", memory, "none").image = memory
    BY DEF Saver
  <2>2. \A c \in memory : c \in Commands /\ Told(c)
    BY <1>0, <1>1, <1>10 DEF Marshal, Accounted
  <2>3. \A t \in Savers : saver'[t].image = saver[t].image \/ saver'[t].image \subseteq memory
    BY <1>1, <1>10, <2>1, SaverTypes DEF Marshal
  <2> QED
    BY <1>0, <1>1, <1>5, <1>10, <2>2, <2>3 DEF Marshal, ImagesTold
<1>11. ASSUME NEW s \in Savers, Open(s) PROVE WholeInv'
  <2>1. \A t \in Savers : saver'[t].image = saver[t].image
    BY <1>1, <1>11 DEF Open, SaverStates
  <2> QED
    BY <1>0, <1>1, <1>5, <1>11, <2>1, FileTypes DEF Open, ImagesTold
<1>12. ASSUME NEW s \in Savers, Write(s) PROVE WholeInv'
  <2>1. \A t \in Savers : saver'[t].image = saver[t].image
    BY <1>1, <1>12 DEF Write, SaverStates
  <2>2. /\ tmp'.image \subseteq tmp.image \cup saver[s].image
        /\ snap'.image \subseteq snap.image \cup saver[s].image
    <3>1. saver[s].image \in Images
      BY <1>1 DEF Images
    <3> QED
      BY <1>12, <3>1, WrittenTypes, FileTypes DEF Write
  <2> QED
    BY <1>0, <1>1, <1>5, <1>12, <2>1, <2>2 DEF Write, ImagesTold
<1>13. ASSUME NEW s \in Savers, Rename(s) PROVE WholeInv'
  <2>1. \A t \in Savers : saver'[t].image \subseteq saver[t].image
    BY <1>1, <1>13, SaverTypes, RenamedTypes DEF Rename
  <2>2. tmp'.image \subseteq tmp.image /\ snap'.image \subseteq tmp.image \cup snap.image
    BY <1>13, FileTypes DEF Rename
  <2> QED
    BY <1>0, <1>1, <1>5, <1>13, <2>1, <2>2 DEF Rename, ImagesTold
<1>14. ASSUME NEW s \in Savers, SaveFails(s) PROVE WholeInv'
  <2>1. \A t \in Savers : saver'[t].image \subseteq saver[t].image
    BY <1>1, <1>14, SaverTypes DEF SaveFails
  <2>2. tmp'.image \subseteq tmp.image /\ snap'.image \subseteq snap.image
    BY <1>14, FileTypes DEF SaveFails
  <2> QED
    BY <1>0, <1>1, <1>5, <1>14, <2>1, <2>2 DEF SaveFails, ImagesTold
<1>15. CASE Sigterm
  <2>1. \A t \in Savers : saver'[t].image = saver[t].image
    BY <1>1, <1>15 DEF Sigterm, SaverStates
  <2> QED
    BY <1>0, <1>1, <1>5, <1>15, <2>1 DEF Sigterm, ImagesTold
<1>16. ASSUME NEW how, Ends(how) PROVE WholeInv'
  <2>1. \A t \in Savers : saver'[t].image = {}
    BY <1>16, SaverTypes DEF Ends
  <2> QED
    BY <1>0, <1>1, <1>3, <1>16, <2>1 DEF Ends, ImagesTold
<1>17. CASE Boot
  <2>1. \A c \in memory' : Told(c)'
    BY <1>0, <1>1, <1>2, <1>17 DEF Boot, ImagesTold
  <2> QED
    BY <1>4, <1>17, <2>1 DEF Boot
<1>18. CASE UNCHANGED vars
  BY <1>0, <1>1, <1>5, <1>18 DEF vars, ImagesTold
<1> QED
  BY <1>6, <1>7, <1>8, <1>9, <1>10, <1>11, <1>12, <1>13, <1>14, <1>15, <1>16, <1>17, <1>18
     DEF Next, Save, Exit, Kill

\* No snapshot, whoever wrote it and whenever the process died, holds a command
\* that its handler had not come to the end of: what a restart brings back has
\* no rows still to push.
THEOREM OnlyWholeCommands == Spec => []SnapshotHoldsWholeCommands
<1>1. WholeInv => SnapshotHoldsWholeCommands
  BY DEF WholeInv, ImagesTold, Told, SnapshotHoldsWholeCommands, Saved
<1> QED
  BY <1>1, WholeInit, WholeNext, PTL DEF Spec

-----------------------------------------------------------------------------
(* Never behind the snapshot *)

LEMMA CoveredInit == Init => CoveredInv
<1> SUFFICES ASSUME Init PROVE ImagesAreWhole /\ Covered
  BY InitTypes DEF CoveredInv
<1>1. memory = {} /\ tmp.image = {} /\ snap.image = {}
  BY FileTypes DEF Init
<1>2. \A s \in Savers : saver[s] = AtRest(s)
  BY DEF Init
<1>3. \A s \in Savers : saver[s].image = {}
  BY <1>2, SaverTypes
<1> QED
  BY <1>1, <1>2, <1>3 DEF ImagesAreWhole, Covered

LEMMA CoveredNext == CoveredInv /\ [Next]_vars => CoveredInv'
<1> SUFFICES ASSUME CoveredInv, [Next]_vars PROVE CoveredInv'
  OBVIOUS
<1>0. TypeOK /\ TypeOK' /\ ImagesAreWhole /\ Covered
  BY NextTypes DEF CoveredInv
<1>1. /\ saver \in [Savers -> SaverStates]
      /\ tmp \in Files /\ snap \in Files
  BY <1>0 DEF TypeOK
\* Steps that change no file and no saver's image, and lose no memory.
<1>2. ASSUME process = "up", process' = "up", UNCHANGED <<tmp, snap>>, memory \subseteq memory',
             \A s \in Savers : saver'[s].image \subseteq memory',
             \A s \in Savers : saver'[s].pc \in {"opened", "written"}
                               => saver[s].pc \in {"opened", "written"}
      PROVE  CoveredInv'
  BY <1>0, <1>2 DEF CoveredInv, Covered, ImagesAreWhole
\* Steps of a saver, which do not change the memory.
<1>3. ASSUME process = "up", process' = "up", memory' = memory,
             \A s \in Savers : saver'[s].image \subseteq memory,
             tmp' \in {tmp, Absent, Empty, Torn} \/ (tmp'.state = "whole" /\ tmp'.image \subseteq memory),
             snap' \in {snap, Empty, Torn} \/ (snap'.state = "whole" /\ snap'.image \subseteq memory),
             (\E s \in Savers : saver'[s].pc \in {"opened", "written"}) => tmp'.image \subseteq memory
      PROVE  CoveredInv'
  <2>1. ImagesAreWhole'
    BY <1>0, <1>3, FileTypes DEF ImagesAreWhole
  <2>2. snap'.image \subseteq memory
    BY <1>0, <1>3, FileTypes DEF Covered
  <2> QED
    BY <1>0, <1>3, <2>1, <2>2 DEF CoveredInv, Covered
<1>4. CASE LoopSteps
  <2>1. process = "up" /\ process' = "up" /\ UNCHANGED <<saver, tmp, snap>> /\ memory \subseteq memory'
    BY <1>4 DEF LoopSteps, Pop, Apply, Push, PushFails, Finish
  <2>2. \A s \in Savers : saver'[s].image \subseteq memory'
    BY <1>0, <2>1 DEF Covered
  <2> QED
    BY <1>2, <2>1, <2>2
<1>5. ASSUME NEW s \in Savers, Marshal(s) PROVE CoveredInv'
  <2>1. LET m == Saver("marshalled", memory, "none")
        IN  m.image = memory /\ m.pc = "marshalled"
    BY DEF Saver
  <2>2. \A t \in Savers : /\ saver'[t].image \subseteq memory
                          /\ saver'[t].pc \in {"opened", "written"}
                             => saver[t].pc \in {"opened", "written"}
    BY <1>0, <1>1, <1>5, <2>1, SaverTypes DEF Marshal, Covered
  <2> QED
    BY <1>2, <1>5, <2>2 DEF Marshal
<1>6. ASSUME NEW s \in Savers, Open(s) PROVE CoveredInv'
  <2>1. \A t \in Savers : saver'[t].image = saver[t].image
    BY <1>1, <1>6 DEF Open, SaverStates
  <2>2. process = "up" /\ process' = "up" /\ memory' = memory /\ tmp' = Empty /\ snap' = snap
    BY <1>6 DEF Open
  <2> QED
    BY <1>0, <1>3, <2>1, <2>2, FileTypes DEF Covered
<1>7. ASSUME NEW s \in Savers, Write(s) PROVE CoveredInv'
  <2>1. \A t \in Savers : saver'[t].image = saver[t].image
    BY <1>1, <1>7 DEF Write, SaverStates
  <2>2. process = "up" /\ process' = "up" /\ memory' = memory /\ saver[s].pc = "opened"
    BY <1>7 DEF Write
  <2>3. saver[s].image \subseteq memory /\ tmp.image \subseteq memory
    BY <1>0, <2>2 DEF Covered
  <2>4. saver[s].image \in Images
    BY <1>1 DEF SaverStates
  <2>5. /\ tmp' \in {tmp, Torn} \/ (tmp'.state = "whole" /\ tmp'.image \subseteq memory)
        /\ snap' \in {snap, Torn} \/ (snap'.state = "whole" /\ snap'.image \subseteq memory)
    BY <1>7, <2>3, <2>4, WrittenTypes DEF Write
  <2>6. tmp'.image \subseteq memory
    BY <2>3, <2>5, FileTypes
  <2> QED
    BY <1>0, <1>3, <2>1, <2>2, <2>5, <2>6 DEF Covered
<1>8. ASSUME NEW s \in Savers, Rename(s) PROVE CoveredInv'
  <2>1. \A t \in Savers : /\ saver'[t].image \subseteq saver[t].image
                          /\ saver'[t].pc \in {"opened", "written"}
                             => saver[t].pc \in {"opened", "written"}
    BY <1>1, <1>8, SaverTypes, RenamedTypes DEF Rename
  <2>2. process = "up" /\ process' = "up" /\ memory' = memory /\ saver[s].pc = "written"
    BY <1>8 DEF Rename
  <2>3. tmp.image \subseteq memory /\ \A t \in Savers : saver'[t].image \subseteq memory
    BY <1>0, <2>1, <2>2 DEF Covered
  <2>4. CASE tmp = Absent
    BY <1>2, <1>8, <2>1, <2>2, <2>3, <2>4 DEF Rename
  <2>5. CASE tmp # Absent
    <3>1. tmp' = Absent /\ snap' = tmp
      BY <1>8, <2>5 DEF Rename
    <3>2. ImagesAreWhole'
      BY <1>0, <3>1, FileTypes DEF ImagesAreWhole
    <3> QED
      BY <1>0, <2>2, <2>3, <3>1, <3>2, FileTypes DEF CoveredInv, Covered
  <2> QED
    BY <2>4, <2>5
<1>9. ASSUME NEW s \in Savers, SaveFails(s) PROVE CoveredInv'
  <2>1. \A t \in Savers : saver'[t].image \subseteq saver[t].image
    BY <1>1, <1>9, SaverTypes DEF SaveFails
  <2>2. process = "up" /\ process' = "up" /\ memory' = memory
    BY <1>9 DEF SaveFails
  <2>3. tmp' \in {tmp, Torn} /\ snap' \in {snap, Torn}
    BY <1>9 DEF SaveFails
  <2>4. \A t \in Savers : saver'[t].pc \in {"opened", "written"}
                          => saver[t].pc \in {"opened", "written"}
    BY <1>1, <1>9, SaverTypes DEF SaveFails
  <2>5. (\E t \in Savers : saver'[t].pc \in {"opened", "written"}) => tmp'.image \subseteq memory
    BY <1>0, <2>2, <2>3, <2>4, FileTypes DEF Covered
  <2> QED
    BY <1>0, <1>3, <2>1, <2>2, <2>3, <2>5 DEF Covered
<1>10. CASE Sigterm
  <2>1. \A t \in Savers : /\ saver'[t].image = saver[t].image
                          /\ saver'[t].pc \in {"opened", "written"}
                             => saver[t].pc \in {"opened", "written"}
    BY <1>1, <1>10 DEF Sigterm, SaverStates
  <2>2. \A t \in Savers : saver'[t].image \subseteq memory
    BY <1>0, <1>10, <2>1 DEF Sigterm, Covered
  <2> QED
    BY <1>2, <1>10, <2>1, <2>2 DEF Sigterm
<1>11. ASSUME NEW how \in {"exited", "killed"}, Ends(how) PROVE CoveredInv'
  BY <1>0, <1>11 DEF Ends, CoveredInv, Covered, ImagesAreWhole
<1>12. CASE Boot
  <2>1. \A s \in Savers : saver'[s] = AtRest(s)
    BY <1>0, <1>12 DEF Boot, Covered
  <2>2. snap.image \subseteq memory'
    BY <1>0, <1>12 DEF Boot, ImagesAreWhole
  <2>3. \A s \in Savers : saver'[s].image = {} /\ saver'[s].pc \notin {"opened", "written"}
    BY <2>1, SaverTypes
  <2> QED
    BY <1>0, <1>12, <2>2, <2>3 DEF Boot, CoveredInv, Covered, ImagesAreWhole
<1>13. CASE UNCHANGED vars
  BY <1>0, <1>13 DEF vars, CoveredInv, Covered, ImagesAreWhole
<1> QED
  BY <1>4, <1>5, <1>6, <1>7, <1>8, <1>9, <1>10, <1>11, <1>12, <1>13
     DEF Next, LoopSteps, Save, Exit, Kill

\* The engine never serves from a state older than the snapshot it would
\* restore: a restart takes the snapshot over and no save, not even two that
\* share the temporary file, installs what an earlier life had ahead of it.
THEOREM MemoryCovers == Spec => []MemoryCoversSnapshot
<1>1. CoveredInv => MemoryCoversSnapshot
  BY DEF CoveredInv, Covered, MemoryCoversSnapshot, Saved
<1> QED
  BY <1>1, CoveredInit, CoveredNext, PTL DEF Spec

-----------------------------------------------------------------------------
(* The ticker alone *)

\* Before any SIGTERM only the ticker saves.  Its temporary file is its own,
\* so what it renames is the whole image it marshalled, and that one is no
\* older than the snapshot it replaces.
TickerAlone ==
  LET ticker == saver["ticker"]
  IN  sigterms = 0 =>
        /\ saver["signal"] = AtRest("signal")
        /\ ticker.pc \in {"marshalled", "opened", "written"} => snap.image \subseteq ticker.image
        /\ ticker.pc \in {"opened", "written"} => ticker.at = "tmp"
        /\ ticker.pc = "opened" => tmp = Empty
        /\ ticker.pc = "written" => tmp = File("whole", ticker.image)

AloneInv == CoveredInv /\ TickerAlone

\* The fields of a save at rest.
LEMMA RestFields ==
  /\ AtRest("signal").pc = "waiting"
  /\ AtRest("ticker").pc = "ready" /\ Returned("ticker").pc = "ready"
  BY DEF AtRest, Returned, Saver

LEMMA AloneInit == Init => AloneInv
<1>1. Init => TickerAlone
  BY RestFields DEF Init, TickerAlone, Savers
<1> QED
  BY <1>1, CoveredInit DEF AloneInv

LEMMA AloneNext ==
  ASSUME AloneInv, [Next]_vars
  PROVE  TickerAlone' /\ (sigterms = 0 => \A c \in Commands : Saved(c) => Saved(c)')
<1> DEFINE Goal == TickerAlone' /\ (sigterms = 0 => \A c \in Commands : Saved(c) => Saved(c)')
<1>0. /\ TypeOK /\ TypeOK' /\ ImagesAreWhole /\ Covered /\ TickerAlone
      /\ saver \in [Savers -> SaverStates] /\ "ticker" \in Savers /\ "signal" \in Savers
      /\ "ticker" # "signal"
  BY NextTypes DEF AloneInv, CoveredInv, TypeOK, Savers
<1>1. sigterms' = 0 => sigterms = 0
  <2>1. sigterms' \in {sigterms, sigterms + 1} /\ sigterms \in Nat
    <3>1. sigterms \in Nat
      BY <1>0, SnapshotAssumption DEF TypeOK, SnapshotAssumption
    <3> QED
      BY <3>1 DEF Next, Pop, Apply, Push, PushFails, Finish, Save, Marshal, Open, Write, Rename, SaveFails,
         Sigterm, Exit, Kill, Ends, Boot, vars
  <2> QED
    BY <2>1
<1>2. SUFFICES ASSUME sigterms = 0 PROVE Goal
  BY <1>1 DEF TickerAlone
<1>3. /\ saver["signal"] = AtRest("signal") /\ saver["signal"].pc = "waiting"
      /\ saver["ticker"].pc \in {"marshalled", "opened", "written"}
           => snap.image \subseteq saver["ticker"].image
      /\ saver["ticker"].pc \in {"opened", "written"} => saver["ticker"].at = "tmp"
      /\ saver["ticker"].pc = "opened" => tmp = Empty
      /\ saver["ticker"].pc = "written" => tmp = File("whole", saver["ticker"].image)
  BY <1>0, <1>2, RestFields DEF TickerAlone
\* Nothing happens to the files and the saves.
<1>4. ASSUME UNCHANGED <<saver, tmp, snap>> PROVE Goal
  BY <1>2, <1>3, <1>4 DEF TickerAlone, Saved
\* The ticker is back, or has not begun, and the snapshot is untouched.
<1>5. ASSUME snap' = snap, saver'["ticker"].pc = "ready", saver'["signal"] = saver["signal"] PROVE Goal
  BY <1>2, <1>3, <1>5 DEF TickerAlone, Saved
<1>6. CASE LoopSteps
  BY <1>4, <1>6 DEF LoopSteps, Pop, Apply, Push, PushFails, Finish
<1>7. ASSUME NEW s \in Savers, Save(s) \/ SaveFails(s)
      PROVE  s = "ticker"
  <2>1. saver[s].pc # "waiting"
    BY <1>7 DEF Save, Marshal, Open, Write, Rename, SaveFails
  <2> QED
    BY <1>3, <2>1 DEF Savers
<1>8. CASE Marshal("ticker")
  <2>1. /\ UNCHANGED <<tmp, snap>> /\ process = "up"
        /\ saver' = [saver EXCEPT !["ticker"] = IF memory \cap Poison = {}
                                                THEN Saver("marshalled", memory, "none")
                                                ELSE Returned("ticker")]
    BY <1>8 DEF Marshal
  <2>2. saver'["signal"] = saver["signal"]
    BY <1>0, <2>1
  <2>3. CASE memory \cap Poison = {}
    <3>1. saver'["ticker"].pc = "marshalled" /\ saver'["ticker"].image = memory
      BY <1>0, <2>1, <2>3 DEF Saver
    <3>2. snap.image \subseteq memory
      BY <1>0, <2>1 DEF Covered
    <3> QED
      BY <1>3, <2>1, <2>2, <3>1, <3>2 DEF TickerAlone, Saved
  <2>4. CASE memory \cap Poison # {}
    <3>1. saver'["ticker"].pc = "ready"
      BY <1>0, <2>1, <2>4, RestFields
    <3> QED
      BY <1>5, <2>1, <2>2, <3>1
  <2> QED
    BY <2>3, <2>4
<1>9. CASE Open("ticker")
  <2>1. /\ snap' = snap /\ tmp' = Empty /\ saver["ticker"].pc = "marshalled"
        /\ saver' = [saver EXCEPT !["ticker"].pc = "opened", !["ticker"].at = "tmp"]
    BY <1>9 DEF Open
  <2>2. /\ saver'["signal"] = saver["signal"] /\ saver'["ticker"].pc = "opened"
        /\ saver'["ticker"].at = "tmp" /\ saver'["ticker"].image = saver["ticker"].image
    BY <1>0, <2>1 DEF SaverStates
  <2> QED
    BY <1>3, <2>1, <2>2 DEF TickerAlone, Saved
<1>10. CASE Write("ticker")
  <2>1. /\ saver["ticker"].pc = "opened" /\ saver["ticker"].at = "tmp" /\ tmp = Empty
        /\ tmp' \in Written(tmp, saver["ticker"].image) /\ snap' = snap
        /\ saver' = [saver EXCEPT !["ticker"].pc = "written"]
    BY <1>3, <1>10 DEF Write
  <2>2. /\ saver'["signal"] = saver["signal"] /\ saver'["ticker"].pc = "written"
        /\ saver'["ticker"].at = "tmp" /\ saver'["ticker"].image = saver["ticker"].image
    BY <1>0, <2>1 DEF SaverStates
  <2>3. tmp' = File("whole", saver["ticker"].image)
    BY <2>1, FileTypes DEF Written
  <2> QED
    BY <1>3, <2>1, <2>2, <2>3 DEF TickerAlone, Saved
<1>11. CASE Rename("ticker")
  <2>1. saver["ticker"].pc = "written" /\ tmp = File("whole", saver["ticker"].image)
    BY <1>3, <1>11 DEF Rename
  <2>2. tmp.state = "whole" /\ tmp.image = saver["ticker"].image
    BY <2>1 DEF File
  <2>3. tmp # Absent
    BY <2>2, FileTypes
  <2>4. /\ snap' = tmp
        /\ saver' = [t \in Savers |-> IF t = "ticker" THEN Returned("ticker") ELSE Renamed(saver[t])]
    BY <1>11, <2>3 DEF Rename
  <2>5. saver'["ticker"].pc = "ready"
    BY <1>0, <2>4, RestFields
  <2>6. saver'["signal"] = saver["signal"]
    <3>1. saver'["signal"] = Renamed(AtRest("signal"))
      BY <1>0, <1>3, <2>4
    <3>2. Renamed(AtRest("signal")) = AtRest("signal")
      BY DEF Renamed, AtRest, Saver
    <3> QED
      BY <1>3, <3>1, <3>2
  <2>7. TickerAlone'
    BY <1>3, <2>5, <2>6 DEF TickerAlone
  <2>8. snap.image \subseteq snap'.image /\ snap'.state = "whole"
    BY <1>3, <2>1, <2>2, <2>4
  <2> QED
    BY <2>7, <2>8 DEF Saved
<1>12. CASE SaveFails("ticker")
  <2>1. /\ saver' = [saver EXCEPT !["ticker"] = Returned("ticker")] /\ snap' = snap
    BY <1>3, <1>12 DEF SaveFails
  <2>2. saver'["ticker"].pc = "ready" /\ saver'["signal"] = saver["signal"]
    BY <1>0, <2>1, RestFields
  <2> QED
    BY <1>5, <2>1, <2>2
<1>13. CASE Sigterm
  <2>1. sigterms' = sigterms + 1 /\ snap' = snap
    BY <1>13 DEF Sigterm
  <2> QED
    BY <1>2, <2>1 DEF TickerAlone, Saved
<1>14. ASSUME NEW how \in {"exited", "killed"}, Ends(how) PROVE Goal
  <2>1. snap' = snap /\ saver'["ticker"] = AtRest("ticker") /\ saver'["signal"] = AtRest("signal")
    BY <1>0, <1>14 DEF Ends
  <2> QED
    BY <1>3, <1>5, <2>1, RestFields
<1>15. CASE Boot
  BY <1>4, <1>15 DEF Boot
<1>16. CASE UNCHANGED vars
  BY <1>4, <1>16 DEF vars
<1> QED
  BY <1>6, <1>7, <1>8, <1>9, <1>10, <1>11, <1>12, <1>13, <1>14, <1>15, <1>16
  DEF Next, LoopSteps, Save, Exit, Kill

\* Until the first SIGTERM a command that is in the snapshot stays there, through
\* kills, failed writes and restarts.
THEOREM SavedForGood == Spec => SavedStays
<1>1. AloneInv /\ [Next]_vars => AloneInv'
  BY CoveredNext, AloneNext DEF AloneInv
<1>2. AloneInv /\ [Next]_vars => [sigterms = 0 => \A c \in Commands : Saved(c) => Saved(c)']_vars
  BY AloneNext
<1> QED
  BY <1>1, <1>2, AloneInit, PTL DEF Spec, SavedStays
=============================================================================
