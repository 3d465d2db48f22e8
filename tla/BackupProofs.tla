---------------------------- MODULE BackupProofs ----------------------------
(***************************************************************************)
(* Proofs about the remote backup, for any sets of changes and of tasks    *)
(* and any number of abandoned uploads.                                    *)
(***************************************************************************)
EXTENDS Backup, TLAPS

-----------------------------------------------------------------------------
LEMMA BlobFacts ==
  /\ Absent \in Blob /\ Torn \in Blob
  /\ \A S \in SUBSET Changes : Db(S) \in Blob
  /\ \A b \in Blob : b.has \in SUBSET Changes
BY DEF Blob, Absent, Torn, Db

-----------------------------------------------------------------------------
(* The types. *)

\* Every variable keeps its type, whatever the interleaving of node, tasks,
\* server and notification process.
THEOREM TypeCorrect == Spec => []TypeOK
<1> USE BlobFacts DEF TypeOK, BackupStatus, PcStates, history
<1>1. Init => TypeOK
  BY DEF Init
<1>2. TypeOK /\ [Next]_vars => TypeOK'
  <2> SUFFICES ASSUME TypeOK, [Next]_vars PROVE TypeOK'
    OBVIOUS
  <2>1. ASSUME NEW t \in Tasks, Start(t) PROVE TypeOK'
    BY <2>1 DEF Start, SpawnBackupTask, StartStatus
  <2>2. ASSUME NEW t \in Tasks, Foreground(t) PROVE TypeOK'
    BY <2>2 DEF Foreground, SpawnBackupTask
  <2>3. CASE Background
    BY <2>3 DEF Background
  <2>4. ASSUME NEW t \in Tasks, Tick(t) PROVE TypeOK'
    BY <2>4 DEF Tick
  <2>5. ASSUME NEW t \in Tasks, Stop(t) PROVE TypeOK'
    BY <2>5 DEF Stop
  <2>6. ASSUME NEW t \in Tasks, CopyBegin(t) PROVE TypeOK'
    BY <2>6 DEF CopyBegin
  <2>7. ASSUME NEW t \in Tasks, CopyEnd(t) PROVE TypeOK'
    BY <2>7 DEF CopyEnd, Owes
  <2>8. ASSUME NEW t \in Tasks, CopyFail(t) PROVE TypeOK'
    BY <2>8 DEF CopyFail, AfterFailedCopy
  <2>9. ASSUME NEW t \in Tasks, UploadBegin(t) PROVE TypeOK'
    BY <2>9 DEF UploadBegin, Readable
  <2>10. ASSUME NEW t \in Tasks, ReadFail(t) PROVE TypeOK'
    BY <2>10 DEF ReadFail
  <2>11. ASSUME NEW t \in Tasks, ServerApply(t) PROVE TypeOK'
    BY <2>11 DEF ServerApply
  <2>12. ASSUME NEW t \in Tasks, Finish(t) PROVE TypeOK'
    BY <2>12 DEF Finish
  <2>13. ASSUME NEW t \in Tasks, UploadFail(t) PROVE TypeOK'
    BY <2>13 DEF UploadFail, Strands
  <2>14. ASSUME NEW c \in Changes, FlaggedWrite(c) PROVE TypeOK'
    BY <2>14 DEF FlaggedWrite, Owes, RaisedStatus
  <2>15. ASSUME NEW c \in Changes, TopupWrite(c) PROVE TypeOK'
    BY <2>15 DEF TopupWrite
  <2>16. ASSUME NEW c \in Changes, NotificationWrite(c) PROVE TypeOK'
    BY <2>16 DEF NotificationWrite
  <2>17. CASE FailedWrite
    BY <2>17 DEF FailedWrite, RaisedStatus
  <2>18. ASSUME NEW b \in stray, StrayArrives(b) PROVE TypeOK'
    BY <2>18 DEF StrayArrives
  <2>19. CASE Crash
    BY <2>19 DEF Crash, ProcessEnds, Strands
  <2>20. CASE LoseFiles
    BY <2>20 DEF LoseFiles, ProcessEnds, Strands
  <2>21. CASE Recover
    BY <2>21 DEF Recover
  <2>22. CASE RecoverInterrupted
    BY <2>22 DEF RecoverInterrupted
  <2>23. CASE StartFails
    BY <2>23 DEF StartFails
  <2>24. CASE UNCHANGED vars
    BY <2>24 DEF vars, history
  <2>25. QED
    BY <2>1, <2>2, <2>3, <2>4, <2>5, <2>6, <2>7, <2>8, <2>9, <2>10, <2>11,
       <2>12, <2>13, <2>14, <2>15, <2>16, <2>17, <2>18, <2>19, <2>20, <2>21,
       <2>22, <2>23, <2>24 DEF Next, Task
<1>3. QED
  BY <1>1, <1>2, PTL DEF Spec

-----------------------------------------------------------------------------
(* What every copy on its way to the server holds.  CompleteMeansBackedUp is *)
(* not inductive: the flag is lowered on the strength of what the server     *)
(* stored, the server stores what a task read, and a task reads what was     *)
(* copied.  Settled follows a due change down that path: nothing that is     *)
(* past the copy lacks one, and an abandoned upload lacks exposed ones only. *)

Holds(b, S) == b = Torn \/ S \subseteq b.has

\* The remote copy holds what is due, but for what a late upload took back.
Kept == remote = Torn \/ \A c \in due : c \in remote.has \/ (late /\ c \in exposed)

Settled ==
  /\ due \subseteq db.has
  /\ \A b \in stray : Holds(b, due \ exposed)
  /\ \A t \in Tasks : pc[t] = "copied" => due \subseteq file.has
  /\ \A t \in Tasks : pc[t] \in {"uploading", "applied"} => Holds(blob[t], due)
  /\ \A t \in Tasks : pc[t] = "applied" => Kept
  /\ status = "Complete" => Kept

LEMMA SettledInit == Init => Settled
BY DEF Init, Settled, Kept, Absent

\* What becomes due was in the database, and every upload given up before that
\* lacks it or exposes nothing of it.
LEMMA OwesKeepsStrays ==
  ASSUME NEW new, Owes(new), UNCHANGED stray, \A b \in stray : Holds(b, due \ exposed)
  PROVE  \A b \in stray' : Holds(b, due' \ exposed')
BY DEF Owes, Holds

LEMMA SettledStep == TypeOK /\ Settled /\ [Next]_vars => Settled'
<1> SUFFICES ASSUME TypeOK, Settled, [Next]_vars PROVE Settled'
  OBVIOUS
<1> USE DEF TypeOK, Settled, Kept, Holds, history
<1>1. ASSUME NEW t \in Tasks, Start(t) PROVE Settled'
  <2>1. db.has = db'.has
    BY <1>1 DEF Start, Absent, Db
  <2> QED
    BY <1>1, <2>1 DEF Start, SpawnBackupTask, StartStatus, Alive
<1>2. ASSUME NEW t \in Tasks, Foreground(t) PROVE Settled'
  BY <1>2 DEF Foreground, SpawnBackupTask, Alive
<1>3. CASE Background
  BY <1>3 DEF Background
<1>4. ASSUME NEW t \in Tasks, Tick(t) PROVE Settled'
  BY <1>4 DEF Tick
<1>5. ASSUME NEW t \in Tasks, Stop(t) PROVE Settled'
  BY <1>5 DEF Stop
<1>6. ASSUME NEW t \in Tasks, CopyBegin(t) PROVE Settled'
  BY <1>6 DEF CopyBegin
<1>7. ASSUME NEW t \in Tasks, CopyEnd(t) PROVE Settled'
  \* Either the flag is up and nobody else is past the copy, or nothing new is due.
  <2> DEFINE found == IF status = "WaitingForBackup" /\ ~UnderWay(Tasks \ {t}) THEN db.has ELSE {}
  <2>1. /\ pc' = [pc EXCEPT ![t] = "copied"]
        /\ file' = db /\ Owes(found)
        /\ UNCHANGED <<node, db, status, stop, blob, stray, remote>>
    BY <1>7 DEF CopyEnd
  <2>2. due' = due \cup found /\ exposed \subseteq exposed' /\ UNCHANGED late
    BY <2>1 DEF Owes
  <2>3. \A b \in stray' : Holds(b, due' \ exposed')
    BY <2>1, OwesKeepsStrays
  <2>4. due' \subseteq db.has
    BY <2>2
  <2>5. CASE found = {}
    <3>1. Kept => Kept'
      BY <2>1, <2>2, <2>5
    <3> QED
      BY <2>1, <2>2, <2>3, <2>4, <2>5, <3>1
  <2>6. CASE status = "WaitingForBackup" /\ ~UnderWay(Tasks \ {t})
    <3>1. \A u \in Tasks \ {t} : pc'[u] \notin {"copied", "uploading", "applied"}
      BY <2>1, <2>6 DEF UnderWay, Holding
    <3>2. pc'[t] = "copied" /\ status' # "Complete"
      BY <2>1, <2>6
    <3> QED
      BY <2>1, <2>3, <2>4, <3>1, <3>2
  <2> QED
    BY <2>5, <2>6
<1>8. ASSUME NEW t \in Tasks, CopyFail(t) PROVE Settled'
  BY <1>8 DEF CopyFail, AfterFailedCopy
<1>9. ASSUME NEW t \in Tasks, UploadBegin(t) PROVE Settled'
  BY <1>9 DEF UploadBegin, Readable
<1>10. ASSUME NEW t \in Tasks, ReadFail(t) PROVE Settled'
  BY <1>10 DEF ReadFail
<1>11. ASSUME NEW t \in Tasks, ServerApply(t) PROVE Settled'
  BY <1>11 DEF ServerApply
<1>12. ASSUME NEW t \in Tasks, Finish(t) PROVE Settled'
  BY <1>12 DEF Finish, Confirmed
<1>13. ASSUME NEW t \in Tasks, UploadFail(t) PROVE Settled'
  BY <1>13 DEF UploadFail, Strands
<1>14. ASSUME NEW c \in Changes, FlaggedWrite(c) PROVE Settled'
  \* Either nobody is past the copy, or the new change is not due.
  <2> DEFINE new == IF UnderWay(Tasks) THEN {} ELSE {c}
  <2>1. /\ db'.has = db.has \cup {c} /\ Owes(new)
        /\ UNCHANGED <<node, file, pc, stop, blob, stray, remote>>
    BY <1>14 DEF FlaggedWrite, Db
  <2>2. status' = "WaitingForBackup"
    BY <1>14 DEF FlaggedWrite, RaisedStatus
  <2>3. due' = due \cup new /\ exposed \subseteq exposed' /\ UNCHANGED late
    BY <2>1 DEF Owes
  <2>4. \A b \in stray' : Holds(b, due' \ exposed')
    BY <2>1, OwesKeepsStrays
  <2>5. CASE UnderWay(Tasks)
    <3>1. Kept => Kept'
      BY <2>1, <2>3, <2>5
    <3> QED
      BY <2>1, <2>2, <2>3, <2>4, <2>5, <3>1
  <2>6. CASE ~UnderWay(Tasks)
    <3>1. \A t \in Tasks : pc'[t] \notin {"copied", "uploading", "applied"}
      BY <2>1, <2>6 DEF UnderWay, Holding
    <3> QED
      BY <2>1, <2>2, <2>3, <2>4, <3>1
  <2> QED
    BY <2>5, <2>6
<1>15. ASSUME NEW c \in Changes, TopupWrite(c) PROVE Settled'
  <2>1. db.has \subseteq db'.has
    BY <1>15 DEF TopupWrite, Db
  <2> QED
    BY <1>15, <2>1 DEF TopupWrite
<1>16. ASSUME NEW c \in Changes, NotificationWrite(c) PROVE Settled'
  <2>1. db.has \subseteq db'.has
    BY <1>16 DEF NotificationWrite, Db
  <2> QED
    BY <1>16, <2>1 DEF NotificationWrite
<1>17. CASE FailedWrite
  BY <1>17 DEF FailedWrite, RaisedStatus
<1>18. ASSUME NEW b \in stray, StrayArrives(b) PROVE Settled'
  BY <1>18 DEF StrayArrives
<1>19. CASE Crash
  BY <1>19 DEF Crash, ProcessEnds, Strands
<1>20. CASE LoseFiles
  BY <1>20 DEF LoseFiles, ProcessEnds, Strands
<1>21. CASE Recover
  BY <1>21 DEF Recover, Absent
<1>22. CASE RecoverInterrupted
  BY <1>22 DEF RecoverInterrupted, Absent, Torn
<1>23. CASE StartFails
  BY <1>23 DEF StartFails, Absent, Db
<1>24. CASE UNCHANGED vars
  BY <1>24 DEF vars
<1>25. QED
  BY <1>1, <1>2, <1>3, <1>4, <1>5, <1>6, <1>7, <1>8, <1>9, <1>10, <1>11,
     <1>12, <1>13, <1>14, <1>15, <1>16, <1>17, <1>18, <1>19, <1>20, <1>21,
     <1>22, <1>23, <1>24 DEF Next, Task

LEMMA SettledInvariant == Spec => []Settled
BY SettledInit, SettledStep, TypeCorrect, PTL DEF Spec

-----------------------------------------------------------------------------
(* Where bytes that are no database can come from.  A task that is alone     *)
(* reads a finished copy of a database that opened.                          *)

Alone ==
  /\ node = "down" => \A t \in Tasks : ~Alive(t)
  /\ Up => db # Torn
  /\ file # Torn
  /\ ~overlap => /\ \A t, u \in Tasks : Alive(t) /\ Alive(u) => t = u
                 /\ \A t \in Tasks : blob[t] # Torn
                 /\ Torn \notin stray
                 /\ remote # Torn

LEMMA DbIsNotTorn ==
  /\ Absent # Torn
  /\ \A S : Db(S) # Torn
BY DEF Absent, Torn, Db

LEMMA AloneInit == Init => Alone
BY DbIsNotTorn DEF Init, Alone, Alive, Up

LEMMA AloneStep == TypeOK /\ Alone /\ [Next]_vars => Alone'
<1> SUFFICES ASSUME TypeOK, Alone, [Next]_vars PROVE Alone'
  OBVIOUS
<1> USE DbIsNotTorn DEF TypeOK, Alone, Alive, Up, history
<1>1. ASSUME NEW t \in Tasks, Start(t) PROVE Alone'
  BY <1>1 DEF Start, SpawnBackupTask, Opens
<1>2. ASSUME NEW t \in Tasks, Foreground(t) PROVE Alone'
  BY <1>2 DEF Foreground, SpawnBackupTask
<1>3. CASE Background
  BY <1>3 DEF Background
<1>4. ASSUME NEW t \in Tasks, Tick(t) PROVE Alone'
  BY <1>4 DEF Tick
<1>5. ASSUME NEW t \in Tasks, Stop(t) PROVE Alone'
  BY <1>5 DEF Stop
<1>6. ASSUME NEW t \in Tasks, CopyBegin(t) PROVE Alone'
  BY <1>6 DEF CopyBegin
<1>7. ASSUME NEW t \in Tasks, CopyEnd(t) PROVE Alone'
  BY <1>7 DEF CopyEnd, Owes
<1>8. ASSUME NEW t \in Tasks, CopyFail(t) PROVE Alone'
  BY <1>8 DEF CopyFail, AfterFailedCopy
<1>9. ASSUME NEW t \in Tasks, UploadBegin(t) PROVE Alone'
  \* With no overlap nobody else is alive, so nobody is copying.
  <2>1. ~overlap => Readable = {file}
    BY <1>9 DEF UploadBegin, Readable, LockFree
  <2> QED
    BY <1>9, <2>1 DEF UploadBegin
<1>10. ASSUME NEW t \in Tasks, ReadFail(t) PROVE Alone'
  BY <1>10 DEF ReadFail
<1>11. ASSUME NEW t \in Tasks, ServerApply(t) PROVE Alone'
  BY <1>11 DEF ServerApply
<1>12. ASSUME NEW t \in Tasks, Finish(t) PROVE Alone'
  BY <1>12 DEF Finish, Confirmed
<1>13. ASSUME NEW t \in Tasks, UploadFail(t) PROVE Alone'
  BY <1>13 DEF UploadFail, Strands
<1>14. ASSUME NEW c \in Changes, FlaggedWrite(c) PROVE Alone'
  BY <1>14 DEF FlaggedWrite, Owes
<1>15. ASSUME NEW c \in Changes, TopupWrite(c) PROVE Alone'
  BY <1>15 DEF TopupWrite
<1>16. ASSUME NEW c \in Changes, NotificationWrite(c) PROVE Alone'
  BY <1>16 DEF NotificationWrite
<1>17. CASE FailedWrite
  BY <1>17 DEF FailedWrite
<1>18. ASSUME NEW b \in stray, StrayArrives(b) PROVE Alone'
  BY <1>18 DEF StrayArrives
<1>19. CASE Crash
  BY <1>19 DEF Crash, ProcessEnds, Strands
<1>20. CASE LoseFiles
  BY <1>20 DEF LoseFiles, ProcessEnds, Strands
<1>21. CASE Recover
  BY <1>21 DEF Recover
<1>22. CASE RecoverInterrupted
  BY <1>22 DEF RecoverInterrupted
<1>23. CASE StartFails
  BY <1>23 DEF StartFails, Absent, Db
<1>24. CASE UNCHANGED vars
  BY <1>24 DEF vars
<1>25. QED
  BY <1>1, <1>2, <1>3, <1>4, <1>5, <1>6, <1>7, <1>8, <1>9, <1>10, <1>11,
     <1>12, <1>13, <1>14, <1>15, <1>16, <1>17, <1>18, <1>19, <1>20, <1>21,
     <1>22, <1>23, <1>24 DEF Next, Task

LEMMA AloneInvariant == Spec => []Alone
BY AloneInit, AloneStep, TypeCorrect, PTL DEF Spec

\* The remote object is a database as long as no two backup tasks were ever
\* alive together.
THEOREM NoTornBackup == Spec => []TornOnlyByOverlap
<1>1. Alone => TornOnlyByOverlap
  BY DEF Alone, TornOnlyByOverlap
<1> QED
  BY <1>1, AloneInvariant, PTL

-----------------------------------------------------------------------------
(* What the two invariants say of the remote copy.                           *)

\* While the flag says Complete everything due is in the remote copy; what is
\* missing was exposed to an upload that arrived late, or the object is torn and
\* tasks of two generations were alive together.
THEOREM CompleteIsSafe == Spec => []CompleteMeansBackedUp
<1>1. Settled /\ Alone => CompleteMeansBackedUp
  BY DEF Settled, Kept, Alone, CompleteMeansBackedUp
<1> QED
  BY <1>1, SettledInvariant, AloneInvariant, PTL

\* No upload takes anything due out of the remote copy, but a late one what was
\* exposed to it, and a torn one.
THEOREM RemoteNeverRegresses == Spec => RemoteKeepsBackedUp
<1> DEFINE Keeps ==
      \A c \in due \cap due' :
        c \in remote.has =>
          \/ c \in remote'.has
          \/ late' /\ c \in exposed
          \/ overlap /\ remote' = Torn
<1>1. Settled /\ Alone /\ [Next]_vars => [Keeps]_vars
  <2> SUFFICES ASSUME Settled, Alone, Next PROVE Keeps
    OBVIOUS
  <2>1. CASE UNCHANGED remote
    BY <2>1
  <2>2. ASSUME NEW t \in Tasks, ServerApply(t) PROVE Keeps
    BY <2>2 DEF ServerApply, Settled, Alone, Holds
  <2>3. ASSUME NEW b \in stray, StrayArrives(b) PROVE Keeps
    BY <2>3 DEF StrayArrives, Settled, Alone, Holds
  <2>4. QED
    BY <2>1, <2>2, <2>3
       DEF Next, Task, Start, StartFails, Foreground, Background, Tick, Stop,
           CopyBegin, CopyEnd, CopyFail, UploadBegin, ReadFail, Finish, UploadFail,
           FlaggedWrite, TopupWrite, NotificationWrite, FailedWrite, Crash,
           LoseFiles, Recover, RecoverInterrupted
<1> QED
  BY <1>1, SettledInvariant, AloneInvariant, PTL DEF Spec, RemoteKeepsBackedUp
=============================================================================
