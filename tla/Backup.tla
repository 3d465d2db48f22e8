------------------------------- MODULE Backup -------------------------------
(***************************************************************************)
(* The remote backup of the local database.                                *)
(*                                                                         *)
(* A LightningNode keeps its data in one SQLite file behind a mutex        *)
(* (DataStore).  Methods that write to it raise backup_status.  While the  *)
(* app is in the foreground a repeating task looks at that flag; when it   *)
(* is raised the task copies the database to a second file under the       *)
(* mutex, then, with the mutex released, reads that file, uploads it, and  *)
(* when the server has answered lowers the flag.  foreground() and         *)
(* background() ask the running tasks to stop and do not wait for them, so *)
(* tasks of two generations may be in the middle of an iteration at once.  *)
(* A second process, which handles push notifications, writes to the same  *)
(* database file through a DataStore (and a flag) of its own.  A wallet    *)
(* that lost its files is recovered from the remote copy.                  *)
(*                                                                         *)
(* The content of a database is the set of changes it has absorbed.        *)
(***************************************************************************)
EXTENDS Naturals, FiniteSets

CONSTANTS
  Changes,       \* the changes the library may commit to the database
  TopupChanges,  \* those committed by store_ and clear_fiat_topup_info
  Tasks,         \* slots for backup tasks that are alive at the same time
  MaxStray       \* bound: abandoned uploads that may still arrive

ASSUME BackupAssumption == TopupChanges \subseteq Changes

VARIABLES
  node,     \* "down", or the mode of the running LightningNode
  db,       \* db2.db3
  file,     \* db2.db3.backup, the local copy that gets uploaded
  status,   \* DataStore::backup_status of the node's process
  pc,       \* where each backup task is in its iteration
  stop,     \* the tasks that were asked to stop
  blob,     \* what each task read from file and is uploading
  stray,    \* uploads whose sender gave up or died, still on their way
  remote,   \* the object the backup service keeps
  due,      \* history: changes that a lowered flag vouches for
  exposed,  \* history: those of due that an abandoned upload left without
  late,     \* history: the object the service keeps arrived late
  overlap   \* history: a task was started while an older one was alive

history == <<due, exposed, late, overlap>>

vars == <<node, db, file, status, pc, stop, blob, stray, remote, history>>

-----------------------------------------------------------------------------
BackupStatus == {"Complete", "WaitingForBackup"}

PcStates ==
  {"dead", "waiting", "checked", "copying", "copied", "uploading", "applied"}

\* What a file or a remote object may be: missing, a database with the changes
\* it has absorbed, or bytes that are no database.
Blob == [kind : {"absent", "db", "torn"}, has : SUBSET Changes]

Absent == [kind |-> "absent", has |-> {}]

Torn == [kind |-> "torn", has |-> {}]

Db(S) == [kind |-> "db", has |-> S]

OpensUnchecked(b) == TRUE

\* A file that SQLite opens and migrate() accepts; a missing one is created.
Opens(b) == b # Torn

Up == node # "down"

Alive(t) == pc[t] # "dead"

\* backup_db() holds the DataStore mutex for as long as the copy takes.
LockFree == \A t \in Tasks : pc[t] # "copying"

\* Between the start of the copy and the lowering of the flag a change is in no
\* position to be in the copy that confirms it.
Holding == {"copying", "copied", "uploading", "applied"}

UnderWay(tasks) == \E t \in tasks : pc[t] \in Holding

\* From now on a lowered flag vouches for these changes too; an upload that was
\* abandoned before has a copy without them.
Owes(new) ==
  /\ due' = due \cup new
  /\ exposed' = exposed \cup {c \in new \ due : \E b \in stray : c \notin b.has}
  /\ UNCHANGED <<late, overlap>>

-----------------------------------------------------------------------------
Init ==
  /\ node = "down"
  /\ db = Absent
  /\ file = Absent
  /\ status = "WaitingForBackup"
  /\ pc = [t \in Tasks |-> "dead"]
  /\ stop = {}
  /\ blob = [t \in Tasks |-> Absent]
  /\ stray = {}
  /\ remote = Absent
  /\ due = {}
  /\ exposed = {}
  /\ late = FALSE
  /\ overlap = FALSE

-----------------------------------------------------------------------------
(* The node's life.  restart() asks every task in task_handles to stop and,  *)
(* for the foreground periods, spawns a new backup task.                     *)

SpawnBackupTask(t) ==
  /\ ~Alive(t)
  /\ pc' = [pc EXCEPT ![t] = "waiting"]
  /\ stop' = {u \in Tasks : Alive(u)}
  /\ overlap' = (overlap \/ \E u \in Tasks : Alive(u))
  /\ UNCHANGED <<due, exposed, late>>

StartStatusComplete == "Complete"

\* LightningNode::new: DataStore::new opens or creates the database and raises
\* the flag, whatever it was in the process before; then foreground().
StartStatus == "WaitingForBackup"

Start(t) ==
  /\ ~Up
  /\ Opens(db)
  /\ node' = "foreground"
  /\ db' = IF db = Absent THEN Db({}) ELSE db
  /\ status' = StartStatus
  /\ SpawnBackupTask(t)
  /\ UNCHANGED <<file, blob, stray, remote>>

\* A start that fails, for want of a network for instance, leaves the database
\* it created: from then on a recovery is refused.
StartFails ==
  /\ ~Up
  /\ db = Absent
  /\ db' = Db({})
  /\ UNCHANGED <<node, file, status, pc, stop, blob, stray, remote, history>>

Foreground(t) ==
  /\ Up
  /\ node' = "foreground"
  /\ SpawnBackupTask(t)
  /\ UNCHANGED <<db, file, status, blob, stray, remote>>

Background ==
  /\ Up
  /\ node' = "background"
  /\ stop' = {u \in Tasks : Alive(u)}
  /\ UNCHANGED <<db, file, status, pc, blob, stray, remote, history>>

-----------------------------------------------------------------------------
(* Writes. *)

StatusAsBefore == status

\* The writers that raise backup_status commit and raise it in one critical
\* section.
RaisedStatus == "WaitingForBackup"

FlaggedWrite(c) ==
  /\ Up /\ LockFree
  /\ c \in Changes \ TopupChanges
  /\ c \notin db.has
  /\ db' = Db(db.has \cup {c})
  /\ status' = RaisedStatus
  /\ Owes(IF UnderWay(Tasks) THEN {} ELSE {c})
  /\ UNCHANGED <<node, file, pc, stop, blob, stray, remote>>

\* A writer that raises the flag and then fails in SQLite.
FailedWrite ==
  /\ Up /\ LockFree
  /\ status' = RaisedStatus
  /\ UNCHANGED <<node, db, file, pc, stop, blob, stray, remote, history>>

\* store_fiat_topup_info and clear_fiat_topup_info leave the flag alone.
TopupWrite(c) ==
  /\ Up /\ LockFree
  /\ c \in TopupChanges
  /\ c \notin db.has
  /\ db' = Db(db.has \cup {c})
  /\ UNCHANGED <<node, file, status, pc, stop, blob, stray, remote, history>>

\* handle_notification runs beside the node, with a DataStore of its own: the
\* node's mutex and flag mean nothing to it.
NotificationWrite(c) ==
  /\ db.kind = "db"
  /\ c \in Changes \ TopupChanges
  /\ c \notin db.has
  /\ db' = Db(db.has \cup {c})
  /\ UNCHANGED <<node, file, status, pc, stop, blob, stray, remote, history>>

-----------------------------------------------------------------------------
(* An iteration of the backup task.                                          *)

\* The tick and the look at the flag.  A stop request does not keep the tick
\* from winning: select! picks either when both are ready.
Tick(t) ==
  /\ pc[t] = "waiting"
  /\ LockFree
  /\ status = "WaitingForBackup"
  /\ pc' = [pc EXCEPT ![t] = "checked"]
  /\ UNCHANGED <<node, db, file, status, stop, blob, stray, remote, history>>

Stop(t) ==
  /\ pc[t] = "waiting"
  /\ t \in stop
  /\ pc' = [pc EXCEPT ![t] = "dead"]
  /\ UNCHANGED <<node, db, file, status, stop, blob, stray, remote, history>>

CopyBegin(t) ==
  /\ pc[t] = "checked"
  /\ LockFree
  /\ pc' = [pc EXCEPT ![t] = "copying"]
  /\ UNCHANGED <<node, db, file, status, stop, blob, stray, remote, history>>

\* What the copy finds, flagged or not, is due as well if the flag is still up
\* and no other task is on its way to lower it.
CopyEnd(t) ==
  /\ pc[t] = "copying"
  /\ pc' = [pc EXCEPT ![t] = "copied"]
  /\ file' = db
  /\ Owes(IF status = "WaitingForBackup" /\ ~UnderWay(Tasks \ {t}) THEN db.has ELSE {})
  /\ UNCHANGED <<node, db, status, stop, blob, stray, remote>>

AfterIgnoredCopyError == "copied"

\* SQLite rolls an unfinished copy back; the iteration returns.
AfterFailedCopy == "waiting"

CopyFail(t) ==
  /\ pc[t] = "copying"
  /\ pc' = [pc EXCEPT ![t] = AfterFailedCopy]
  /\ UNCHANGED <<node, db, file, status, stop, blob, stray, remote, history>>

\* fs::read takes no lock: it may run into the copy of another task.
Readable == IF LockFree THEN {file} ELSE {file, Torn}

UploadBegin(t) ==
  /\ pc[t] = "copied"
  /\ \E b \in Readable : blob' = [blob EXCEPT ![t] = b]
  /\ pc' = [pc EXCEPT ![t] = "uploading"]
  /\ UNCHANGED <<node, db, file, status, stop, stray, remote, history>>

ReadFail(t) ==
  /\ pc[t] = "copied"
  /\ pc' = [pc EXCEPT ![t] = "waiting"]
  /\ UNCHANGED <<node, db, file, status, stop, blob, stray, remote, history>>

\* The service stores the object: create_backup replaces the one it had.
ServerApply(t) ==
  /\ pc[t] = "uploading"
  /\ remote' = blob[t]
  /\ late' = FALSE
  /\ pc' = [pc EXCEPT ![t] = "applied"]
  /\ UNCHANGED <<node, db, file, status, stop, blob, stray, due, exposed, overlap>>

\* The answer arrives and the flag is lowered, whatever was written meanwhile.
Confirmed(t) == pc[t] = "applied"

Finish(t) ==
  /\ Confirmed(t)
  /\ LockFree
  /\ status' = "Complete"
  /\ pc' = [pc EXCEPT ![t] = "waiting"]
  /\ blob' = [blob EXCEPT ![t] = Absent]
  /\ UNCHANGED <<node, db, file, stop, stray, remote, history>>

\* Of the requests whose sender stops listening some still arrive, in any order.
Strands(left) ==
  /\ Cardinality(stray \cup left) <= MaxStray
  /\ stray' = stray \cup left

\* The request fails: it was refused or lost, its answer was lost, or it is
\* late and still on its way.  The flag stays up; the next tick tries again.
UploadFail(t) ==
  /\ \/ pc[t] = "uploading" /\ \E left \in SUBSET {blob[t]} : Strands(left)
     \/ pc[t] = "applied" /\ UNCHANGED stray
  /\ pc' = [pc EXCEPT ![t] = "waiting"]
  /\ blob' = [blob EXCEPT ![t] = Absent]
  /\ UNCHANGED <<node, db, file, status, stop, remote, history>>

StrayArrives(b) ==
  /\ b \in stray
  /\ remote' = b
  /\ late' = TRUE
  /\ stray' = stray \ {b}
  /\ UNCHANGED <<node, db, file, status, pc, stop, blob, due, exposed, overlap>>

-----------------------------------------------------------------------------
(* Crashes, loss of the device, recovery.                                    *)

ProcessEnds ==
  /\ node' = "down"
  /\ pc' = [t \in Tasks |-> "dead"]
  /\ stop' = {}
  /\ blob' = [t \in Tasks |-> Absent]
  /\ \E left \in SUBSET {blob[t] : t \in {u \in Tasks : pc[u] = "uploading"}} :
       Strands(left)

Crash ==
  /\ Up
  /\ ProcessEnds
  /\ UNCHANGED <<db, file, status, remote, history>>

\* The app is removed, or the seed moves to a new device.
LoseFiles ==
  /\ db # Absent
  /\ ProcessEnds
  /\ db' = Absent
  /\ file' = Absent
  /\ status' = "WaitingForBackup"
  /\ due' = {}
  /\ exposed' = {}
  /\ UNCHANGED <<remote, late, overlap>>

\* recover_lightning_node refuses to run over an existing database.  With no
\* remote object it writes nothing, whether it reports that as a failure or not.
Recover ==
  /\ ~Up
  /\ db = Absent
  /\ remote # Absent
  /\ db' = remote
  /\ UNCHANGED <<node, file, status, pc, stop, blob, stray, remote, history>>

\* fs::write is not atomic: a process that dies in it leaves a partial file.
RecoverInterrupted ==
  /\ ~Up
  /\ db = Absent
  /\ remote # Absent
  /\ db' = Torn
  /\ UNCHANGED <<node, file, status, pc, stop, blob, stray, remote, history>>

-----------------------------------------------------------------------------
Task(t) ==
  \/ Tick(t) \/ Stop(t)
  \/ CopyBegin(t) \/ CopyEnd(t) \/ CopyFail(t)
  \/ UploadBegin(t) \/ ReadFail(t)
  \/ ServerApply(t) \/ Finish(t) \/ UploadFail(t)

Next ==
  \/ \E t \in Tasks : Start(t) \/ Foreground(t) \/ Task(t)
  \/ StartFails \/ Background
  \/ \E c \in Changes : FlaggedWrite(c) \/ TopupWrite(c) \/ NotificationWrite(c)
  \/ FailedWrite
  \/ \E b \in stray : StrayArrives(b)
  \/ Crash \/ LoseFiles \/ Recover \/ RecoverInterrupted

Spec == Init /\ [][Next]_vars

\* What liveness rests on.  The app is started again and comes back to the
\* foreground; tokio polls every ready task, and select! does not forever pass
\* over a stop request; a step that competes with an error, a crash or a busy
\* mutex is not forever beaten by it.
Fairness ==
  /\ WF_vars(\E t \in Tasks : Start(t))
  /\ WF_vars(node = "background" /\ \E t \in Tasks : Foreground(t))
  /\ SF_vars(\E t \in Tasks : Stop(t))
  /\ SF_vars(\E t \in Tasks : Tick(t))
  /\ SF_vars(\E t \in Tasks : CopyBegin(t))
  /\ SF_vars(\E t \in Tasks : CopyEnd(t))
  /\ SF_vars(\E t \in Tasks : UploadBegin(t))
  /\ SF_vars(\E t \in Tasks : ServerApply(t))
  /\ SF_vars(\E t \in Tasks : Finish(t))

FairSpec == Spec /\ Fairness

-----------------------------------------------------------------------------
TypeOK ==
  /\ node \in {"down", "foreground", "background"}
  /\ db \in Blob
  /\ file \in Blob
  /\ status \in BackupStatus
  /\ pc \in [Tasks -> PcStates]
  /\ stop \in SUBSET Tasks
  /\ blob \in [Tasks -> Blob]
  /\ stray \in SUBSET Blob
  /\ remote \in Blob
  /\ due \in SUBSET Changes
  /\ exposed \in SUBSET Changes
  /\ late \in BOOLEAN
  /\ overlap \in BOOLEAN

\* While backup_status is Complete the remote copy holds what is due: every
\* flagged change committed with no task past the start of its copy, and whatever
\* else, topup data and changes of the notification process included, a copy
\* found that was made with the flag up and no other task past the start of its
\* own.  (A change committed during an upload waits for the next such copy: the
\* task lowers the flag without looking at it again, task_manager.rs
\* start_backup_local_db.)  Two things may take it back.  An upload that arrives
\* late, of a database read before the change was due, leaves the older object
\* under a lowered flag; and when tasks of two generations were alive together
\* the object may be unreadable (TornOnlyByOverlap).
CompleteMeansBackedUp ==
  status = "Complete" =>
    \/ \A c \in due : c \in remote.has \/ (late /\ c \in exposed)
    \/ overlap /\ remote = Torn

\* The remote object is a database unless backup tasks of two generations were
\* alive together: fs::read of the copy takes no lock.
TornOnlyByOverlap == ~overlap => remote # Torn

\* What is due stays in the remote copy whatever is uploaded after it, by tasks
\* of any generation and from whichever copy.  Only two uploads take it out: one
\* that arrives late, abandoned before the change was due, and one that tasks of
\* two generations have torn.
RemoteKeepsBackedUp ==
  [][\A c \in due \cap due' :
       c \in remote.has =>
         \/ c \in remote'.has
         \/ late' /\ c \in exposed
         \/ overlap /\ remote' = Torn]_vars

\* What is due reaches the remote copy, unless the files are lost first; a failing
\* copy or upload is retried.  And a restart heals every gap of the flag: what the
\* database holds while the node is down, changes committed during an upload, topup
\* data and changes of the notification process included, reaches the remote copy
\* after the next start.  A torn object is the end of it, as the flag is lowered over
\* it and nothing is uploaded until the next flagged change or start (see
\* TornOnlyByOverlap); so is, for what is exposed, an upload that arrives late.
RemoteCatchesUp ==
  \A c \in Changes :
    /\ c \in due
         ~> (c \in remote.has \/ remote = Torn \/ c \notin due \/ (late /\ c \in exposed))
    /\ (node = "down" /\ c \in db.has)
         ~> (c \in remote.has \/ remote = Torn \/ c \notin db.has)
=============================================================================
