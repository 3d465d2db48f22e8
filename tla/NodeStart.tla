----------------------------- MODULE NodeStart -----------------------------
(***************************************************************************)
(* How a node comes to be on a device: LightningNode::new step by step,    *)
(* recover_lightning_node, and the notification handler that opens the     *)
(* same database from a process of its own, with crashes and new installs. *)
(* A preference is kept both in the database and in memory.                *)
(*                                                                         *)
(* The database is what the user's choices left in it: the rows of each    *)
(* preference, the last of which counts.  A backup is one step here; the   *)
(* module Backup takes it apart.                                           *)
(***************************************************************************)
EXTENDS Sequences, FiniteSets, Naturals

CONSTANTS
  Threads,     \* threads of the app that set preferences
  MaxChoices,  \* bound: choices made in the wallet's life, the defaults included
  NoBackup     \* the service has no backup of the wallet

ASSUME StartAssumption == MaxChoices \in Nat

Kinds == {"currency", "analytics"}

VARIABLES
  file,      \* the database's file
  rows,      \* its rows
  remote,    \* the rows of the last backup, or NoBackup
  app,       \* where LightningNode::new is
  tasks,     \* whether the tasks run
  cache,     \* the preferences in memory
  setter,    \* what each thread is doing
  recovery,  \* where recover_lightning_node is
  fetched,   \* the backup it got
  recovered, \* whether it has returned Ok on this installation
  choices,   \* how many choices were made
  bypassed,  \* history: an empty database was made while a backup was awaited
  unsure     \* history: the preferences of which a call failed or two calls met

startVars == <<file, rows, remote, app, tasks, cache, setter, recovery, fetched,
               recovered, choices, bypassed, unsure>>

-----------------------------------------------------------------------------
\* The migrations store that analytics are enabled.
NewRows == [k \in Kinds |-> IF k = "analytics" THEN <<0>> ELSE <<>>]

Chosen(r, k) == {r[k][i] : i \in DOMAIN r[k]}

HasRow(k) == rows[k] # <<>>

LastRow(k) == rows[k][Len(rows[k])]

Idle == [at |-> "idle", kind |-> "currency", value |-> 0]

StartInit ==
  /\ file = "absent" /\ rows = NewRows
  /\ remote = NoBackup
  /\ app = "off" /\ tasks = FALSE
  /\ cache = [k \in Kinds |-> 0]
  /\ setter = [t \in Threads |-> Idle]
  /\ recovery = "idle" /\ fetched = NewRows
  /\ recovered = FALSE
  /\ choices = 0
  /\ bypassed = FALSE /\ unsure = {}

FilesKept == UNCHANGED <<file, rows, remote, bypassed>>
NodeKept == UNCHANGED <<app, tasks, cache, setter, choices, unsure>>
RecoveryKept == UNCHANGED <<recovery, fetched, recovered>>

-----------------------------------------------------------------------------
(* LightningNode::new                                                        *)

\* A backup is there to be recovered or on its way.
Awaited == (remote # NoBackup /\ ~recovered) \/ recovery # "idle"

\* DataStore::new: a file that is not there is created, a part of one cannot
\* be migrated.
Opens ==
  /\ file # "part"
  /\ file' = "whole"
  /\ rows' = IF file = "absent" THEN NewRows ELSE rows
  /\ bypassed' = (bypassed \/ (file = "absent" /\ Awaited))
  /\ UNCHANGED remote

OpenStore ==
  /\ app = "off"
  /\ Opens
  /\ app' = "opened"
  /\ UNCHANGED <<tasks, cache, setter, choices, unsure>> /\ RecoveryKept

\* The default currency is stored when there is none.
LoadPreferences ==
  /\ app = "opened"
  /\ app' = "loaded"
  /\ \/ /\ ~HasRow("currency") /\ choices < MaxChoices
        /\ rows' = [rows EXCEPT !["currency"] = Append(@, choices + 1)]
        /\ choices' = choices + 1
     \/ HasRow("currency") /\ UNCHANGED <<rows, choices>>
  /\ cache' = [k \in Kinds |-> LastRow(k)']
  /\ unsure' = {}
  /\ UNCHANGED <<file, remote, bypassed, tasks, setter>> /\ RecoveryKept

\* The SDK is connected, and if need be an LSP.
ConnectSdk ==
  /\ app = "loaded" /\ app' = "connected"
  /\ FilesKept /\ UNCHANGED <<tasks, cache, setter, choices, unsure>> /\ RecoveryKept

\* TaskManager::new and foreground().
StartTasks ==
  /\ app = "connected" /\ app' = "working"
  /\ tasks' = TRUE
  /\ FilesKept /\ UNCHANGED <<cache, setter, choices, unsure>> /\ RecoveryKept

RegisterWebhook ==
  /\ app = "working" /\ app' = "running"
  /\ FilesKept /\ UNCHANGED <<tasks, cache, setter, choices, unsure>> /\ RecoveryKept

\* What was created is dropped, the task manager and its runtime too.
Ends ==
  /\ app' = "off"
  /\ tasks' = FALSE
  /\ setter' = [t \in Threads |-> Idle]
  /\ unsure' = {}
  /\ UNCHANGED <<cache, choices>>

\* Any step may return an error.
StartFails == app \notin {"off", "running"} /\ Ends /\ FilesKept /\ RecoveryKept

\* The backup task, which runs before new() has returned.
BackUp ==
  /\ tasks
  /\ remote' = rows
  /\ UNCHANGED <<file, rows, bypassed>> /\ NodeKept /\ RecoveryKept

-----------------------------------------------------------------------------
(* recover_lightning_node                                                    *)

Refuses == file # "absent"

BeginRecovery ==
  /\ recovery = "idle"
  /\ ~Refuses
  /\ recovery' = "fetching"
  /\ FilesKept /\ NodeKept /\ UNCHANGED <<fetched, recovered>>

FetchBackup ==
  /\ recovery = "fetching"
  /\ remote # NoBackup
  /\ fetched' = remote
  /\ recovery' = "writing"
  /\ FilesKept /\ NodeKept /\ UNCHANGED recovered

\* Mutant: an answer that is no answer counts as no backup.
AnyError(external) == external

\* Only the wallets the service does not know may be recovered without.
RecoversWithout(external) == external /\ remote = NoBackup

\* Otherwise the call fails, as it does when the service cannot be reached or
\* the backup cannot be decrypted.
EndWithoutBackup ==
  /\ recovery \in {"fetching", "writing"}
  /\ \E external \in BOOLEAN :
       recovered' = (recovered \/ (recovery = "fetching" /\ RecoversWithout(external)))
  /\ recovery' = "idle"
  /\ FilesKept /\ NodeKept /\ UNCHANGED fetched

WriteDatabase ==
  /\ recovery = "writing" /\ recovery' = "idle"
  /\ file' = "whole" /\ rows' = fetched
  /\ recovered' = TRUE
  /\ UNCHANGED <<remote, bypassed, fetched>> /\ NodeKept

\* fs::write truncates and then writes: it may fail with the disk full.  A file
\* without a byte opens as an empty database, a part of one does not open.
Torn ==
  \/ file' = "part" /\ UNCHANGED <<rows, bypassed>>
  \/ file' = "whole" /\ rows' = NewRows /\ bypassed' = TRUE

WriteFails ==
  /\ recovery = "writing" /\ recovery' = "idle"
  /\ Torn
  /\ UNCHANGED <<remote, fetched, recovered>> /\ NodeKept

-----------------------------------------------------------------------------
(* The app's process and its installation.                                   *)

Crash ==
  /\ app # "off" \/ recovery # "idle"
  /\ Ends
  /\ recovery' = "idle"
  /\ (recovery = "writing" /\ Torn) \/ UNCHANGED <<file, rows, bypassed>>
  /\ UNCHANGED <<remote, fetched, recovered>>

\* Another device, or the same one with its data deleted.
Reinstall ==
  /\ file # "absent"
  /\ app = "off" /\ recovery = "idle"
  /\ file' = "absent" /\ rows' = NewRows
  /\ recovered' = FALSE /\ bypassed' = FALSE
  /\ UNCHANGED <<remote, recovery, fetched>> /\ NodeKept

\* build_analytics_interceptor, and the handler of LNURL pay requests.
NotificationOpens ==
  /\ Opens
  /\ NodeKept /\ RecoveryKept

-----------------------------------------------------------------------------
(* Preferences                                                               *)

Setting(k) == {t \in Threads : setter[t].at # "idle" /\ setter[t].kind = k}

\* Mutant: the currency is cached first, too.
CachesFirst(k) == "cache"

\* set_fiat_currency stores and then caches; set_analytics_config the other way.
FirstStep(k) == IF k = "currency" THEN "row" ELSE "cache"

BeginSetting(t, k) ==
  /\ app = "running"
  /\ setter[t].at = "idle"
  /\ choices < MaxChoices
  /\ setter' = [setter EXCEPT ![t] = [at |-> FirstStep(k), kind |-> k, value |-> choices + 1]]
  /\ choices' = choices + 1
  /\ unsure' = IF Setting(k) # {} THEN unsure \cup {k} ELSE unsure
  /\ FilesKept /\ UNCHANGED <<app, tasks, cache>> /\ RecoveryKept

\* The step that follows, or the end of the call.
After(t, step) ==
  IF FirstStep(setter[t].kind) = step
    THEN [setter[t] EXCEPT !.at = IF step = "row" THEN "cache" ELSE "row"]
    ELSE Idle

StorePreference(t) ==
  /\ setter[t].at = "row"
  /\ rows' = [rows EXCEPT ![setter[t].kind] = Append(@, setter[t].value)]
  /\ setter' = [setter EXCEPT ![t] = After(t, "row")]
  /\ UNCHANGED <<file, remote, bypassed, app, tasks, cache, choices, unsure>> /\ RecoveryKept

\* The call ends.  A setting in memory already is not taken back.
StorePreferenceFails(t) ==
  /\ setter[t].at = "row"
  /\ setter' = [setter EXCEPT ![t] = Idle]
  /\ unsure' = IF setter[t].kind = "analytics" THEN unsure \cup {"analytics"} ELSE unsure
  /\ FilesKept /\ UNCHANGED <<app, tasks, cache, choices>> /\ RecoveryKept

CachePreference(t) ==
  /\ setter[t].at = "cache"
  /\ cache' = [cache EXCEPT ![setter[t].kind] = setter[t].value]
  /\ setter' = [setter EXCEPT ![t] = After(t, "cache")]
  /\ FilesKept /\ UNCHANGED <<app, tasks, choices, unsure>> /\ RecoveryKept

-----------------------------------------------------------------------------
StartNode == OpenStore \/ LoadPreferences \/ ConnectSdk \/ StartTasks \/ RegisterWebhook

Recover == BeginRecovery \/ FetchBackup \/ EndWithoutBackup \/ WriteDatabase \/ WriteFails

SetPreference(t) ==
  \/ \E k \in Kinds : BeginSetting(t, k)
  \/ StorePreference(t) \/ StorePreferenceFails(t) \/ CachePreference(t)

StartNext ==
  \/ StartNode \/ StartFails \/ BackUp
  \/ Recover
  \/ Crash \/ Reinstall \/ NotificationOpens
  \/ \E t \in Threads : SetPreference(t)

-----------------------------------------------------------------------------
(* BackupManager and recover_lightning_node.  A choice that has reached the  *)
(* backup is never dropped from it: whatever fails or crashes, no later      *)
(* backup lacks it.  Nor are the rows of a database lost, which recovery     *)
(* refuses to run over.  The exception is an empty database that got ahead   *)
(* of a recovery.                                                            *)
ChoicesKept ==
  [][~bypassed' =>
       \A k \in Kinds :
         /\ remote # NoBackup => Chosen(remote, k) \subseteq Chosen(remote', k)
         /\ file = "whole" /\ file' = "whole" =>
              Chosen(rows, k) \subseteq Chosen(rows', k)]_startVars

(* Config::set_fiat_currency and set_analytics_config.  Once the calls have  *)
(* returned, what the node goes by is what it will go by after a restart,    *)
(* unless a call failed half way or two calls met.                           *)
PreferenceStored ==
  \A k \in Kinds :
    app = "running" /\ Setting(k) = {} /\ k \notin unsure /\ ~bypassed =>
      HasRow(k) /\ cache[k] = LastRow(k)

StartSpec == StartInit /\ [][StartNext]_startVars
=============================================================================
