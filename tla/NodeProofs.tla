----------------------------- MODULE NodeProofs -----------------------------
(***************************************************************************)
(* Proofs about what a node holds in memory beside what is stored or asked *)
(* for: NodeStart, LspFees and ExchangeRates, for any number of threads,   *)
(* choices, tasks, lists, currencies and payments.                         *)
(*                                                                         *)
(* NodeStart: unless an empty database gets ahead of a recovery, there is  *)
(* no database while one is under way (RecoveryIsAlone), so nothing backs  *)
(* up in the meantime and what was fetched is the last backup; the rows of *)
(* a database then always hold what the last backup held (BackupIsHeld).   *)
(* A preference in memory differs from its last row only between the two   *)
(* steps of the one call that sets it (InStep).                            *)
(*                                                                         *)
(* LspFees and ExchangeRates: without an overlap one task at most is alive *)
(* (OneTask).  Of the terms, between its steps it holds the list that came *)
(* last (HoldsLast), and terms of another list are cached only while it    *)
(* has not reached them (CachedLast).  Of the rates, what it was answered  *)
(* with is as new as anything kept (AnswersAreNew), and a row it wrote     *)
(* differs from the list in memory only until it replaces that list        *)
(* (RowsAhead).  A second has snapshots only when a payment was stored in  *)
(* it (SecondsUsed).                                                       *)
(***************************************************************************)
EXTENDS NodeStart, LspFees, ExchangeRates, TLAPS

-----------------------------------------------------------------------------
(* NodeStart                                                                 *)

RowTypes == [Kinds -> Seq(Nat)]

SetterTypes == [at : {"idle", "row", "cache"}, kind : Kinds, value : Nat]

StartTypeOK ==
  /\ file \in {"absent", "part", "whole"}
  /\ rows \in RowTypes /\ fetched \in RowTypes
  /\ remote = NoBackup \/ remote \in RowTypes
  /\ app \in {"off", "opened", "loaded", "connected", "working", "running"}
  /\ tasks \in BOOLEAN /\ recovered \in BOOLEAN /\ bypassed \in BOOLEAN
  /\ recovery \in {"idle", "fetching", "writing"}
  /\ cache \in [Kinds -> Nat]
  /\ setter \in [Threads -> SetterTypes]
  /\ choices \in Nat
  /\ unsure \in SUBSET Kinds

\* A node that is on has a database, and tasks and calls need one that is on.
NodeIsOn ==
  /\ app # "off" => file # "absent"
  /\ app # "off" /\ ~bypassed => file = "whole"
  /\ tasks => app # "off"
  /\ \A t \in Threads : setter[t].at # "idle" => app = "running"

\* The migrations leave a row, and no copy of the rows lacks it.
AnalyticsRow ==
  /\ rows["analytics"] # <<>> /\ fetched["analytics"] # <<>>
  /\ remote # NoBackup => remote["analytics"] # <<>>

\* No database comes up beside a recovery, so no backup does.
RecoveryIsAlone ==
  /\ recovery # "idle" /\ ~bypassed => file = "absent"
  /\ recovery = "writing" /\ ~bypassed => fetched = remote
  /\ recovered /\ file = "absent" => remote = NoBackup

\* Whatever the last backup held is in the database.
BackupIsHeld ==
  file = "whole" /\ ~bypassed /\ remote # NoBackup =>
    \A k \in Kinds : Chosen(remote, k) \subseteq Chosen(rows, k)

\* What a call has left behind after its first step, and before.
Midway(t) ==
  LET k == setter[t].kind
  IN  IF setter[t].at = FirstStep(k) THEN cache[k] = LastRow(k)
      ELSE IF k = "currency" THEN LastRow(k) = setter[t].value
      ELSE cache[k] = setter[t].value

\* What holds of a preference between the calls, or in the one that sets it.
Settled(k) ==
  /\ HasRow(k)
  /\ \A t, u \in Setting(k) : t = u
  /\ Setting(k) = {} => cache[k] = LastRow(k)
  /\ \A t \in Setting(k) : Midway(t)

\* Memory and rows agree, but for the one call that is under way.
InStep == app \notin {"off", "opened"} /\ ~bypassed => \A k \in Kinds \ unsure : Settled(k)

StartInv ==
  StartTypeOK /\ NodeIsOn /\ AnalyticsRow /\ RecoveryIsAlone /\ BackupIsHeld /\ InStep

-----------------------------------------------------------------------------
\* A row that is added: it is the last, and the others stay.
LEMMA RowAdded ==
  ASSUME NEW s \in Seq(Nat), NEW v \in Nat
  PROVE  /\ Append(s, v) \in Seq(Nat)
         /\ Append(s, v) # <<>>
         /\ Append(s, v)[Len(Append(s, v))] = v
         /\ {s[i] : i \in DOMAIN s} \subseteq {Append(s, v)[i] : i \in DOMAIN Append(s, v)}
<1>1. Append(s, v) \in Seq(Nat) /\ Len(Append(s, v)) = Len(s) + 1
  OBVIOUS
<1>2. \A i \in 1..Len(s) : Append(s, v)[i] = s[i]
  OBVIOUS
<1>3. Append(s, v)[Len(s) + 1] = v
  OBVIOUS
<1>4. DOMAIN s = 1..Len(s) /\ DOMAIN Append(s, v) = 1..(Len(s) + 1) /\ Len(s) \in Nat
  BY <1>1
<1>5. \A i \in DOMAIN s : i \in DOMAIN Append(s, v)
  BY <1>4
<1> QED BY <1>1, <1>2, <1>3, <1>4, <1>5

\* The last row is one of the type.
LEMMA LastIsNat == ASSUME NEW s \in Seq(Nat), s # <<>> PROVE s[Len(s)] \in Nat
  OBVIOUS

-----------------------------------------------------------------------------
USE StartAssumption

\* The initial states satisfy the invariant.
LEMMA InitStart == StartInit => StartInv
<1> SUFFICES ASSUME StartInit PROVE StartInv
  OBVIOUS
<1>1. NewRows \in RowTypes /\ NewRows["analytics"] # <<>>
  BY DEF NewRows, RowTypes, Kinds
<1>2. Idle \in SetterTypes
  BY DEF Idle, SetterTypes, Kinds
<1>3. StartTypeOK
  BY <1>1, <1>2 DEF StartInit, StartTypeOK
<1>4. NodeIsOn /\ AnalyticsRow /\ RecoveryIsAlone /\ BackupIsHeld /\ InStep
  BY <1>1 DEF StartInit, NodeIsOn, AnalyticsRow, RecoveryIsAlone, BackupIsHeld, InStep, Idle
<1> QED BY <1>3, <1>4 DEF StartInv

\* A step that touches no preference of a node that has loaded them.
LEMMA InStepKept ==
  ASSUME InStep, UNCHANGED <<rows, cache, setter, unsure>>,
         app' \notin {"off", "opened"} /\ ~bypassed' => app \notin {"off", "opened"} /\ ~bypassed
  PROVE  InStep'
  BY DEF InStep, Settled, HasRow, LastRow, Setting, Midway

\* DataStore::new, whoever calls it.
LEMMA OpensKeeps ==
  ASSUME StartInv, Opens, RecoveryKept
  PROVE  /\ file' = "whole" /\ rows' \in RowTypes /\ rows'["analytics"] # <<>>
         /\ bypassed' \in BOOLEAN /\ (bypassed => bypassed')
         /\ ~bypassed' => file = "absent" \/ UNCHANGED <<file, rows>>
         /\ RecoveryIsAlone' /\ BackupIsHeld'
<1>1. NewRows \in RowTypes /\ NewRows["analytics"] # <<>>
  BY DEF NewRows, RowTypes, Kinds
<1>2. /\ file' = "whole" /\ rows' \in RowTypes /\ rows'["analytics"] # <<>>
      /\ bypassed' \in BOOLEAN /\ (bypassed => bypassed')
      /\ ~bypassed' => file = "absent" \/ UNCHANGED <<file, rows>>
  BY <1>1 DEF StartInv, StartTypeOK, AnalyticsRow, Opens
<1>3. RecoveryIsAlone'
  BY DEF StartInv, StartTypeOK, RecoveryIsAlone, Opens, RecoveryKept, Awaited
<1>4. BackupIsHeld'
  <2>1. CASE file = "absent"
    BY <2>1 DEF StartInv, StartTypeOK, RecoveryIsAlone, BackupIsHeld, Opens, Awaited
  <2>2. CASE file = "whole"
    BY <2>2 DEF StartInv, StartTypeOK, BackupIsHeld, Opens, Chosen
  <2> QED BY <2>1, <2>2 DEF StartInv, StartTypeOK, Opens
<1> QED BY <1>2, <1>3, <1>4

\* LightningNode::new opens the database.
LEMMA OpenStoreInv == ASSUME StartInv, OpenStore PROVE StartInv'
<1>1. /\ file' = "whole" /\ rows' \in RowTypes /\ rows'["analytics"] # <<>>
      /\ bypassed' \in BOOLEAN /\ RecoveryIsAlone' /\ BackupIsHeld'
  BY OpensKeeps DEF OpenStore
<1>2. StartTypeOK'
  BY <1>1 DEF StartInv, StartTypeOK, OpenStore, Opens, RecoveryKept
<1>3. NodeIsOn'
  BY <1>1 DEF StartInv, StartTypeOK, NodeIsOn, OpenStore
<1>4. AnalyticsRow' /\ InStep'
  BY <1>1 DEF StartInv, AnalyticsRow, InStep, OpenStore, Opens, RecoveryKept
<1> QED BY <1>1, <1>2, <1>3, <1>4 DEF StartInv

\* The notification handler opens it, beside a node that may be on.
LEMMA NotificationOpensInv == ASSUME StartInv, NotificationOpens PROVE StartInv'
<1>1. /\ file' = "whole" /\ rows' \in RowTypes /\ rows'["analytics"] # <<>>
      /\ bypassed' \in BOOLEAN /\ (bypassed => bypassed')
      /\ ~bypassed' => file = "absent" \/ UNCHANGED <<file, rows>>
      /\ RecoveryIsAlone' /\ BackupIsHeld'
  BY OpensKeeps DEF NotificationOpens
<1>2. StartTypeOK'
  BY <1>1 DEF StartInv, StartTypeOK, NotificationOpens, Opens, NodeKept, RecoveryKept
<1>3. NodeIsOn' /\ AnalyticsRow'
  BY <1>1 DEF StartInv, NodeIsOn, AnalyticsRow, NotificationOpens, Opens, NodeKept, RecoveryKept
<1>4. InStep'
  <2>1. CASE app \in {"off", "opened"} \/ bypassed'
    BY <2>1 DEF InStep, NotificationOpens, NodeKept
  <2>2. CASE app \notin {"off", "opened"} /\ ~bypassed'
    <3>1. UNCHANGED rows /\ ~bypassed
      BY <1>1, <2>2 DEF StartInv, NodeIsOn
    <3> QED BY <3>1, InStepKept DEF StartInv, NotificationOpens, NodeKept
  <2> QED BY <2>1, <2>2
<1> QED BY <1>1, <1>2, <1>3, <1>4 DEF StartInv

\* Reading the preferences drops no row, and leaves none without one.
LEMMA LoadKeepsRows ==
  ASSUME StartInv, LoadPreferences
  PROVE  \A k \in Kinds : rows'[k] # <<>> /\ Chosen(rows, k) \subseteq Chosen(rows', k)
<1>1. CASE UNCHANGED rows /\ HasRow("currency")
  BY <1>1 DEF StartInv, AnalyticsRow, HasRow, Kinds, Chosen
<1>2. CASE rows' = [rows EXCEPT !["currency"] = Append(@, choices + 1)]
  <2>1. rows["currency"] \in Seq(Nat) /\ choices + 1 \in Nat /\ "currency" \in DOMAIN rows
    BY DEF StartInv, StartTypeOK, RowTypes, Kinds
  <2>2. rows'["currency"] = Append(rows["currency"], choices + 1)
    BY <1>2, <2>1
  <2>3. rows'["analytics"] = rows["analytics"]
    BY <1>2
  <2>4. rows'["currency"] # <<>> /\ Chosen(rows, "currency") \subseteq Chosen(rows', "currency")
    BY <2>1, <2>2, RowAdded DEF Chosen
  <2>5. rows'["analytics"] # <<>> /\ Chosen(rows, "analytics") \subseteq Chosen(rows', "analytics")
    BY <2>3 DEF StartInv, AnalyticsRow, Chosen
  <2> QED BY <2>4, <2>5 DEF Kinds
<1> QED BY <1>1, <1>2 DEF LoadPreferences

\* LightningNode::new reads the preferences: memory and rows agree.
LEMMA LoadPreferencesInv == ASSUME StartInv, LoadPreferences PROVE StartInv'
<1>1. rows' \in RowTypes /\ choices' \in Nat /\ rows'["analytics"] # <<>>
  <2>1. CASE UNCHANGED <<rows, choices>>
    BY <2>1 DEF StartInv, StartTypeOK, AnalyticsRow
  <2>2. CASE rows' = [rows EXCEPT !["currency"] = Append(@, choices + 1)] /\ choices' = choices + 1
    BY <2>2, RowAdded DEF StartInv, StartTypeOK, AnalyticsRow, RowTypes, Kinds
  <2> QED BY <2>1, <2>2 DEF LoadPreferences
<1>2. \A k \in Kinds : rows'[k] # <<>> /\ Chosen(rows, k) \subseteq Chosen(rows', k)
  BY LoadKeepsRows
<1>3. cache' \in [Kinds -> Nat] /\ \A k \in Kinds : cache'[k] = rows'[k][Len(rows'[k])]
  <2>1. cache' = [k \in Kinds |-> rows'[k][Len(rows'[k])]]
    BY DEF LoadPreferences, LastRow
  <2>2. \A k \in Kinds : rows'[k][Len(rows'[k])] \in Nat
    BY <1>1, <1>2, LastIsNat DEF RowTypes
  <2> QED BY <2>1, <2>2
<1>4. StartTypeOK'
  BY <1>1, <1>3 DEF StartInv, StartTypeOK, LoadPreferences, RecoveryKept
<1>5. NodeIsOn' /\ AnalyticsRow' /\ RecoveryIsAlone'
  BY <1>1 DEF StartInv, NodeIsOn, AnalyticsRow, RecoveryIsAlone, LoadPreferences, RecoveryKept
<1>6. BackupIsHeld'
  BY <1>2 DEF StartInv, BackupIsHeld, LoadPreferences, Chosen
<1>7. InStep'
  <2>1. \A t \in Threads : setter'[t].at = "idle"
    BY DEF StartInv, NodeIsOn, LoadPreferences
  <2>2. \A k \in Kinds : Setting(k)' = {}
    BY <2>1 DEF Setting
  <2> QED BY <1>2, <1>3, <2>2 DEF InStep, Settled, HasRow, LastRow
<1> QED BY <1>4, <1>5, <1>6, <1>7 DEF StartInv

\* The rest of LightningNode::new touches neither rows nor preferences.
LEMMA RestOfStart ==
  ASSUME StartInv, ConnectSdk \/ StartTasks \/ RegisterWebhook PROVE StartInv'
<1> USE DEF ConnectSdk, StartTasks, RegisterWebhook, FilesKept, RecoveryKept
<1>1. StartTypeOK'
  BY DEF StartInv, StartTypeOK
<1>2. NodeIsOn' /\ AnalyticsRow' /\ RecoveryIsAlone'
  BY DEF StartInv, NodeIsOn, AnalyticsRow, RecoveryIsAlone
<1>3. BackupIsHeld'
  BY DEF StartInv, BackupIsHeld, Chosen
<1>4. InStep'
  BY InStepKept DEF StartInv
<1> QED BY <1>1, <1>2, <1>3, <1>4 DEF StartInv

\* The end of the node, which takes the calls with it.
LEMMA EndsKeeps ==
  ASSUME StartInv, Ends
  PROVE  /\ app' = "off" /\ tasks' = FALSE /\ unsure' = {}
         /\ setter' \in [Threads -> SetterTypes] /\ \A t \in Threads : setter'[t].at = "idle"
         /\ InStep'
  BY DEF Ends, Idle, SetterTypes, Kinds, InStep

\* LightningNode::new fails.
LEMMA StartFailsInv == ASSUME StartInv, StartFails PROVE StartInv'
<1>1. StartTypeOK'
  BY EndsKeeps DEF StartInv, StartTypeOK, StartFails, Ends, FilesKept, RecoveryKept
<1>2. NodeIsOn' /\ InStep'
  BY EndsKeeps DEF NodeIsOn, StartFails
<1>3. AnalyticsRow' /\ RecoveryIsAlone'
  BY DEF StartInv, AnalyticsRow, RecoveryIsAlone, StartFails, FilesKept, RecoveryKept
<1>4. BackupIsHeld'
  BY DEF StartInv, BackupIsHeld, Chosen, StartFails, FilesKept
<1> QED BY <1>1, <1>2, <1>3, <1>4 DEF StartInv

\* A backup: there is a database, so no recovery is under way.
LEMMA BackUpInv == ASSUME StartInv, BackUp PROVE StartInv'
<1>1. StartTypeOK'
  BY DEF StartInv, StartTypeOK, BackUp, NodeKept, RecoveryKept
<1>2. NodeIsOn' /\ AnalyticsRow'
  BY DEF StartInv, NodeIsOn, AnalyticsRow, BackUp, NodeKept, RecoveryKept
<1>3. RecoveryIsAlone'
  BY DEF StartInv, StartTypeOK, NodeIsOn, RecoveryIsAlone, BackUp, NodeKept, RecoveryKept
<1>4. BackupIsHeld'
  BY DEF BackupIsHeld, Chosen, BackUp
<1>5. InStep'
  BY InStepKept DEF StartInv, BackUp, NodeKept
<1> QED BY <1>1, <1>2, <1>3, <1>4, <1>5 DEF StartInv

-----------------------------------------------------------------------------
\* The steps of a recovery that write nothing.
LEMMA RecoveryReadsInv ==
  ASSUME StartInv, BeginRecovery \/ FetchBackup \/ EndWithoutBackup PROVE StartInv'
<1> USE DEF BeginRecovery, FetchBackup, EndWithoutBackup, FilesKept, NodeKept
<1>1. StartTypeOK'
  <2>1. CASE BeginRecovery
    BY <2>1 DEF StartInv, StartTypeOK
  <2>2. CASE FetchBackup
    BY <2>2 DEF StartInv, StartTypeOK
  <2>3. CASE EndWithoutBackup
    BY <2>3 DEF StartInv, StartTypeOK, RecoversWithout
  <2> QED BY <2>1, <2>2, <2>3
<1>2. NodeIsOn' /\ AnalyticsRow'
  BY DEF StartInv, StartTypeOK, NodeIsOn, AnalyticsRow
<1>3. RecoveryIsAlone'
  <2>1. CASE BeginRecovery
    BY <2>1 DEF StartInv, StartTypeOK, RecoveryIsAlone, Refuses
  <2>2. CASE FetchBackup
    BY <2>2 DEF StartInv, StartTypeOK, RecoveryIsAlone
  <2>3. CASE EndWithoutBackup
    BY <2>3 DEF StartInv, StartTypeOK, RecoveryIsAlone, RecoversWithout
  <2> QED BY <2>1, <2>2, <2>3
<1>4. BackupIsHeld'
  BY DEF StartInv, BackupIsHeld, Chosen
<1>5. InStep'
  BY InStepKept DEF StartInv
<1> QED BY <1>1, <1>2, <1>3, <1>4, <1>5 DEF StartInv

\* The backup becomes the database; without a bypass there was none.
LEMMA WriteDatabaseInv == ASSUME StartInv, WriteDatabase PROVE StartInv'
<1>1. StartTypeOK'
  BY DEF StartInv, StartTypeOK, WriteDatabase, NodeKept
<1>2. NodeIsOn' /\ AnalyticsRow' /\ RecoveryIsAlone'
  BY DEF StartInv, NodeIsOn, AnalyticsRow, RecoveryIsAlone, WriteDatabase, NodeKept
<1>3. BackupIsHeld'
  BY DEF StartInv, RecoveryIsAlone, BackupIsHeld, Chosen, WriteDatabase
<1>4. InStep'
  BY DEF StartInv, RecoveryIsAlone, NodeIsOn, InStep, WriteDatabase, NodeKept
<1> QED BY <1>1, <1>2, <1>3, <1>4 DEF StartInv

\* A write that was cut: what is left does not open, or is on record as empty.
LEMMA TornKeeps ==
  ASSUME StartInv, recovery = "writing", Torn
  PROVE  /\ file' \in {"part", "whole"} /\ rows' \in RowTypes /\ bypassed' \in BOOLEAN
         /\ rows'["analytics"] # <<>>
         /\ bypassed => bypassed'
         /\ ~bypassed' => file = "absent" /\ file' = "part"
<1>1. NewRows \in RowTypes /\ NewRows["analytics"] # <<>>
  BY DEF NewRows, RowTypes, Kinds
<1> QED BY <1>1 DEF StartInv, StartTypeOK, RecoveryIsAlone, AnalyticsRow, Torn

\* The write fails.
LEMMA WriteFailsInv == ASSUME StartInv, WriteFails PROVE StartInv'
<1>1. /\ file' \in {"part", "whole"} /\ rows' \in RowTypes /\ bypassed' \in BOOLEAN
      /\ rows'["analytics"] # <<>>
      /\ bypassed => bypassed'
      /\ ~bypassed' => file = "absent" /\ file' = "part"
  BY TornKeeps DEF WriteFails
<1>2. StartTypeOK'
  BY <1>1 DEF StartInv, StartTypeOK, WriteFails, NodeKept
<1>3. NodeIsOn' /\ AnalyticsRow' /\ RecoveryIsAlone' /\ BackupIsHeld'
  BY <1>1 DEF StartInv, NodeIsOn, AnalyticsRow, RecoveryIsAlone, BackupIsHeld, WriteFails, NodeKept
<1>4. InStep'
  BY <1>1 DEF StartInv, NodeIsOn, InStep, WriteFails, NodeKept
<1> QED BY <1>1, <1>2, <1>3, <1>4 DEF StartInv

\* The process ends, and may cut the write of a recovery.
LEMMA CrashInv == ASSUME StartInv, Crash PROVE StartInv'
<1>1. /\ app' = "off" /\ tasks' = FALSE /\ unsure' = {}
      /\ setter' \in [Threads -> SetterTypes] /\ \A t \in Threads : setter'[t].at = "idle"
      /\ InStep'
  BY EndsKeeps DEF Crash
<1>2. /\ file' \in {"absent", "part", "whole"} /\ rows' \in RowTypes /\ bypassed' \in BOOLEAN
      /\ rows'["analytics"] # <<>>
      /\ \/ UNCHANGED <<file, rows, bypassed>>
         \/ file' # "absent" /\ (~bypassed' => file' = "part")
  <2>1. CASE UNCHANGED <<file, rows, bypassed>>
    BY <2>1 DEF StartInv, StartTypeOK, AnalyticsRow
  <2>2. CASE recovery = "writing" /\ Torn
    BY <2>2, TornKeeps
  <2> QED BY <2>1, <2>2 DEF Crash
<1>3. StartTypeOK'
  BY <1>1, <1>2 DEF StartInv, StartTypeOK, Crash, Ends
<1>4. NodeIsOn' /\ AnalyticsRow' /\ RecoveryIsAlone'
  BY <1>1, <1>2 DEF StartInv, NodeIsOn, AnalyticsRow, RecoveryIsAlone, Crash
<1>5. BackupIsHeld'
  BY <1>2 DEF StartInv, BackupIsHeld, Chosen, Crash
<1> QED BY <1>1, <1>3, <1>4, <1>5 DEF StartInv

\* A new installation has no database, and whatever backup there is.
LEMMA ReinstallInv == ASSUME StartInv, Reinstall PROVE StartInv'
<1>1. NewRows \in RowTypes /\ NewRows["analytics"] # <<>>
  BY DEF NewRows, RowTypes, Kinds
<1>2. StartTypeOK'
  BY <1>1 DEF StartInv, StartTypeOK, Reinstall, NodeKept
<1>3. NodeIsOn' /\ AnalyticsRow' /\ RecoveryIsAlone' /\ BackupIsHeld' /\ InStep'
  BY <1>1 DEF StartInv, NodeIsOn, AnalyticsRow, RecoveryIsAlone, BackupIsHeld, InStep,
              Reinstall, NodeKept
<1> QED BY <1>2, <1>3 DEF StartInv

-----------------------------------------------------------------------------
\* What a step of a preference leaves alone.
LEMMA SettingKeeps ==
  ASSUME StartInv, StartTypeOK', NEW t \in Threads, SetPreference(t),
         rows'["analytics"] # <<>>,
         \A k \in Kinds : Chosen(rows, k) \subseteq Chosen(rows', k)
  PROVE  NodeIsOn' /\ AnalyticsRow' /\ RecoveryIsAlone' /\ BackupIsHeld'
<1> USE DEF SetPreference, BeginSetting, StorePreference, StorePreferenceFails, CachePreference,
            FilesKept, RecoveryKept
<1>1. NodeIsOn'
  <2>1. app = "running" /\ UNCHANGED <<app, tasks, file, bypassed>>
    BY DEF StartInv, NodeIsOn
  <2> QED BY <2>1 DEF StartInv, NodeIsOn
<1>2. UNCHANGED <<file, remote, bypassed, recovery, fetched, recovered>>
  OBVIOUS
<1>3. AnalyticsRow' /\ RecoveryIsAlone'
  BY <1>2 DEF StartInv, AnalyticsRow, RecoveryIsAlone
<1>4. BackupIsHeld'
  <2> SUFFICES ASSUME file = "whole", ~bypassed, remote # NoBackup, NEW k \in Kinds
               PROVE  Chosen(remote, k) \subseteq Chosen(rows', k)
    BY <1>2 DEF BackupIsHeld, Chosen
  <2> QED BY DEF StartInv, BackupIsHeld
<1> QED BY <1>1, <1>3, <1>4

\* A thread's step about one preference leaves the others as they are.
LEMMA OthersSettled ==
  ASSUME NEW t \in Threads, NEW l \in Kinds, Settled(l), l # setter[t].kind,
         setter'[t].at = "idle" \/ setter'[t].kind = setter[t].kind,
         \A u \in Threads : u # t => setter'[u] = setter[u],
         rows'[l] = rows[l], cache'[l] = cache[l]
  PROVE  Settled(l)'
<1>1. Setting(l)' = Setting(l) /\ t \notin Setting(l)
  BY DEF Setting
<1>2. \A u \in Setting(l) : setter'[u] = setter[u] /\ setter[u].kind = l
  BY <1>1 DEF Setting
<1>3. \A u \in Setting(l) : Midway(u)'
  BY <1>2 DEF Settled, Midway, LastRow
<1> QED BY <1>1, <1>3 DEF Settled, HasRow, LastRow

\* A call begins.  When another call sets the same preference, that is on record.
LEMMA BeginSettingInv ==
  ASSUME StartInv, NEW t \in Threads, NEW k \in Kinds, BeginSetting(t, k) PROVE StartInv'
<1>1. setter[t].at = "idle" /\ setter'[t] = [at |-> FirstStep(k), kind |-> k, value |-> choices + 1]
      /\ \A u \in Threads : u # t => setter'[u] = setter[u]
  BY DEF StartInv, StartTypeOK, BeginSetting
<1>2. StartTypeOK'
  BY DEF StartInv, StartTypeOK, BeginSetting, FilesKept, RecoveryKept, FirstStep, SetterTypes
<1>3. NodeIsOn' /\ AnalyticsRow' /\ RecoveryIsAlone' /\ BackupIsHeld'
  BY <1>2, SettingKeeps DEF SetPreference, BeginSetting, FilesKept, StartInv, AnalyticsRow
<1>4. InStep'
  <2> SUFFICES ASSUME app \notin {"off", "opened"}, ~bypassed, NEW l \in Kinds \ unsure'
               PROVE  Settled(l)'
    BY DEF InStep, BeginSetting, FilesKept
  <2>1. l \notin unsure /\ UNCHANGED <<rows, cache>>
    BY DEF BeginSetting, FilesKept
  <2>2. Settled(l)
    BY <2>1 DEF StartInv, InStep
  <2>3. CASE l # k
    <3>1. Setting(l)' = Setting(l)
      BY <1>1, <2>3 DEF Setting
    <3>2. \A u \in Setting(l) : Midway(u)'
      BY <1>1, <2>1, <2>2 DEF Settled, Setting, Midway, LastRow
    <3> QED BY <2>1, <2>2, <3>1, <3>2 DEF Settled, HasRow, LastRow
  <2>4. CASE l = k
    <3>1. Setting(k) = {}
      BY <2>4 DEF BeginSetting
    <3>2. Setting(l)' \subseteq {t}
      BY <1>1, <2>4, <3>1 DEF Setting
    <3>3. t \in Setting(l)'
      BY <1>1, <2>4 DEF Setting, FirstStep
    <3>4. Midway(t)'
      BY <1>1, <2>1, <2>2, <2>4, <3>1 DEF Settled, Midway, LastRow
    <3> QED BY <2>1, <2>2, <3>2, <3>3, <3>4 DEF Settled, HasRow
  <2> QED BY <2>3, <2>4
<1> QED BY <1>2, <1>3, <1>4 DEF StartInv

\* Storing a preference adds the last row and drops none.
LEMMA StoreKeepsRows ==
  ASSUME StartInv, NEW t \in Threads, StorePreference(t), NEW k, NEW v,
         k = setter[t].kind, v = setter[t].value
  PROVE  /\ k \in Kinds /\ v \in Nat /\ rows' \in RowTypes
         /\ \A l \in Kinds : l # k => rows'[l] = rows[l]
         /\ rows'[k] # <<>> /\ rows'[k][Len(rows'[k])] = v
         /\ \A l \in Kinds : Chosen(rows, l) \subseteq Chosen(rows', l)
         /\ rows'["analytics"] # <<>>
<1>1. k \in Kinds /\ v \in Nat /\ rows[k] \in Seq(Nat)
  BY DEF StartInv, StartTypeOK, SetterTypes, RowTypes
<1>2. rows'[k] = Append(rows[k], v) /\ \A l \in Kinds : l # k => rows'[l] = rows[l]
  BY <1>1 DEF StartInv, StartTypeOK, RowTypes, StorePreference
<1>3. rows' \in RowTypes
  <2>1. rows'[k] \in Seq(Nat)
    BY <1>1, <1>2, RowAdded
  <2> QED BY <1>2, <2>1 DEF StartInv, StartTypeOK, RowTypes, StorePreference
<1>4. rows'[k] # <<>> /\ rows'[k][Len(rows'[k])] = v
  <2>1. Append(rows[k], v) # <<>> /\ Append(rows[k], v)[Len(Append(rows[k], v))] = v
    BY <1>1, RowAdded
  <2> QED BY <1>2, <2>1
<1>5. Chosen(rows, k) \subseteq Chosen(rows', k)
  <2>1. {rows[k][i] : i \in DOMAIN rows[k]} \subseteq
          {Append(rows[k], v)[i] : i \in DOMAIN Append(rows[k], v)}
    BY <1>1, RowAdded
  <2> QED BY <1>2, <2>1 DEF Chosen
<1>6. \A l \in Kinds : Chosen(rows, l) \subseteq Chosen(rows', l)
  BY <1>2, <1>5 DEF Chosen
<1>7. rows'["analytics"] # <<>>
  BY <1>2, <1>4 DEF Kinds, StartInv, AnalyticsRow
<1> QED BY <1>1, <1>2, <1>3, <1>4, <1>6, <1>7

\* The row is added: the first step of a call that is then half way, or the second
\* of one that has cached the same value.
LEMMA StorePreferenceInv ==
  ASSUME StartInv, NEW t \in Threads, StorePreference(t) PROVE StartInv'
<1> DEFINE k == setter[t].kind
           v == setter[t].value
<1>1. k \in Kinds /\ v \in Nat /\ setter[t].at = "row"
  BY DEF StartInv, StartTypeOK, SetterTypes, StorePreference
<1>2. \A l \in Kinds : l # k => rows'[l] = rows[l]
  BY StoreKeepsRows
<1>3. rows'[k] # <<>> /\ rows'[k][Len(rows'[k])] = v
  BY StoreKeepsRows
<1>4. rows' \in RowTypes /\ \A l \in Kinds : Chosen(rows, l) \subseteq Chosen(rows', l)
  BY StoreKeepsRows
<1>5. rows'["analytics"] # <<>>
  BY StoreKeepsRows
<1>6. setter'[t] = After(t, "row") /\ \A u \in Threads : u # t => setter'[u] = setter[u]
  BY DEF StartInv, StartTypeOK, StorePreference
<1>7. /\ k = "currency" => setter'[t] = [at |-> "cache", kind |-> k, value |-> v]
      /\ k = "analytics" => setter'[t] = Idle
  BY <1>1, <1>6 DEF After, FirstStep, StartInv, StartTypeOK, SetterTypes
<1>8. StartTypeOK'
  <2>2. setter'[t] \in SetterTypes
    BY <1>1, <1>7 DEF SetterTypes, Idle, Kinds
  <2>3. setter' \in [Threads -> SetterTypes]
    BY <1>6, <2>2 DEF StartInv, StartTypeOK, StorePreference
  <2> QED BY <1>4, <2>3 DEF StartInv, StartTypeOK, StorePreference, RecoveryKept
<1>9. NodeIsOn' /\ AnalyticsRow' /\ RecoveryIsAlone' /\ BackupIsHeld'
  BY <1>4, <1>5, <1>8, SettingKeeps DEF SetPreference
<1>10. InStep'
  <2> SUFFICES ASSUME app \notin {"off", "opened"}, ~bypassed, NEW l \in Kinds \ unsure
               PROVE  Settled(l)'
    BY DEF InStep, StorePreference
  <2>1. Settled(l)
    BY DEF StartInv, InStep
  <2>2. CASE l # k
    <3>1. setter'[t].at = "idle" \/ setter'[t].kind = k
      BY <1>1, <1>7 DEF Kinds, Idle
    <3> HIDE DEF k
    <3>2. l # setter[t].kind /\ (setter'[t].at = "idle" \/ setter'[t].kind = setter[t].kind)
      BY <2>2, <3>1 DEF k
    <3>3. rows'[l] = rows[l] /\ cache'[l] = cache[l]
      BY <1>2, <2>2 DEF StorePreference
    <3> QED BY <1>6, <2>1, <3>2, <3>3, OthersSettled
  <2>3. CASE l = k
    <3>1. t \in Setting(l) /\ \A u \in Setting(l) : u = t
      BY <1>1, <2>1, <2>3 DEF Setting, Settled
    <3>2. Midway(t)
      BY <2>1, <3>1 DEF Settled
    <3>3. CASE k = "currency"
      <4>1. Setting(l)' = {t}
        BY <1>6, <1>7, <2>3, <3>1, <3>3 DEF Setting
      <4>2. Midway(t)'
        BY <1>3, <1>7, <3>3 DEF Midway, FirstStep, LastRow
      <4> QED BY <1>3, <2>3, <4>1, <4>2 DEF Settled, HasRow
    <3>4. CASE k = "analytics"
      <4>1. Setting(l)' = {}
        BY <1>6, <1>7, <2>3, <3>1, <3>4 DEF Setting, Idle
      <4>2. cache'[l] = v
        BY <1>1, <2>3, <3>2, <3>4 DEF Midway, FirstStep, StorePreference
      <4> QED BY <1>3, <2>3, <4>1, <4>2 DEF Settled, HasRow, LastRow
    <3> QED BY <1>1, <3>3, <3>4 DEF Kinds
  <2> QED BY <2>2, <2>3
<1> QED BY <1>8, <1>9, <1>10 DEF StartInv

\* The row is not added: the currency is as it was, analytics are on record.
LEMMA StoreFailsInv ==
  ASSUME StartInv, NEW t \in Threads, StorePreferenceFails(t) PROVE StartInv'
<1>1. setter'[t] = Idle /\ \A u \in Threads : u # t => setter'[u] = setter[u]
  BY DEF StartInv, StartTypeOK, StorePreferenceFails
<1>2. StartTypeOK'
  BY DEF StartInv, StartTypeOK, StorePreferenceFails, FilesKept, RecoveryKept, SetterTypes,
         Idle, Kinds
<1>3. NodeIsOn' /\ AnalyticsRow' /\ RecoveryIsAlone' /\ BackupIsHeld'
  BY <1>2, SettingKeeps DEF SetPreference, StorePreferenceFails, FilesKept, StartInv, AnalyticsRow
<1>4. InStep'
  <2> SUFFICES ASSUME app \notin {"off", "opened"}, ~bypassed, NEW l \in Kinds \ unsure'
               PROVE  Settled(l)'
    BY DEF InStep, StorePreferenceFails, FilesKept
  <2>1. l \notin unsure /\ UNCHANGED <<rows, cache>> /\ setter[t].at = "row"
    BY DEF StorePreferenceFails, FilesKept
  <2>2. Settled(l)
    BY <2>1 DEF StartInv, InStep
  <2>3. CASE l # setter[t].kind
    BY <1>1, <2>1, <2>2, <2>3, OthersSettled DEF Idle
  <2>4. CASE l = setter[t].kind
    <3>1. l = "currency"
      BY <2>4 DEF StorePreferenceFails, Kinds
    <3>2. t \in Setting(l) /\ \A u \in Setting(l) : u = t
      BY <2>1, <2>2, <2>4 DEF Setting, Settled
    <3>3. cache[l] = LastRow(l)
      BY <2>1, <2>2, <2>4, <3>1, <3>2 DEF Settled, Midway, FirstStep
    <3>4. Setting(l)' = {}
      BY <1>1, <3>2 DEF Setting, Idle
    <3> QED BY <2>1, <2>2, <3>3, <3>4 DEF Settled, HasRow, LastRow
  <2> QED BY <2>3, <2>4
<1> QED BY <1>2, <1>3, <1>4 DEF StartInv

\* The value is cached: the second step of a call that has added the row, or the
\* first of one that is then half way.
LEMMA CachePreferenceInv ==
  ASSUME StartInv, NEW t \in Threads, CachePreference(t) PROVE StartInv'
<1>1. /\ setter[t].kind \in Kinds /\ setter[t].value \in Nat
      /\ setter[t].at = "cache" /\ setter[t] \in SetterTypes
  BY DEF StartInv, StartTypeOK, SetterTypes, CachePreference
<1>2. /\ cache'[setter[t].kind] = setter[t].value
      /\ \A l \in Kinds : l # setter[t].kind => cache'[l] = cache[l]
      /\ UNCHANGED rows
  BY <1>1 DEF StartInv, StartTypeOK, CachePreference, FilesKept
<1>3. setter'[t] = After(t, "cache") /\ \A u \in Threads : u # t => setter'[u] = setter[u]
  BY DEF StartInv, StartTypeOK, CachePreference
<1>4. /\ setter[t].kind = "currency" => setter'[t] = Idle
      /\ setter[t].kind = "analytics" =>
           setter'[t] = [at |-> "row", kind |-> "analytics", value |-> setter[t].value]
  BY <1>1, <1>3 DEF After, FirstStep, SetterTypes
<1>5. StartTypeOK'
  <2>1. setter'[t] \in SetterTypes
    BY <1>1, <1>4 DEF SetterTypes, Idle, Kinds
  <2>2. setter' \in [Threads -> SetterTypes]
    BY <1>3, <2>1 DEF StartInv, StartTypeOK, CachePreference
  <2>3. cache' \in [Kinds -> Nat]
    BY <1>1 DEF StartInv, StartTypeOK, CachePreference
  <2> QED BY <2>2, <2>3 DEF StartInv, StartTypeOK, CachePreference, FilesKept, RecoveryKept
<1>6. NodeIsOn' /\ AnalyticsRow' /\ RecoveryIsAlone' /\ BackupIsHeld'
  BY <1>5, SettingKeeps DEF SetPreference, CachePreference, FilesKept, StartInv, AnalyticsRow
<1>7. InStep'
  <2> SUFFICES ASSUME app \notin {"off", "opened"}, ~bypassed, NEW l \in Kinds \ unsure
               PROVE  Settled(l)'
    BY DEF InStep, CachePreference, FilesKept
  <2>1. Settled(l)
    BY DEF StartInv, InStep
  <2>2. CASE l # setter[t].kind
    <3>1. setter'[t].at = "idle" \/ setter'[t].kind = setter[t].kind
      BY <1>1, <1>4 DEF Kinds, Idle
    <3> QED BY <1>2, <1>3, <2>1, <2>2, <3>1, OthersSettled
  <2>3. CASE l = setter[t].kind
    <3>1. t \in Setting(l) /\ \A u \in Setting(l) : u = t
      BY <1>1, <2>1, <2>3 DEF Setting, Settled
    <3>2. Midway(t)
      BY <2>1, <3>1 DEF Settled
    <3>3. CASE l = "currency"
      <4>1. Setting(l)' = {}
        BY <1>3, <1>4, <2>3, <3>1, <3>3 DEF Setting, Idle
      <4>2. LastRow(l) = setter[t].value
        BY <1>1, <2>3, <3>2, <3>3 DEF Midway, FirstStep
      <4> QED BY <1>2, <2>1, <2>3, <4>1, <4>2 DEF Settled, HasRow, LastRow
    <3>4. CASE l = "analytics"
      <4>1. Setting(l)' = {t}
        BY <1>3, <1>4, <2>3, <3>1, <3>4 DEF Setting
      <4>2. Midway(t)'
        BY <1>2, <1>4, <2>3, <3>4 DEF Midway, FirstStep
      <4> QED BY <1>2, <2>1, <4>1, <4>2 DEF Settled, HasRow
    <3> QED BY <3>3, <3>4 DEF Kinds
  <2> QED BY <2>2, <2>3
<1> QED BY <1>5, <1>6, <1>7 DEF StartInv

-----------------------------------------------------------------------------
\* Every step preserves the invariant.
LEMMA NextStart == StartInv /\ [StartNext]_startVars => StartInv'
<1> SUFFICES ASSUME StartInv, [StartNext]_startVars PROVE StartInv'
  OBVIOUS
<1>1. CASE UNCHANGED startVars
  <2>1. StartTypeOK' /\ NodeIsOn' /\ AnalyticsRow' /\ RecoveryIsAlone'
    BY <1>1 DEF StartInv, StartTypeOK, NodeIsOn, AnalyticsRow, RecoveryIsAlone, startVars
  <2>2. BackupIsHeld'
    BY <1>1 DEF StartInv, BackupIsHeld, Chosen, startVars
  <2>3. InStep'
    BY <1>1, InStepKept DEF StartInv, startVars
  <2> QED BY <2>1, <2>2, <2>3 DEF StartInv
<1>2. CASE StartNode \/ StartFails \/ BackUp
  BY <1>2, OpenStoreInv, LoadPreferencesInv, RestOfStart, StartFailsInv, BackUpInv DEF StartNode
<1>3. CASE Recover
  BY <1>3, RecoveryReadsInv, WriteDatabaseInv, WriteFailsInv DEF Recover
<1>4. CASE Crash \/ Reinstall \/ NotificationOpens
  BY <1>4, CrashInv, ReinstallInv, NotificationOpensInv
<1>5. CASE \E t \in Threads : SetPreference(t)
  BY <1>5, BeginSettingInv, StorePreferenceInv, StoreFailsInv, CachePreferenceInv DEF SetPreference
<1> QED BY <1>1, <1>2, <1>3, <1>4, <1>5 DEF StartNext

\* The invariant holds in every behaviour.
THEOREM StartInvariant == StartSpec => []StartInv
  BY InitStart, NextStart, PTL DEF StartSpec

-----------------------------------------------------------------------------
\* Once the calls have returned, the preference a node goes by is the last row of
\* its table, which is what a restart reads, unless a call failed half way, two
\* calls met, or an empty database got ahead of a recovery.
THEOREM PreferencesAreStored == StartSpec => []PreferenceStored
<1>1. StartInv => PreferenceStored
  BY DEF StartInv, InStep, Settled, PreferenceStored
<1> QED BY <1>1, StartInvariant, PTL

\* A choice that has reached the backup stays in it, and the rows of a database are never
\* lost to a recovery, nor to anything else that leaves the database there, unless an
\* empty database got ahead of the recovery.
THEOREM ChoicesAreKept == StartSpec => ChoicesKept
<1>1. ASSUME StartInv, [StartNext]_startVars, remote # NoBackup, ~bypassed', NEW k \in Kinds
      PROVE  Chosen(remote, k) \subseteq Chosen(remote', k)
  <2>1. CASE BackUp
    <3>1. file = "whole" /\ ~bypassed /\ remote' = rows
      BY <1>1, <2>1 DEF StartInv, NodeIsOn, BackUp
    <3>2. Chosen(remote, k) \subseteq Chosen(rows, k)
      BY <1>1, <3>1 DEF StartInv, BackupIsHeld
    <3> QED BY <3>1, <3>2 DEF Chosen
  <2>2. CASE UNCHANGED remote
    BY <2>2 DEF Chosen
  <2> QED BY <1>1, <2>1, <2>2
          DEF StartNext, startVars, StartNode, OpenStore, Opens, LoadPreferences, ConnectSdk,
              StartTasks, RegisterWebhook, StartFails, Recover, BeginRecovery, FetchBackup,
              EndWithoutBackup, WriteDatabase, WriteFails, Crash, Reinstall, NotificationOpens,
              SetPreference, BeginSetting, StorePreference, StorePreferenceFails,
              CachePreference, FilesKept
<1>2. ASSUME StartInv, [StartNext]_startVars, file = "whole", file' = "whole", ~bypassed',
             NEW k \in Kinds
      PROVE  Chosen(rows, k) \subseteq Chosen(rows', k)
  <2>1. CASE UNCHANGED rows
    BY <2>1 DEF Chosen
  <2>2. CASE LoadPreferences
    BY <1>2, <2>2, LoadKeepsRows
  <2>3. ASSUME NEW t \in Threads, StorePreference(t)
        PROVE  Chosen(rows, k) \subseteq Chosen(rows', k)
    BY <1>2, <2>3, StoreKeepsRows
  <2>4. ~WriteDatabase
    BY <1>2 DEF StartInv, RecoveryIsAlone, WriteDatabase
  <2>5. ~(recovery = "writing" /\ Torn)
    BY <1>2, TornKeeps
  <2>6. ~Reinstall
    BY <1>2 DEF Reinstall
  <2>7. Opens => UNCHANGED rows
    BY <1>2 DEF Opens
  <2> QED BY <1>2, <2>1, <2>2, <2>3, <2>4, <2>5, <2>6, <2>7
          DEF StartNext, startVars, StartNode, OpenStore, ConnectSdk, StartTasks,
              RegisterWebhook, StartFails, BackUp, Recover, BeginRecovery, FetchBackup,
              EndWithoutBackup, WriteFails, Crash, NotificationOpens, SetPreference,
              BeginSetting, StorePreferenceFails, CachePreference, FilesKept
<1>3. StartInv /\ [StartNext]_startVars =>
        [~bypassed' =>
           \A k \in Kinds :
             /\ remote # NoBackup => Chosen(remote, k) \subseteq Chosen(remote', k)
             /\ file = "whole" /\ file' = "whole" =>
                  Chosen(rows, k) \subseteq Chosen(rows', k)]_startVars
  BY <1>1, <1>2
<1> QED BY <1>3, StartInvariant, PTL DEF StartSpec, ChoicesKept

-----------------------------------------------------------------------------
(* LspFees                                                                   *)

FeesTypeOK ==
  /\ TaskTypeOK(FeeSteps)
  /\ offers \in Nat /\ read \in Nat
  /\ heard \in [Tasks -> Nat]
  /\ fees \in [Terms -> Nat]
  /\ lacking \in SUBSET Terms

\* Without an overlap one task at most is alive: restart() starts one, and only
\* beside none.
OneTask == ~overlap => \A t, u \in Tasks : Alive(t) /\ Alive(u) => t = u

\* The task between its steps holds the list that came last.
HoldsLast ==
  ~overlap => \A t \in Tasks : At(t, "cheaper") \/ At(t, "longer") => heard[t] = read

\* Terms that list had are cached, or the task has yet to reach them.
CachedLast ==
  ~overlap =>
    \A k \in Terms \ lacking :
      \/ fees[k] = read
      \/ \E t \in Tasks : At(t, "cheaper") \/ (At(t, "longer") /\ k = "longer")

FeesInv == FeesTypeOK /\ OneTask /\ HoldsLast /\ CachedLast

-----------------------------------------------------------------------------
\* What every step of a task needs: the definitions of the steps it is made of.
USE DEF TaskTypeOK, FeeSteps, Terms, Modes, Goto, At, taskVars

\* The initial states satisfy the invariant.
LEMMA InitFees == FeesInit => FeesInv
<1> SUFFICES ASSUME FeesInit PROVE FeesInv
  OBVIOUS
<1>1. FeesTypeOK
  BY DEF FeesInit, TaskInit, FeesTypeOK, NoList
<1>2. OneTask /\ HoldsLast
  BY DEF FeesInit, TaskInit, OneTask, HoldsLast, Alive
<1>3. CachedLast
  BY DEF FeesInit, CachedLast
<1> QED BY <1>1, <1>2, <1>3 DEF FeesInv

\* Starting tasks: the new one is alone, or the overlap is recorded.
LEMMA ForegroundFees == ASSUME FeesInv, NEW t \in Tasks, FeesForeground(t) PROVE FeesInv'
<1>1. FeesTypeOK'
  BY DEF FeesInv, FeesTypeOK, FeesForeground, Spawn, Alive
<1>2. OneTask' /\ HoldsLast'
  BY DEF FeesInv, FeesTypeOK, OneTask, HoldsLast, FeesForeground, Spawn, Alive
<1>3. CachedLast'
  BY DEF FeesInv, FeesTypeOK, CachedLast, FeesForeground, Spawn, Alive
<1> QED BY <1>1, <1>2, <1>3 DEF FeesInv

\* Stopping tasks, and a new list of the LSP, leave them where they are.
LEMMA OutsideFees == ASSUME FeesInv, FeesBackground \/ OffersChange PROVE FeesInv'
<1>1. FeesTypeOK'
  <2>1. CASE FeesBackground
    BY <2>1 DEF FeesInv, FeesTypeOK, FeesBackground, StopAll, Alive
  <2>2. CASE OffersChange
    BY <2>2 DEF FeesInv, FeesTypeOK, OffersChange
  <2> QED BY <2>1, <2>2
<1>2. OneTask' /\ HoldsLast' /\ CachedLast'
  BY DEF FeesInv, OneTask, HoldsLast, CachedLast, FeesBackground, StopAll, OffersChange, Alive
<1> QED BY <1>1, <1>2 DEF FeesInv

\* The end of the process leaves no task and nothing cached.
LEMMA CrashFees == ASSUME FeesInv, FeesCrash PROVE FeesInv'
  BY DEF FeesInv, FeesTypeOK, OneTask, HoldsLast, CachedLast, FeesCrash, TasksDie, Alive, NoList

\* The steps of a task that neither hear nor cache anything.
LEMMA IdleFees ==
  ASSUME FeesInv, NEW t \in Tasks, FeesTick(t) \/ FeesStop(t) \/ LspFails(t) PROVE FeesInv'
<1>1. FeesTypeOK'
  BY DEF FeesInv, FeesTypeOK, FeesTick, TickTo, FeesStop, Stops, LspFails, Step
<1>2. OneTask' /\ HoldsLast'
  BY DEF FeesInv, FeesTypeOK, OneTask, HoldsLast, Alive,
         FeesTick, TickTo, FeesStop, Stops, LspFails, Step
<1>3. CachedLast'
  BY DEF FeesInv, FeesTypeOK, CachedLast, FeesTick, TickTo, FeesStop, Stops, LspFails, Step
<1> QED BY <1>1, <1>2, <1>3 DEF FeesInv

\* An answer: the task holds it, and has yet to reach both kinds of terms.
LEMMA AnswerFees == ASSUME FeesInv, NEW t \in Tasks, LspAnswers(t) PROVE FeesInv'
<1>1. FeesTypeOK'
  BY DEF FeesInv, FeesTypeOK, LspAnswers, Step
<1>2. OneTask' /\ HoldsLast'
  BY DEF FeesInv, FeesTypeOK, OneTask, HoldsLast, Alive, LspAnswers, Step
<1>3. At(t, "cheaper")'
  BY DEF FeesInv, FeesTypeOK, LspAnswers, Step
<1>4. CachedLast'
  BY <1>3 DEF CachedLast
<1> QED BY <1>1, <1>2, <1>4 DEF FeesInv

\* Caching one kind: no other task is between its steps, and the terms that were
\* reached before are not touched.
LEMMA CacheFees ==
  ASSUME FeesInv, NEW t \in Tasks, NEW kind \in Terms, CacheFee(t, kind) PROVE FeesInv'
<1>1. FeesTypeOK'
  BY DEF FeesInv, FeesTypeOK, CacheFee, Following, Step
<1>2. OneTask' /\ HoldsLast'
  BY DEF FeesInv, FeesTypeOK, OneTask, HoldsLast, Alive, CacheFee, Following, Step
<1>3. CachedLast'
  <2> SUFFICES ASSUME ~overlap, NEW k \in Terms \ lacking'
               PROVE  fees'[k] = read \/ (At(t, "longer")' /\ k = "longer")
    BY DEF CachedLast, CacheFee, Step
  <2>1. heard[t] = read /\ \A u \in Tasks : At(u, "cheaper") \/ At(u, "longer") => u = t
    BY DEF FeesInv, FeesTypeOK, OneTask, HoldsLast, Alive, CacheFee, Step
  <2>2. CASE k = kind
    BY <2>1, <2>2 DEF FeesInv, FeesTypeOK, CacheFee
  <2>3. CASE k # kind /\ kind = "cheaper"
    BY <2>3 DEF FeesInv, FeesTypeOK, CacheFee, Following, Step
  <2>4. CASE k # kind /\ kind = "longer"
    <3>1. k \in Terms \ lacking /\ k = "cheaper" /\ fees'[k] = fees[k]
      BY <2>4 DEF FeesInv, FeesTypeOK, CacheFee
    <3>2. pc[t] = "longer"
      BY <2>4 DEF CacheFee, Step
    <3> QED BY <2>1, <3>1, <3>2 DEF FeesInv, CachedLast
  <2> QED BY <2>2, <2>3, <2>4
<1> QED BY <1>1, <1>2, <1>3 DEF FeesInv

\* Every step preserves the invariant.
LEMMA NextFees == FeesInv /\ [FeesNext]_feeVars => FeesInv'
<1> SUFFICES ASSUME FeesInv, [FeesNext]_feeVars PROVE FeesInv'
  OBVIOUS
<1>1. CASE UNCHANGED feeVars
  BY <1>1 DEF FeesInv, FeesTypeOK, OneTask, HoldsLast, CachedLast, Alive, feeVars
<1>2. CASE \E t \in Tasks : FeesForeground(t) \/ FeesStep(t)
  BY <1>2, ForegroundFees, IdleFees, AnswerFees, CacheFees DEF FeesStep
<1>3. CASE FeesBackground \/ FeesCrash \/ OffersChange
  BY <1>3, OutsideFees, CrashFees
<1> QED BY <1>1, <1>2, <1>3 DEF FeesNext

\* The invariant holds in every behaviour.
THEOREM FeesInvariant == FeesSpec => []FeesInv
  BY InitFees, NextFees, PTL DEF FeesSpec

\* Unless tasks of two generations ran together, the terms that are cached
\* between iterations are those of the LSP's last answer, for each kind it had
\* terms of.
THEOREM TermsOfOneAnswer == FeesSpec => []PairIsOneAnswer
<1>1. FeesInv => PairIsOneAnswer
  BY DEF FeesInv, CachedLast, PairIsOneAnswer
<1> QED BY <1>1, FeesInvariant, PTL

-----------------------------------------------------------------------------
(* ExchangeRates                                                             *)

PaymentTypes ==
  [at : {"none", "taken", "stored"}, taken : [Currencies -> Nat], second : 0..MaxSeconds]

RatesTypeOK ==
  /\ TaskTypeOK(RateSteps)
  /\ quotes \in Nat
  /\ answer \in [Tasks -> Nat]
  /\ saved \in [Currencies -> Nat] /\ rates \in [Currencies -> Nat]
  /\ unwritten \in SUBSET Currencies
  /\ seconds \in 0..MaxSeconds
  /\ history \in [0..MaxSeconds -> [Currencies -> Nat]]
  /\ payment \in [Payments -> PaymentTypes]

\* A node that is down has no task.
DownIsDead == ~Up => \A t \in Tasks : ~Alive(t)

\* Nothing kept is newer than what the service quotes, and nothing the task may
\* replace is newer than its answer.
AnswersAreNew ==
  ~overlap =>
    \A c \in Currencies :
      /\ saved[c] <= quotes /\ rates[c] <= quotes
      /\ \A t \in Tasks : At(t, "answered") \/ At(t, "persisted") =>
           /\ answer[t] <= quotes
           /\ saved[c] <= answer[t] /\ rates[c] <= answer[t]

\* The rows are those of the list in memory, or of the answer about to be there.
RowsAhead ==
  \A c \in Currencies :
    InOrder(c) /\ Up =>
      \/ saved[c] = rates[c] /\ \A t \in Tasks : ~At(t, "persisted")
      \/ \E t \in Tasks : At(t, "persisted") /\ saved[c] = answer[t]

\* Snapshots of a second are those of a payment that was stored in it.
SecondsUsed ==
  \A s \in 0..MaxSeconds :
    history[s] # NoQuotes => \E p \in Payments : payment[p].at = "stored" /\ payment[p].second = s

RatesInv ==
  RatesTypeOK /\ DownIsDead /\ OneTask /\ AnswersAreNew /\ RowsAhead /\ SecondsUsed

-----------------------------------------------------------------------------
\* The same for the rates.
USE RatesAssumption
USE DEF RateSteps, RatesKept, QuotesOf, NoQuotes, Up

\* The initial states satisfy the invariant.
LEMMA InitRates == RatesInit => RatesInv
<1> SUFFICES ASSUME RatesInit PROVE RatesInv
  OBVIOUS
<1>1. RatesTypeOK
  <2>1. NoQuotes \in [Currencies -> Nat] /\ 0 \in 0..MaxSeconds
    OBVIOUS
  <2>2. Unpaid \in PaymentTypes
    BY <2>1 DEF Unpaid, PaymentTypes
  <2> HIDE DEF NoQuotes, QuotesOf
  <2>3. payment \in [Payments -> PaymentTypes]
    BY <2>2 DEF RatesInit
  <2>4. history \in [0..MaxSeconds -> [Currencies -> Nat]]
    BY <2>1 DEF RatesInit
  <2>5. TaskTypeOK(RateSteps) /\ answer \in [Tasks -> Nat]
    BY DEF RatesInit, TaskInit
  <2> QED BY <2>1, <2>3, <2>4, <2>5 DEF RatesInit, RatesTypeOK
<1>2. DownIsDead /\ OneTask /\ RowsAhead
  BY DEF RatesInit, TaskInit, DownIsDead, OneTask, RowsAhead, Alive
<1>3. AnswersAreNew
  BY DEF RatesInit, TaskInit, AnswersAreNew
<1>4. SecondsUsed
  BY DEF RatesInit, SecondsUsed
<1> QED BY <1>1, <1>2, <1>3, <1>4 DEF RatesInv

\* Starting tasks: the new one is alone, or the overlap is recorded.  The list in
\* memory is read from the rows when there was none.
LEMMA ForegroundRates == ASSUME RatesInv, NEW t \in Tasks, RatesForeground(t) PROVE RatesInv'
<1>1. RatesTypeOK'
  BY DEF RatesInv, RatesTypeOK, RatesForeground, Spawn, Alive, Loaded
<1>2. DownIsDead' /\ OneTask'
  BY DEF RatesInv, RatesTypeOK, DownIsDead, OneTask, RatesForeground, Spawn, Alive
<1>3. AnswersAreNew'
  BY DEF RatesInv, RatesTypeOK, AnswersAreNew, RatesForeground, Spawn, Alive, Loaded
<1>4. RowsAhead'
  <2> SUFFICES ASSUME NEW c \in Currencies, InOrder(c)' PROVE RowsAhead!(c)'
    BY DEF RowsAhead
  <2>1. ~overlap /\ \A u \in Tasks : ~Alive(u)
    BY DEF InOrder, RatesForeground, Spawn
  <2>2. \A u \in Tasks : ~At(u, "persisted") /\ ~At(u, "persisted")'
    BY <2>1 DEF RatesInv, RatesTypeOK, RatesForeground, Spawn, Alive
  <2>3. saved'[c] = rates'[c]
    BY <2>1, <2>2 DEF RatesInv, RowsAhead, InOrder, RatesForeground, Loaded
  <2> QED BY <2>2, <2>3
<1>5. SecondsUsed'
  BY DEF RatesInv, SecondsUsed, RatesForeground
<1> QED BY <1>1, <1>2, <1>3, <1>4, <1>5 DEF RatesInv

\* Stopping tasks, and new quotes of the service, change none of it.
LEMMA OutsideRates == ASSUME RatesInv, RatesBackground \/ QuotesChange PROVE RatesInv'
<1>1. CASE RatesBackground
  <2>1. RatesTypeOK'
    BY <1>1 DEF RatesInv, RatesTypeOK, RatesBackground, StopAll, Alive
  <2>2. DownIsDead' /\ OneTask' /\ RowsAhead'
    BY <1>1 DEF RatesInv, DownIsDead, OneTask, RowsAhead, InOrder, RatesBackground, StopAll, Alive
  <2>3. AnswersAreNew' /\ SecondsUsed'
    BY <1>1 DEF RatesInv, AnswersAreNew, SecondsUsed, RatesBackground, StopAll
  <2> QED BY <2>1, <2>2, <2>3 DEF RatesInv
<1>2. CASE QuotesChange
  <2>1. RatesTypeOK'
    BY <1>2 DEF RatesInv, RatesTypeOK, QuotesChange
  <2>2. DownIsDead' /\ OneTask' /\ RowsAhead'
    BY <1>2 DEF RatesInv, DownIsDead, OneTask, RowsAhead, InOrder, QuotesChange, Alive
  <2>3. AnswersAreNew'
    BY <1>2 DEF RatesInv, RatesTypeOK, AnswersAreNew, QuotesChange
  <2>4. SecondsUsed'
    BY <1>2 DEF RatesInv, SecondsUsed, QuotesChange
  <2> QED BY <2>1, <2>2, <2>3, <2>4 DEF RatesInv
<1> QED BY <1>1, <1>2

\* The end of the process leaves no task, and rows of the answer it was writing.
LEMMA CrashRates == ASSUME RatesInv, RatesCrash PROVE RatesInv'
<1>1. RatesTypeOK'
  <2>1. saved' \in [Currencies -> Nat]
    BY DEF RatesInv, RatesTypeOK, RatesCrash, Overwritten
  <2>2. payment' \in [Payments -> PaymentTypes]
    BY DEF RatesInv, RatesTypeOK, RatesCrash, PaymentTypes, Unpaid
  <2> QED BY <2>1, <2>2 DEF RatesInv, RatesTypeOK, RatesCrash, TasksDie
<1>2. DownIsDead' /\ OneTask' /\ RowsAhead'
  BY DEF DownIsDead, OneTask, RowsAhead, RatesCrash, TasksDie, Alive
<1>3. AnswersAreNew'
  <2> SUFFICES ASSUME ~overlap, NEW c \in Currencies PROVE saved'[c] <= quotes
    BY DEF AnswersAreNew, RatesInv, RatesTypeOK, RatesCrash, TasksDie
  <2> QED BY DEF RatesInv, RatesTypeOK, AnswersAreNew, RatesCrash, Overwritten
<1>4. SecondsUsed'
  <2>1. \A p \in Payments : payment[p].at = "stored" => payment'[p] = payment[p]
    BY DEF RatesInv, RatesTypeOK, RatesCrash
  <2> QED BY <2>1 DEF RatesInv, SecondsUsed, RatesCrash
<1> QED BY <1>1, <1>2, <1>3, <1>4 DEF RatesInv

\* The steps of a task that neither hear, write nor publish anything.
LEMMA IdleRates ==
  ASSUME RatesInv, NEW t \in Tasks, RatesTick(t) \/ RatesStop(t) \/ QueryFails(t)
  PROVE  RatesInv'
<1>1. RatesTypeOK'
  BY DEF RatesInv, RatesTypeOK, RatesTick, TickTo, RatesStop, Stops, QueryFails, Step
<1>2. DownIsDead' /\ OneTask'
  BY DEF RatesInv, RatesTypeOK, DownIsDead, OneTask, Alive,
         RatesTick, TickTo, RatesStop, Stops, QueryFails, Step
<1>3. AnswersAreNew'
  BY DEF RatesInv, RatesTypeOK, AnswersAreNew,
         RatesTick, TickTo, RatesStop, Stops, QueryFails, Step
<1>4. RowsAhead'
  <2>1. \A u \in Tasks : At(u, "persisted")' <=> At(u, "persisted")
    BY DEF RatesInv, RatesTypeOK, RatesTick, TickTo, RatesStop, Stops, QueryFails, Step
  <2>2. UNCHANGED <<mode, overlap, unwritten, saved, rates, answer>>
    BY DEF RatesTick, TickTo, RatesStop, Stops, QueryFails, Step
  <2> QED BY <2>1, <2>2 DEF RatesInv, RowsAhead, InOrder
<1>5. SecondsUsed'
  BY DEF RatesInv, SecondsUsed, RatesTick, RatesStop, QueryFails
<1> QED BY <1>1, <1>2, <1>3, <1>4, <1>5 DEF RatesInv

\* An answer is as new as the service's quotes.
LEMMA QuotedRates == ASSUME RatesInv, NEW t \in Tasks, Quoted(t) PROVE RatesInv'
<1>1. RatesTypeOK'
  BY DEF RatesInv, RatesTypeOK, Quoted, Step
<1>2. DownIsDead' /\ OneTask'
  BY DEF RatesInv, RatesTypeOK, DownIsDead, OneTask, Alive, Quoted, Step
<1>3. AnswersAreNew'
  BY DEF RatesInv, RatesTypeOK, AnswersAreNew, Quoted, Step
<1>4. RowsAhead'
  BY DEF RatesInv, RatesTypeOK, RowsAhead, InOrder, Quoted, Step
<1>5. SecondsUsed'
  BY DEF RatesInv, SecondsUsed, Quoted
<1> QED BY <1>1, <1>2, <1>3, <1>4, <1>5 DEF RatesInv

\* The rows that could be written are of the answer that is published next.
LEMMA PersistRates == ASSUME RatesInv, NEW t \in Tasks, Persist(t) PROVE RatesInv'
<1>1. RatesTypeOK'
  BY DEF RatesInv, RatesTypeOK, Persist, Overwritten, Written, Step
<1>2. DownIsDead' /\ OneTask'
  BY DEF RatesInv, RatesTypeOK, DownIsDead, OneTask, Alive, Persist, Step
<1>3. AnswersAreNew'
  <2> SUFFICES ASSUME ~overlap PROVE AnswersAreNew'
    BY DEF AnswersAreNew, Persist, Step
  <2>1. \A u \in Tasks : At(u, "answered")' \/ At(u, "persisted")' => u = t
    BY DEF RatesInv, RatesTypeOK, OneTask, Alive, Persist, Step
  <2>2. \A c \in Currencies : saved'[c] = saved[c] \/ saved'[c] = answer[t]
    BY DEF RatesInv, RatesTypeOK, Persist, Overwritten
  <2>3. \A c \in Currencies :
          /\ saved[c] <= answer[t] /\ rates[c] <= answer[t] /\ answer[t] <= quotes
          /\ saved[c] <= quotes /\ rates[c] <= quotes
    <3>1. ~overlap /\ At(t, "answered")
      BY DEF Persist, Step
    <3> QED BY <3>1 DEF RatesInv, AnswersAreNew
  <2>4. ASSUME NEW c \in Currencies PROVE saved'[c] <= answer[t] /\ saved'[c] <= quotes
    <3>1. CASE saved'[c] = saved[c]
      BY <2>3, <3>1
    <3>2. CASE saved'[c] = answer[t]
      <4>1. answer[t] \in Nat
        BY DEF RatesInv, RatesTypeOK
      <4> QED BY <2>3, <3>2, <4>1
    <3> QED BY <2>2, <3>1, <3>2
  <2>5. UNCHANGED <<answer, rates, quotes>>
    BY DEF Persist
  <2> QED BY <2>1, <2>3, <2>4, <2>5 DEF AnswersAreNew
<1>4. RowsAhead'
  <2>1. At(t, "persisted")'
    BY DEF RatesInv, RatesTypeOK, Persist, Step
  <2>2. \A c \in Currencies : c \notin unwritten' => saved'[c] = answer'[t]
    BY DEF RatesInv, RatesTypeOK, Persist, Overwritten, Written
  <2> QED BY <2>1, <2>2 DEF RowsAhead, InOrder
<1>5. SecondsUsed'
  BY DEF RatesInv, SecondsUsed, Persist
<1> QED BY <1>1, <1>2, <1>3, <1>4, <1>5 DEF RatesInv

\* The list in memory catches up with the rows.
LEMMA PublishRates == ASSUME RatesInv, NEW t \in Tasks, Publish(t) PROVE RatesInv'
<1>1. RatesTypeOK'
  BY DEF RatesInv, RatesTypeOK, Publish, Step
<1>2. DownIsDead' /\ OneTask'
  BY DEF RatesInv, RatesTypeOK, DownIsDead, OneTask, Alive, Publish, Step
<1>3. ~overlap => \A u \in Tasks : ~At(u, "answered")' /\ ~At(u, "persisted")'
  BY DEF RatesInv, RatesTypeOK, OneTask, Alive, Publish, Step
<1>4. AnswersAreNew'
  BY <1>3 DEF RatesInv, RatesTypeOK, AnswersAreNew, Publish, Step
<1>5. RowsAhead'
  <2> SUFFICES ASSUME NEW c \in Currencies, InOrder(c), Up PROVE saved[c] = rates'[c]
    BY <1>3 DEF RowsAhead, InOrder, Publish, Step
  <2>1. \A u \in Tasks : At(u, "persisted") => u = t
    BY DEF RatesInv, RatesTypeOK, OneTask, Alive, InOrder, Publish, Step
  <2>2. saved[c] = answer[t]
    BY <2>1 DEF RatesInv, RowsAhead, Publish, Step
  <2> QED BY <2>2 DEF Publish
<1>6. SecondsUsed'
  BY DEF RatesInv, SecondsUsed, Publish
<1> QED BY <1>1, <1>2, <1>4, <1>5, <1>6 DEF RatesInv

\* Taking the list leaves the tables alone.
LEMMA TakeRatesInv == ASSUME RatesInv, NEW p \in Payments, TakeRates(p) PROVE RatesInv'
<1>1. RatesTypeOK'
  BY DEF RatesInv, RatesTypeOK, TakeRates, PaymentTypes
<1>2. DownIsDead' /\ OneTask' /\ AnswersAreNew' /\ RowsAhead'
  BY DEF RatesInv, DownIsDead, OneTask, AnswersAreNew, RowsAhead, InOrder, TakeRates, Alive
<1>3. \A q \in Payments : payment[q].at = "stored" => payment'[q] = payment[q]
  BY DEF RatesInv, RatesTypeOK, TakeRates
<1>4. SecondsUsed'
  BY <1>3 DEF RatesInv, SecondsUsed, TakeRates
<1> QED BY <1>1, <1>2, <1>4 DEF RatesInv

\* Storing a payment: its second has a payment now.
LEMMA StorePaymentInv == ASSUME RatesInv, NEW p \in Payments, StorePayment(p) PROVE RatesInv'
<1>1. RatesTypeOK'
  <2>1. history' \in [0..MaxSeconds -> [Currencies -> Nat]]
    BY DEF RatesInv, RatesTypeOK, StorePayment, PaymentTypes, Inserted
  <2>2. payment' \in [Payments -> PaymentTypes]
    BY DEF RatesInv, RatesTypeOK, StorePayment, PaymentTypes
  <2> QED BY <2>1, <2>2 DEF RatesInv, RatesTypeOK, StorePayment
<1>2. DownIsDead' /\ OneTask' /\ AnswersAreNew' /\ RowsAhead'
  BY DEF RatesInv, DownIsDead, OneTask, AnswersAreNew, RowsAhead, InOrder, StorePayment, Alive
<1>3. payment'[p].at = "stored" /\ payment'[p].second = seconds
  BY DEF RatesInv, RatesTypeOK, PaymentTypes, StorePayment
<1>4. \A q \in Payments : payment[q].at = "stored" => payment'[q] = payment[q]
  BY DEF RatesInv, RatesTypeOK, StorePayment
<1>5. \A s \in 0..MaxSeconds : s # seconds => history'[s] = history[s]
  BY DEF RatesInv, RatesTypeOK, StorePayment
<1>6. SecondsUsed'
  BY <1>3, <1>4, <1>5 DEF RatesInv, SecondsUsed
<1> QED BY <1>1, <1>2, <1>6 DEF RatesInv

\* Time passes without a change.
LEMMA SecondInv == ASSUME RatesInv, SecondPasses PROVE RatesInv'
<1>1. RatesTypeOK'
  BY DEF RatesInv, RatesTypeOK, SecondPasses
<1>2. DownIsDead' /\ OneTask' /\ AnswersAreNew' /\ RowsAhead' /\ SecondsUsed'
  BY DEF RatesInv, DownIsDead, OneTask, AnswersAreNew, RowsAhead, InOrder, SecondsUsed,
         SecondPasses, Alive
<1> QED BY <1>1, <1>2 DEF RatesInv

\* Every step preserves the invariant.
LEMMA NextRates == RatesInv /\ [RatesNext]_rateVars => RatesInv'
<1> SUFFICES ASSUME RatesInv, [RatesNext]_rateVars PROVE RatesInv'
  OBVIOUS
<1>1. CASE UNCHANGED rateVars
  BY <1>1 DEF RatesInv, RatesTypeOK, DownIsDead, OneTask, AnswersAreNew, RowsAhead, InOrder,
              SecondsUsed, Alive, rateVars
<1>2. CASE \E t \in Tasks : RatesForeground(t) \/ RatesStep(t)
  BY <1>2, ForegroundRates, IdleRates, QuotedRates, PersistRates, PublishRates DEF RatesStep
<1>3. CASE \E p \in Payments : TakeRates(p) \/ StorePayment(p)
  BY <1>3, TakeRatesInv, StorePaymentInv
<1>4. CASE RatesBackground \/ RatesCrash \/ QuotesChange \/ SecondPasses
  BY <1>4, OutsideRates, CrashRates, SecondInv
<1> QED BY <1>1, <1>2, <1>3, <1>4 DEF RatesNext

\* The invariant holds in every behaviour.
THEOREM RatesInvariant == RatesSpec => []RatesInv
  BY InitRates, NextRates, PTL DEF RatesSpec

-----------------------------------------------------------------------------
\* Between iterations the rows a restart would read are the rates the app is
\* shown, for the currencies whose last write succeeded and unless tasks of two
\* generations ran together.
THEOREM RowsAreShown == RatesSpec => []RatesPersisted
<1>1. RatesInv => RatesPersisted
  BY DEF RatesInv, RowsAhead, RatesPersisted
<1> QED BY <1>1, RatesInvariant, PTL

\* What the app is shown, or would be after a restart, only goes forward.
LEMMA StepForward ==
  ASSUME RatesInv, [RatesNext]_rateVars, NEW c \in Currencies, InOrder(c)'
  PROVE  Shown'[c] >= Shown[c]
<1> USE DEF Shown
<1>1. CASE UNCHANGED rateVars
  BY <1>1 DEF RatesInv, RatesTypeOK, rateVars
<1>2. ASSUME NEW t \in Tasks, RatesForeground(t) PROVE Shown'[c] >= Shown[c]
  BY <1>2 DEF RatesInv, RatesTypeOK, RatesForeground, Spawn, Loaded
<1>3. ASSUME RatesBackground \/ QuotesChange \/ SecondPasses PROVE Shown'[c] >= Shown[c]
  BY <1>3 DEF RatesInv, RatesTypeOK, RatesBackground, StopAll, QuotesChange, SecondPasses
<1>4. ASSUME RatesCrash PROVE Shown'[c] >= Shown[c]
  <2>1. InOrder(c) /\ Up /\ Shown[c] = rates[c] /\ Shown'[c] = saved'[c]
    BY <1>4 DEF RatesCrash, TasksDie, InOrder
  <2>2. saved[c] >= rates[c]
    <3>1. saved[c] \in Nat /\ rates[c] \in Nat
      BY DEF RatesInv, RatesTypeOK
    <3>2. CASE saved[c] = rates[c]
      BY <3>1, <3>2
    <3>3. ASSUME NEW t \in Tasks, At(t, "persisted"), saved[c] = answer[t]
          PROVE  rates[c] <= saved[c]
      BY <2>1, <3>3 DEF RatesInv, AnswersAreNew, InOrder
    <3> QED BY <2>1, <3>1, <3>2, <3>3 DEF RatesInv, RowsAhead
  <2>3. CASE UNCHANGED saved
    BY <2>1, <2>2, <2>3
  <2>4. CASE \E t \in Tasks, some \in SUBSET Currencies :
               At(t, "answered") /\ saved' = Overwritten(t, some)
    <3>1. PICK t \in Tasks, some \in SUBSET Currencies :
             At(t, "answered") /\ saved' = Overwritten(t, some)
      BY <2>4
    <3>2. rates[c] <= answer[t] /\ answer[t] \in Nat /\ rates[c] \in Nat
      BY <2>1, <3>1 DEF RatesInv, RatesTypeOK, AnswersAreNew, InOrder
    <3>3. saved'[c] = answer[t] \/ saved'[c] = saved[c]
      BY <3>1 DEF Overwritten
    <3> QED BY <2>1, <2>2, <3>2, <3>3
  <2> QED BY <1>4, <2>3, <2>4 DEF RatesCrash
<1>5. ASSUME NEW t \in Tasks, RatesStep(t) PROVE Shown'[c] >= Shown[c]
  <2>1. Alive(t) /\ Up /\ UNCHANGED <<mode, overlap>>
    BY <1>5 DEF RatesInv, DownIsDead, Alive, RatesStep, RatesTick, TickTo, RatesStop, Stops,
                Quoted, QueryFails, Persist, Publish, Step
  <2>2. CASE Publish(t)
    <3>1. rates'[c] = answer[t] /\ rates[c] <= answer[t]
      BY <2>1, <2>2 DEF RatesInv, AnswersAreNew, InOrder, Publish, Step
    <3>2. answer[t] \in Nat /\ rates[c] \in Nat
      BY DEF RatesInv, RatesTypeOK
    <3> QED BY <2>1, <3>1, <3>2
  <2>3. CASE UNCHANGED rates
    BY <2>1, <2>3 DEF RatesInv, RatesTypeOK
  <2> QED BY <1>5, <2>2, <2>3 DEF RatesStep, RatesTick, RatesStop, Quoted, QueryFails, Persist
<1>6. ASSUME NEW p \in Payments, TakeRates(p) \/ StorePayment(p) PROVE Shown'[c] >= Shown[c]
  BY <1>6 DEF RatesInv, RatesTypeOK, TakeRates, StorePayment
<1> QED BY <1>1, <1>2, <1>3, <1>4, <1>5, <1>6 DEF RatesNext

\* A rate the app is shown, or would be shown after a restart, is never replaced
\* by an older one, neither by a restart nor by a late answer, unless a write
\* failed or tasks of two generations ran together.
THEOREM RatesGoForward == RatesSpec => RatesForward
<1>1. RatesInv /\ [RatesNext]_rateVars =>
        [\A c \in Currencies : InOrder(c)' => Shown'[c] >= Shown[c]]_rateVars
  BY StepForward
<1> QED BY <1>1, RatesInvariant, PTL DEF RatesSpec, RatesForward

-----------------------------------------------------------------------------
\* A payment that is stored stays as it is.
LEMMA StoredStays ==
  ASSUME RatesInv, [RatesNext]_rateVars, NEW p \in Payments, payment[p].at = "stored"
  PROVE  payment'[p] = payment[p]
<1>1. CASE UNCHANGED payment
  BY <1>1
<1>2. CASE RatesCrash
  BY <1>2 DEF RatesInv, RatesTypeOK, RatesCrash
<1>3. ASSUME NEW q \in Payments, TakeRates(q) \/ StorePayment(q) PROVE payment'[p] = payment[p]
  BY <1>3 DEF RatesInv, RatesTypeOK, TakeRates, StorePayment
<1> QED BY <1>1, <1>2, <1>3 DEF RatesNext, rateVars, RatesForeground, RatesStep, RatesBackground,
                              RatesTick, RatesStop, Quoted, QueryFails, Persist, Publish,
                              QuotesChange, SecondPasses

\* A snapshot that is there is never replaced.
LEMMA SnapshotStays ==
  ASSUME RatesInv, [RatesNext]_rateVars, NEW s \in 0..MaxSeconds,
         NEW c \in Currencies, history[s][c] # 0
  PROVE  history'[s][c] = history[s][c]
<1>1. CASE UNCHANGED history
  BY <1>1
<1>2. ASSUME NEW q \in Payments, StorePayment(q) PROVE history'[s][c] = history[s][c]
  BY <1>2 DEF RatesInv, RatesTypeOK, StorePayment, Inserted
<1> QED BY <1>1, <1>2 DEF RatesNext, rateVars, RatesForeground, RatesStep, RatesBackground,
                        RatesTick, RatesStop, Quoted, QueryFails, Persist, Publish,
                        RatesCrash, TakeRates, QuotesChange, SecondPasses

\* What is on record for a payment stays on record.
LEMMA RecordStays ==
  ASSUME RatesInv, [RatesNext]_rateVars, NEW p \in Payments, payment[p].at = "stored",
         NEW c \in Listed(Recorded(p))
  PROVE  Recorded(p)'[c] = Recorded(p)[c]
<1>1. payment'[p] = payment[p]
  BY StoredStays
<1>2. c \in Currencies /\ Recorded(p)[c] # 0
  BY DEF Listed
<1>3. payment[p].taken # NoQuotes
  BY <1>2 DEF Recorded
<1>4. payment[p].second \in 0..MaxSeconds
  BY DEF RatesInv, RatesTypeOK, PaymentTypes
<1>5. Recorded(p) = history[payment[p].second] /\ Recorded(p)' = history'[payment[p].second]
  BY <1>1, <1>3 DEF Recorded
<1> QED BY <1>2, <1>4, <1>5, SnapshotStays

\* The first payment of a second is recorded with the rates taken for it.
LEMMA FirstOfSecond ==
  ASSUME RatesInv, [RatesNext]_rateVars, NEW p \in Payments,
         payment'[p].at = "stored", payment[p].at # "stored",
         \A q \in Payments \ {p} : payment[q].at = "stored" => payment[q].second # seconds
  PROVE  Recorded(p)' = payment[p].taken
<1>1. StorePayment(p)
  <2>1. CASE UNCHANGED payment
    BY <2>1
  <2>2. CASE RatesCrash
    BY <2>2 DEF RatesInv, RatesTypeOK, RatesCrash, Unpaid
  <2>3. ASSUME NEW q \in Payments, TakeRates(q) PROVE FALSE
    BY <2>3 DEF RatesInv, RatesTypeOK, TakeRates
  <2>4. ASSUME NEW q \in Payments, StorePayment(q), q # p PROVE FALSE
    BY <2>4 DEF RatesInv, RatesTypeOK, StorePayment
  <2> QED BY <2>1, <2>2, <2>3, <2>4
          DEF RatesNext, rateVars, RatesForeground, RatesStep, RatesBackground, RatesTick,
              RatesStop, Quoted, QueryFails, Persist, Publish, QuotesChange, SecondPasses
<1>2. seconds \in 0..MaxSeconds /\ payment[p].taken \in [Currencies -> Nat]
  BY DEF RatesInv, RatesTypeOK, PaymentTypes
<1>3. history[seconds] = NoQuotes
  BY <1>2 DEF RatesInv, SecondsUsed
<1>4. payment'[p].taken = payment[p].taken /\ payment'[p].second = seconds
  BY <1>1 DEF RatesInv, RatesTypeOK, PaymentTypes, StorePayment
<1>5. history'[seconds] = [c \in Currencies |-> Inserted(history[seconds][c], payment[p].taken[c])]
  BY <1>1, <1>2 DEF RatesInv, RatesTypeOK, StorePayment
<1>6. history'[seconds] = payment[p].taken
  BY <1>2, <1>3, <1>5 DEF Inserted
<1> QED BY <1>4, <1>6 DEF Recorded

\* Snapshots are keyed with the second they are stored in: a rate that is on
\* record for a payment never changes, and the first payment of a second is
\* recorded with the rates that were taken for it.
THEOREM RecordsAreKept == RatesSpec => RecordedRates
<1> DEFINE Kept ==
      \A p \in Payments :
        /\ payment[p].at = "stored" =>
             \A c \in Listed(Recorded(p)) : Recorded(p)'[c] = Recorded(p)[c]
        /\ payment'[p].at = "stored" /\ payment[p].at # "stored"
             /\ (\A q \in Payments \ {p} :
                   payment[q].at = "stored" => payment[q].second # seconds) =>
             Recorded(p)' = payment[p].taken
<1>1. RatesInv /\ [RatesNext]_rateVars => [Kept]_rateVars
  BY RecordStays, FirstOfSecond
<1> QED BY <1>1, RatesInvariant, PTL DEF RatesSpec, RecordedRates
=============================================================================
