---------------------------- MODULE TablesProofs ----------------------------
(***************************************************************************)
(* Proofs about Tables: whatever the goroutines do and whenever the device *)
(* is deleted, no row and no cached key outlives it, what app state reads  *)
(* fits what it stored, keys stay with their user, what was stored is read *)
(* back, the newest is returned, and every variable keeps its type.        *)
(***************************************************************************)
EXTENDS EventProofs

-----------------------------------------------------------------------------
(* Nothing outlives its device.  Every part of the store empties its       *)
(* tables with the row of the device and fills none without it.            *)

NoEvents  == buffer = {} /\ consumed = {}
NoApp     == version = 0 /\ macs = {} /\ \A k \in SyncKeyIds : syncKeys[k] = 0
NoKeys    == identityKeys = {} /\ senderKeys = {}
NoPeers   == /\ \A u \in Jids : secrets[u] = NoText
             /\ outgoing = {} /\ setting = Defaults /\ salt = NoText

\* The event buffer: only DecryptionCommits inserts, and it needs the row.
LEMMA EventsNeedTheRow ==
    ASSUME ~row, NoEvents, EventNext
    PROVE  NoEvents'
<1> USE DEF NoEvents
<1>1. CASE \E m \in Messages : ServerSends(m)
  BY <1>1 DEF ServerSends
<1>2. CASE Lookups
  BY <1>2 DEF Lookups, GetBufferedEvent
<1>3. CASE \E t \in EventThreads : EventWork(t) \/ CallFails(t)
  <2>1. PICK t \in EventThreads : EventWork(t) \/ CallFails(t)
    BY <1>3
  <2>2. CASE DecryptionCommits(t)
    BY <2>2 DEF DecryptionCommits, Decryptable, Insertable
  <2>3. CASE ClearBufferedEventPlaintext(t)
    BY <2>3 DEF ClearBufferedEventPlaintext
  <2>4. CASE DecryptionFails(t) \/ HandleEvent(t) \/ Acknowledge(t) \/ CallFails(t)
    BY <2>4 DEF DecryptionFails, HandleEvent, Acknowledge, CallFails
  <2> QED BY <2>1, <2>2, <2>3, <2>4 DEF EventWork
<1>4. CASE EventsCrash
  BY <1>4 DEF EventsCrash
<1>5. CASE DeleteOldBufferedHashes
  BY <1>5 DEF DeleteOldBufferedHashes
<1> QED BY <1>1, <1>2, <1>3, <1>4, <1>5 DEF EventNext

\* App state: PutAppStateVersion and PutAppStateSyncKey need the row, and MACs
\* need the row of their version.
LEMMA AppNeedsTheRow ==
    ASSUME ~row, NoApp, SyncNext \/ KeyNext
    PROVE  NoApp'
<1> USE DEF NoApp
<1>1. CASE ServerPatch
  BY <1>1 DEF ServerPatch
<1>2. CASE StartSync \/ SyncFails
  BY <1>2 DEF StartSync, SyncFails
<1>3. CASE DeleteAppStateVersion \/ DeleteAppStateMutationMACs
  BY <1>3 DEF DeleteAppStateVersion, DeleteAppStateMutationMACs
<1>4. CASE PutAppStateVersion
  BY <1>4 DEF PutAppStateVersion, Insertable
<1>5. CASE PutAppStateMutationMACs
  BY <1>5 DEF PutAppStateMutationMACs, Insertable
<1>6. CASE KeyNext
  BY <1>6 DEF KeyNext, PutAppStateSyncKey, Insertable
<1> QED BY <1>1, <1>2, <1>3, <1>4, <1>5, <1>6 DEF SyncNext

\* Identity and sender keys: the migration moves what is there, that is nothing.
LEMMA KeysNeedTheRow ==
    ASSUME ~row, NoKeys, SignalNext
    PROVE  NoKeys'
<1> USE DEF NoKeys
<1>1. CASE \E a \in Addresses : \/ \E k \in IdentityKeys : PutIdentity(a, k)
                                \/ \E k \in SenderKeys : PutSenderKey(a, k)
                                \/ DeleteIdentity(a)
  BY <1>1 DEF PutIdentity, PutSenderKey, DeleteIdentity, Insertable
<1>2. CASE \E u \in SignalPns \cup SignalLids : DeleteAllIdentities(u)
  BY <1>2 DEF DeleteAllIdentities
<1>3. CASE \E u \in DOMAIN LidUserOf : MigrationStarts(u) \/ MigrationTransaction(u)
  <2>1. \A u, l : Move({}, u, l) = {}
    BY DEF Move
  <2> QED BY <1>3, <2>1 DEF MigrationStarts, MigrationTransaction
<1>4. CASE SignalCrash
  BY <1>4 DEF SignalCrash
<1> QED BY <1>1, <1>2, <1>3, <1>4 DEF SignalNext

\* What is kept per chat or user: every INSERT but that of tokens needs the row.
LEMMA PeersNeedTheRow ==
    ASSUME ~row, NoPeers,
           MapNext \/ TokenNext \/ SecretNext \/ SentNext \/ SettingNext
    PROVE  NoPeers'
<1> USE DEF NoPeers
<1>1. CASE MapNext
  BY <1>1 DEF MapNext, LearnMapping, secretVars, outgoingVars, settingVars
<1>2. CASE TokenNext
  BY <1>2 DEF TokenNext, PutPrivacyTokens, DeleteExpiredPrivacyTokens,
              secretVars, outgoingVars, settingVars
<1>3. CASE SecretNext
  BY <1>3 DEF SecretNext, PutMessageSecret, PutMessageSecrets, Insertable
<1>4. CASE SentNext
  BY <1>4 DEF SentNext, AddOutgoingEvent, DeleteOldOutgoingEvents, Insertable,
              secretVars, settingVars
<1>5. CASE SettingNext
  BY <1>5 DEF SettingNext, PutMutedUntil, PutPinned, PutArchived, SetColumn,
              PutNCTSalt, DeleteNCTSalt, Insertable, secretVars, outgoingVars
<1> QED BY <1>1, <1>2, <1>3, <1>4, <1>5

\* What Tables calls NothingOutlivesItsDevice, part by part.
LEMMA NothingIsAllParts ==
    NothingOutlivesItsDevice <=> (~row => NoEvents /\ NoApp /\ NoKeys /\ NoPeers)
BY DEF NothingOutlivesItsDevice, NoEvents, NoApp, NoKeys, NoPeers

LEMMA NothingOutlivesStep ==
    NothingOutlivesItsDevice /\ [TablesNext]_tablesVars => NothingOutlivesItsDevice'
<1> SUFFICES ASSUME NothingOutlivesItsDevice, [TablesNext]_tablesVars, ~row'
             PROVE  NoEvents' /\ NoApp' /\ NoKeys' /\ NoPeers'
  BY NothingIsAllParts DEF NothingOutlivesItsDevice, NoEvents, NoApp, NoKeys, NoPeers
<1> DEFINE EventsStay == UNCHANGED eventVars
           AppStays   == UNCHANGED appVars
           KeysStay   == UNCHANGED signalVars
           PeersStay  == UNCHANGED peerVars
<1>1. /\ EventsStay /\ NoEvents => NoEvents'
      /\ AppStays /\ NoApp => NoApp'
      /\ KeysStay /\ NoKeys => NoKeys'
      /\ PeersStay /\ NoPeers => NoPeers'
  BY DEF eventVars, appVars, signalVars, peerVars, tokenVars, secretVars, outgoingVars,
         settingVars, NoEvents, NoApp, NoKeys, NoPeers
<1>2. CASE row /\ row' # row
  <2>1. DeleteRow /\ EventsCascade /\ AppCascade /\ SignalCascade /\ PeerCascade
    BY <1>2 DEF TablesNext, tablesVars, deviceVars, EventStep, SyncStep, KeyStep, SignalStep,
                MapStep, TokenStep, SecretStep, SentStep, SettingStep, ClockStep, Tick,
                OthersThanEvents, OthersThanApp, OthersThanSignal, OthersThanPeers,
                DeviceStep, SetNoop, PairRow
  <2> QED BY <2>1 DEF EventsCascade, AppCascade, SignalCascade, PeerCascade,
                      NoEvents, NoApp, NoKeys, NoPeers
<1>3. CASE ~row
  <2>1. NoEvents /\ NoApp /\ NoKeys /\ NoPeers
    BY <1>3, NothingIsAllParts
  <2> HIDE DEF EventsStay, AppStays, KeysStay, PeersStay
  <2>2. \/ EventNext /\ AppStays /\ KeysStay /\ PeersStay
        \/ (SyncNext \/ KeyNext) /\ EventsStay /\ KeysStay /\ PeersStay
        \/ SignalNext /\ EventsStay /\ AppStays /\ PeersStay
        \/ /\ MapNext \/ TokenNext \/ SecretNext \/ SentNext \/ SettingNext
           /\ EventsStay /\ AppStays /\ KeysStay
        \/ EventsStay /\ AppStays /\ KeysStay /\ PeersStay
        \/ DeleteRow /\ EventsCascade /\ AppCascade /\ SignalCascade /\ PeerCascade
        \/ PairRow
    BY DEF TablesNext, tablesVars, EventStep, SyncStep, KeyStep, SignalStep,
           MapStep, TokenStep, SecretStep, SentStep, SettingStep, ClockStep,
           OthersThanEvents, OthersThanApp, OthersThanSignal, OthersThanPeers,
           DeviceStep, EventsStay, AppStays, KeysStay, PeersStay
  <2>3. CASE DeleteRow /\ EventsCascade /\ AppCascade /\ SignalCascade /\ PeerCascade
    BY <2>3 DEF EventsCascade, AppCascade, SignalCascade, PeerCascade,
                NoEvents, NoApp, NoKeys, NoPeers
  <2>4. CASE PairRow
    BY <2>4 DEF PairRow
  <2> QED BY <1>1, <1>3, <2>1, <2>2, <2>3, <2>4,
             EventsNeedTheRow, AppNeedsTheRow, KeysNeedTheRow, PeersNeedTheRow
<1>4. CASE row' = row
  BY <1>3, <1>4
<1> QED BY <1>2, <1>3, <1>4

(* Once a device is deleted, no table but privacy_tokens has a row of it,  *)
(* whatever calls are still under way and whatever comes after.            *)
THEOREM NothingOutlives == TablesSpec => []NothingOutlivesItsDevice
<1>1. TablesInit => NothingOutlivesItsDevice
  BY DEF TablesInit, DeviceInit, NothingOutlivesItsDevice
<1> QED BY <1>1, NothingOutlivesStep, PTL DEF TablesSpec

-----------------------------------------------------------------------------
(* App state: for any indexes and versions, and after failures between the *)
(* calls that store a patch, the MACs that can be read fit the hash of the *)
(* stored version.  The inductive invariant, in named parts.               *)

ValueMACs == [Indexes -> Nat]

AppTypes ==
    /\ truth \in Seq(ValueMACs)
    /\ version \in 0..Len(truth)
    /\ macs \subseteq [version : 1..version, index : Indexes, value : Nat]
    /\ torn \subseteq Indexes
    /\ sync = NoSync \/ sync \in [step : {"reset", "version", "delete", "macs"},
                                  to : 1..Len(truth), touched : SUBSET Indexes]

\* The primary key of the MACs.
OneMACPerVersion ==
    \A r \in macs, s \in macs : r.version = s.version /\ r.index = s.index => r = s

\* Without its row the device has no app state (NothingOutlivesItsDevice).
GoneWithTheRow == ~row => version = 0 /\ macs = {} /\ torn = {}

\* A synchronisation stores the next version, or all of one.
StoresNext ==
    row /\ sync # NoSync =>
        /\ sync.step = "reset" => sync.touched = Indexes
        /\ sync.step = "version" => version < sync.to
        /\ sync.step = "version" =>
              \/ sync.touched = Indexes
              \/ sync.to = version + 1 /\ sync.touched = Touched(sync.to)
        /\ sync.step \in {"delete", "macs"} =>
              version = sync.to /\ sync.touched \subseteq torn

\* When MACs are stored, those of removed indexes have been deleted.
RemovedAreDeleted ==
    sync # NoSync /\ sync.step = "macs" =>
        \A r \in macs : r.index \in sync.touched => TruthAt(sync.to)[r.index] # 0

AppInv == /\ AppTypes /\ OneMACPerVersion /\ GoneWithTheRow
          /\ StoresNext /\ RemovedAreDeleted /\ MacsMatchTheHash

-----------------------------------------------------------------------------
(* What the operators of AppState return.                                  *)

LEMMA TruthKept ==
    ASSUME AppTypes, NEW v \in ValueMACs, truth' = Append(truth, v)
    PROVE  /\ truth' \in Seq(ValueMACs) /\ Len(truth') = Len(truth) + 1
           /\ \A n \in 0..Len(truth) : TruthAt(n)' = TruthAt(n)
           /\ \A n \in 1..Len(truth) : Touched(n)' = Touched(n)
<1> USE DEF AppTypes
<1>1. truth' \in Seq(ValueMACs) /\ Len(truth') = Len(truth) + 1
  OBVIOUS
<1>2. \A n \in 0..Len(truth) : TruthAt(n)' = TruthAt(n)
  BY DEF TruthAt
<1>3. \A n \in 1..Len(truth) : n \in 0..Len(truth) /\ n - 1 \in 0..Len(truth)
  OBVIOUS
<1>4. \A n \in 1..Len(truth) : Touched(n)' = Touched(n)
  BY <1>2, <1>3 DEF Touched
<1> QED BY <1>1, <1>2, <1>4

LEMMA TruthType ==
    ASSUME AppTypes, NEW n \in 0..Len(truth), NEW i \in Indexes
    PROVE  TruthAt(n)[i] \in Nat
<1>1. CASE n = 0
  BY <1>1 DEF TruthAt, Blank
<1>2. CASE n # 0
  <2>1. n \in 1..Len(truth) /\ truth[n] \in ValueMACs
    BY <1>2 DEF AppTypes
  <2> QED BY <1>2, <2>1 DEF TruthAt, ValueMACs
<1> QED BY <1>1, <1>2

\* A step of a synchronisation keeps what it stores.
LEMMA NextStepOfSync ==
    ASSUME AppTypes, NEW w \in {"reset", "version", "delete", "macs"},
           sync # NoSync, sync' = [sync EXCEPT !.step = w]
    PROVE  /\ sync' # NoSync /\ sync'.step = w
           /\ sync'.to = sync.to /\ sync'.touched = sync.touched
           /\ sync' \in [step : {"reset", "version", "delete", "macs"},
                         to : 1..Len(truth), touched : SUBSET Indexes]
<1>1. sync \in [step : {"reset", "version", "delete", "macs"},
                to : 1..Len(truth), touched : SUBSET Indexes]
  BY DEF AppTypes
<1>2. /\ sync'.step = w /\ sync'.to = sync.to /\ sync'.touched = sync.touched
      /\ sync' \in [step : {"reset", "version", "delete", "macs"},
                    to : 1..Len(truth), touched : SUBSET Indexes]
  BY <1>1
<1>3. NoSync.step = "idle"
  BY DEF NoSync
<1> QED BY <1>2, <1>3

-----------------------------------------------------------------------------
(* AppInv, one lemma per action.                                           *)

LEMMA AppInvInit == TablesInit => AppInv
<1> SUFFICES ASSUME TablesInit PROVE AppInv
  OBVIOUS
<1> USE DEF TablesInit, DeviceInit, AppInit
<1>1. AppTypes
  BY DEF AppTypes
<1>2. OneMACPerVersion /\ GoneWithTheRow /\ StoresNext /\ RemovedAreDeleted
  BY DEF OneMACPerVersion, GoneWithTheRow, StoresNext, RemovedAreDeleted
<1>3. MacsMatchTheHash
  BY DEF MacsMatchTheHash, StoredMAC, NewestOf, TruthAt, Blank
<1> QED BY <1>1, <1>2, <1>3 DEF AppInv

LEMMA AppServerPatch ==
    ASSUME AppInv, ServerPatch, UNCHANGED row
    PROVE  AppInv'
<1> USE DEF AppInv
<1>1. UNCHANGED <<version, macs, sync, torn>>
  BY DEF ServerPatch
<1>2. PICK v \in ValueMACs : truth' = Append(truth, v)
  <2>1. PICK S \in SUBSET Indexes, R \in SUBSET Indexes :
           truth' = Append(truth, [i \in Indexes |->
               IF i \in S THEN Len(truth) + 1
               ELSE IF i \in R THEN 0 ELSE TruthAt(Len(truth))[i]])
    BY DEF ServerPatch
  <2>2. Len(truth) \in Nat /\ \A i \in Indexes : TruthAt(Len(truth))[i] \in Nat
    BY TruthType DEF AppTypes
  <2> QED BY <2>1, <2>2 DEF ValueMACs
<1>3. /\ truth' \in Seq(ValueMACs) /\ Len(truth') = Len(truth) + 1 /\ Len(truth) \in Nat
      /\ \A n \in 0..Len(truth) : TruthAt(n)' = TruthAt(n)
      /\ \A n \in 1..Len(truth) : Touched(n)' = Touched(n)
  BY <1>2, TruthKept DEF AppTypes
<1>4. AppTypes'
  BY <1>1, <1>3 DEF AppTypes
<1>5. sync # NoSync => sync.to \in 1..Len(truth) /\ sync.to \in 0..Len(truth)
  BY <1>3 DEF AppTypes
<1>6. OneMACPerVersion' /\ GoneWithTheRow'
  BY <1>1 DEF OneMACPerVersion, GoneWithTheRow
<1>7. StoresNext'
  BY <1>1, <1>3, <1>5 DEF StoresNext
<1>8. RemovedAreDeleted'
  BY <1>1, <1>3, <1>5 DEF RemovedAreDeleted
<1>9. MacsMatchTheHash'
  <2>1. version \in 0..Len(truth)
    BY DEF AppTypes
  <2> QED BY <1>1, <1>3, <2>1 DEF MacsMatchTheHash, StoredMAC
<1> QED BY <1>4, <1>6, <1>7, <1>8, <1>9

LEMMA AppStartSync ==
    ASSUME AppInv, StartSync, UNCHANGED row
    PROVE  AppInv'
<1> USE DEF AppInv
<1>1. UNCHANGED <<truth, version, macs, torn>>
  BY DEF StartSync
<1>2. /\ version + 1 \in 1..Len(truth) /\ Len(truth) \in 1..Len(truth)
      /\ Touched(version + 1) \subseteq Indexes
  BY DEF StartSync, AppTypes, Touched
<1>3. \/ sync' = Storing("version", version + 1, Touched(version + 1))
      \/ sync' = Storing("reset", Len(truth), Indexes)
  BY DEF StartSync
<1>4. AppTypes'
  BY <1>1, <1>2, <1>3 DEF AppTypes, Storing
<1>5. OneMACPerVersion' /\ GoneWithTheRow'
  BY <1>1 DEF OneMACPerVersion, GoneWithTheRow
<1>6. StoresNext'
  <2>1. version < version + 1 /\ Touched(version + 1)' = Touched(version + 1)
    BY <1>1 DEF AppTypes, Touched, TruthAt
  <2>2. CASE sync' = Storing("version", version + 1, Touched(version + 1))
    <3>1. /\ sync'.step = "version" /\ sync'.to = version + 1
          /\ sync'.touched = Touched(version + 1)
      BY <2>2 DEF Storing
    <3> QED BY <1>1, <2>1, <3>1 DEF StoresNext, Touched, TruthAt
  <2>3. CASE sync' = Storing("reset", Len(truth), Indexes)
    BY <2>3 DEF StoresNext, Storing
  <2> QED BY <1>3, <2>2, <2>3
<1>7. RemovedAreDeleted'
  BY <1>1, <1>3 DEF RemovedAreDeleted, Storing
<1>8. MacsMatchTheHash'
  BY <1>1 DEF MacsMatchTheHash, StoredMAC, TruthAt
<1> QED BY <1>4, <1>5, <1>6, <1>7, <1>8

\* A synchronisation ends, in this process or with it; whatever has no row
\* has nothing to be torn.
LEMMA AppSyncEnds ==
    ASSUME AppInv, UNCHANGED <<truth, version, macs, torn>>,
           sync' = NoSync, row' = row \/ row'
    PROVE  AppInv'
<1> USE DEF AppInv
<1>1. AppTypes'
  BY DEF AppTypes
<1>2. OneMACPerVersion' /\ GoneWithTheRow' /\ StoresNext' /\ RemovedAreDeleted'
  BY DEF OneMACPerVersion, GoneWithTheRow, StoresNext, RemovedAreDeleted
<1>3. MacsMatchTheHash'
  BY DEF MacsMatchTheHash, StoredMAC, TruthAt
<1> QED BY <1>1, <1>2, <1>3

LEMMA AppDeleteVersion ==
    ASSUME AppInv, DeleteAppStateVersion, UNCHANGED row
    PROVE  AppInv'
<1> USE DEF AppInv
<1>1. /\ version' = 0 /\ macs' = {} /\ torn' = {} /\ truth' = truth
      /\ sync.step = "reset" /\ sync' = [sync EXCEPT !.step = "version"]
  BY DEF DeleteAppStateVersion
<1>2. sync # NoSync
  BY <1>1 DEF NoSync
<1>3. /\ sync' # NoSync /\ sync'.step = "version" /\ sync'.touched = sync.touched
      /\ sync' \in [step : {"reset", "version", "delete", "macs"},
                    to : 1..Len(truth), touched : SUBSET Indexes]
  BY <1>1, <1>2, NextStepOfSync
<1>4. AppTypes'
  BY <1>1, <1>3 DEF AppTypes
<1>5. OneMACPerVersion' /\ GoneWithTheRow' /\ RemovedAreDeleted'
  BY <1>1 DEF OneMACPerVersion, GoneWithTheRow, RemovedAreDeleted
<1>6. StoresNext'
  BY <1>1, <1>2, <1>3 DEF StoresNext
<1>7. MacsMatchTheHash'
  BY <1>1 DEF MacsMatchTheHash, StoredMAC, NewestOf, TruthAt, Blank
<1> QED BY <1>4, <1>5, <1>6, <1>7

\* The indexes that the next version does not touch have the same MACs in both.
LEMMA AppPutVersion ==
    ASSUME AppInv, PutAppStateVersion, UNCHANGED row
    PROVE  AppInv'
<1> USE DEF AppInv
<1>1. /\ version' = sync.to /\ torn' = torn \cup sync.touched
      /\ UNCHANGED <<truth, macs>> /\ row
      /\ sync.step = "version" /\ sync' = [sync EXCEPT !.step = "delete"]
  BY DEF PutAppStateVersion, Insertable
<1>2. sync # NoSync
  BY <1>1 DEF NoSync
<1>3. /\ sync' # NoSync /\ sync'.step = "delete"
      /\ sync'.to = sync.to /\ sync'.touched = sync.touched
      /\ sync' \in [step : {"reset", "version", "delete", "macs"},
                    to : 1..Len(truth), touched : SUBSET Indexes]
  BY <1>1, <1>2, NextStepOfSync
<1>4. sync.to \in 1..Len(truth) /\ sync.touched \subseteq Indexes
  BY <1>2 DEF AppTypes
<1>5. \/ sync.touched = Indexes
      \/ sync.to = version + 1 /\ sync.touched = Touched(sync.to)
  BY <1>1, <1>2 DEF StoresNext
<1>6. AppTypes'
  BY <1>1, <1>2, <1>3, <1>4 DEF AppTypes, StoresNext
<1>7. OneMACPerVersion' /\ GoneWithTheRow'
  BY <1>1 DEF OneMACPerVersion, GoneWithTheRow
<1>8. StoresNext' /\ RemovedAreDeleted'
  BY <1>1, <1>3 DEF StoresNext, RemovedAreDeleted
<1>9. MacsMatchTheHash'
  <2>1. SUFFICES ASSUME NEW i \in Indexes, i \notin torn, i \notin sync.touched
                 PROVE  StoredMAC(i)' = TruthAt(version)'[i]
    BY <1>1 DEF MacsMatchTheHash
  <2>2. sync.to = version + 1 /\ i \notin Touched(sync.to) /\ version \in Nat
    BY <1>5, <2>1 DEF AppTypes
  <2>3. TruthAt(sync.to)[i] = TruthAt(version)[i]
    BY <2>2 DEF Touched
  <2>4. StoredMAC(i) = TruthAt(version)[i]
    BY <2>1 DEF MacsMatchTheHash
  <2> QED BY <1>1, <2>3, <2>4 DEF StoredMAC, TruthAt
<1> QED BY <1>6, <1>7, <1>8, <1>9

\* Rows of touched indexes go; the others are read as before.
LEMMA AppDeleteMACs ==
    ASSUME AppInv, DeleteAppStateMutationMACs, UNCHANGED row
    PROVE  AppInv'
<1> USE DEF AppInv
<1>1. /\ macs' = {r \in macs : ~(r.index \in sync.touched /\ TruthAt(sync.to)[r.index] = 0)}
      /\ UNCHANGED <<truth, version, torn>>
      /\ sync.step = "delete" /\ sync' = [sync EXCEPT !.step = "macs"]
  BY DEF DeleteAppStateMutationMACs
<1>2. sync # NoSync
  BY <1>1 DEF NoSync
<1>3. /\ sync' # NoSync /\ sync'.step = "macs"
      /\ sync'.to = sync.to /\ sync'.touched = sync.touched
      /\ sync' \in [step : {"reset", "version", "delete", "macs"},
                    to : 1..Len(truth), touched : SUBSET Indexes]
  BY <1>1, <1>2, NextStepOfSync
<1>4. AppTypes'
  BY <1>1, <1>3 DEF AppTypes
<1>5. OneMACPerVersion' /\ GoneWithTheRow'
  BY <1>1 DEF OneMACPerVersion, GoneWithTheRow
<1>6. StoresNext'
  BY <1>1, <1>2, <1>3 DEF StoresNext
<1>7. RemovedAreDeleted'
  BY <1>1, <1>3 DEF RemovedAreDeleted, TruthAt
<1>8. MacsMatchTheHash'
  <2>1. CASE row
    <3>1. SUFFICES ASSUME NEW i \in Indexes, i \notin torn
                   PROVE  StoredMAC(i)' = StoredMAC(i)
      BY <1>1 DEF MacsMatchTheHash, TruthAt
    <3>2. i \notin sync.touched
      BY <1>1, <1>2, <2>1, <3>1 DEF StoresNext
    <3>3. {r \in macs' : r.index = i} = {r \in macs : r.index = i}
      BY <1>1, <3>2
    <3> QED BY <3>3 DEF StoredMAC
  <2>2. CASE ~row
    <3>1. macs = {} /\ macs' = {}
      BY <1>1, <2>2 DEF GoneWithTheRow
    <3> QED BY <1>1, <3>1 DEF MacsMatchTheHash, StoredMAC, TruthAt
  <2> QED BY <2>1, <2>2
<1> QED BY <1>4, <1>5, <1>6, <1>7, <1>8

\* The new rows are the newest of their indexes; where there are none the
\* index was removed and so were its rows.
LEMMA AppPutMACs ==
    ASSUME AppInv, PutAppStateMutationMACs, UNCHANGED row
    PROVE  AppInv'
<1> DEFINE n   == sync.to
           mac(i) == [version |-> n, index |-> i, value |-> TruthAt(n)[i]]
           set == {i \in sync.touched : TruthAt(n)[i] # 0}
           new == {mac(i) : i \in set}
<1> USE DEF AppInv
<1>1. /\ sync.step = "macs" /\ macs' = macs \cup new /\ torn' = torn \ sync.touched
      /\ sync' = NoSync /\ UNCHANGED <<truth, version>>
      /\ new # {} => row
      /\ \A r \in new, s \in macs : ~(r.version = s.version /\ r.index = s.index)
  BY DEF PutAppStateMutationMACs, Insertable
<1>2. /\ sync # NoSync /\ n \in 1..Len(truth) /\ n \in 0..Len(truth)
      /\ sync.touched \subseteq Indexes
  BY <1>1 DEF NoSync, AppTypes
<1>3. row => version = n /\ sync.touched \subseteq torn
  BY <1>1, <1>2 DEF StoresNext
<1>4. \A i \in set : /\ i \in Indexes /\ TruthAt(n)[i] \in Nat
                     /\ mac(i).version = n /\ mac(i).index = i
                     /\ mac(i).value = TruthAt(n)[i] /\ mac(i) \in new
  BY <1>2, TruthType
<1>5. \A r \in new : r.index \in set /\ r = mac(r.index)
  OBVIOUS
<1> HIDE DEF n, mac, set, new
<1>6. AppTypes'
  <2>1. \A r \in new : r \in [version : 1..version, index : Indexes, value : Nat]
    BY <1>1, <1>2, <1>3, <1>4, <1>5 DEF mac
  <2> QED BY <1>1, <2>1 DEF AppTypes
<1>7. OneMACPerVersion'
  BY <1>1, <1>4, <1>5 DEF OneMACPerVersion
<1>8. GoneWithTheRow'
  BY <1>1 DEF GoneWithTheRow
<1>9. StoresNext' /\ RemovedAreDeleted'
  BY <1>1 DEF StoresNext, RemovedAreDeleted
<1>10. MacsMatchTheHash'
  <2>1. SUFFICES ASSUME NEW i \in Indexes, i \notin torn'
                 PROVE  StoredMAC(i)' = TruthAt(version)[i]
    BY <1>1 DEF MacsMatchTheHash, TruthAt
  <2>2. CASE i \in set
    <3>1. row /\ version = n
      BY <1>1, <1>3, <1>4, <2>2
    <3>2. \A s \in macs' : s.version <= version /\ version \in Nat
      BY <1>1, <1>6 DEF AppTypes
    <3>3. mac(i) \in macs' /\ \A s \in macs' : s.version <= mac(i).version
      BY <1>1, <1>4, <2>2, <3>1, <3>2
    <3> DEFINE R == {s \in macs' : s.index = i}
    <3>4. /\ mac(i) \in R
          /\ \A s \in R : s.version \in Nat /\ s.version <= mac(i).version
          /\ \A s \in R : s.version = mac(i).version => s = mac(i)
      BY <1>4, <1>6, <1>7, <2>2, <3>3 DEF AppTypes, OneMACPerVersion
    <3> DEFINE top == CHOOSE s \in R : \A z \in R : s.version >= z.version
    <3> HIDE DEF R
    <3>5. \A z \in R : mac(i).version >= z.version
      BY <3>4
    <3>6. top \in R /\ top.version >= mac(i).version
      BY <3>4, <3>5
    <3>7. top = mac(i)
      BY <3>4, <3>6
    <3>8. NewestOf(R) = mac(i).value
      BY <3>4, <3>7 DEF NewestOf
    <3> QED BY <1>4, <2>2, <3>1, <3>8 DEF StoredMAC, R
  <2>3. CASE i \in sync.touched /\ i \notin set
    <3>1. TruthAt(n)[i] = 0
      BY <2>3 DEF set
    <3>2. \A r \in macs' : r.index # i
      BY <1>1, <1>2, <1>4, <1>5, <2>3, <3>1 DEF RemovedAreDeleted, n
    <3>3. StoredMAC(i)' = 0
      BY <3>2 DEF StoredMAC, NewestOf
    <3>4. CASE row
      BY <1>3, <3>1, <3>3, <3>4
    <3>5. CASE ~row
      BY <3>3, <3>5 DEF GoneWithTheRow, TruthAt, Blank
    <3> QED BY <3>4, <3>5
  <2>4. CASE i \notin sync.touched
    <3>1. i \notin torn /\ i \notin set
      BY <1>1, <2>1, <2>4 DEF set
    <3>2. {r \in macs' : r.index = i} = {r \in macs : r.index = i}
      BY <1>1, <1>5, <3>1
    <3> QED BY <3>1, <3>2 DEF MacsMatchTheHash, StoredMAC
  <2> QED BY <2>2, <2>3, <2>4
<1> QED BY <1>6, <1>7, <1>8, <1>9, <1>10

LEMMA AppStateCascades ==
    ASSUME AppInv, AppCascade, row' = FALSE
    PROVE  AppInv'
<1> USE DEF AppInv, AppCascade
<1>1. AppTypes'
  BY DEF AppTypes
<1>2. OneMACPerVersion' /\ GoneWithTheRow' /\ StoresNext' /\ RemovedAreDeleted'
  BY DEF OneMACPerVersion, GoneWithTheRow, StoresNext, RemovedAreDeleted
<1>3. MacsMatchTheHash'
  BY DEF MacsMatchTheHash, StoredMAC, NewestOf, TruthAt, Blank
<1> QED BY <1>1, <1>2, <1>3

LEMMA AppUnchanged ==
    ASSUME AppInv, UNCHANGED <<truth, version, macs, sync, torn, row>>
    PROVE  AppInv'
BY DEF AppInv, AppTypes, OneMACPerVersion, GoneWithTheRow, StoresNext, Touched,
       RemovedAreDeleted, TruthAt, MacsMatchTheHash, StoredMAC

LEMMA AppStep == AppInv /\ [TablesNext]_tablesVars => AppInv'
<1> SUFFICES ASSUME AppInv, [TablesNext]_tablesVars PROVE AppInv'
  OBVIOUS
<1>1. CASE SyncStep
  <2>1. SyncNext /\ UNCHANGED row
    BY <1>1 DEF SyncStep, OthersThanApp, deviceVars
  <2>2. CASE SyncFails
    BY <2>1, <2>2, AppSyncEnds DEF SyncFails, AppRestart
  <2> QED BY <2>1, <2>2, AppServerPatch, AppStartSync, AppDeleteVersion, AppPutVersion,
             AppDeleteMACs, AppPutMACs DEF SyncNext
<1>2. CASE KeyStep
  BY <1>2, AppUnchanged DEF KeyStep, KeyNext, PutAppStateSyncKey, OthersThanApp, deviceVars
<1>3. CASE DeviceStep
  <2>1. CASE DeleteRow /\ AppCascade
    BY <2>1, AppStateCascades DEF DeleteRow
  <2>2. CASE SetNoop /\ UNCHANGED appVars
    BY <2>2, AppUnchanged DEF SetNoop, appVars
  <2>3. CASE PairRow /\ AppRestart /\ UNCHANGED <<truth, version, macs, torn, syncKeys, given>>
    BY <2>3, AppSyncEnds DEF PairRow, AppRestart
  <2> QED BY <1>3, <2>1, <2>2, <2>3 DEF DeviceStep
<1>4. CASE UNCHANGED appVars /\ UNCHANGED row
  BY <1>4, AppUnchanged DEF appVars
<1>5. \/ SyncStep \/ KeyStep \/ DeviceStep
      \/ UNCHANGED appVars /\ UNCHANGED row
  BY DEF TablesNext, EventStep, SignalStep, MapStep, TokenStep, SecretStep, SentStep,
         SettingStep, ClockStep, Tick, tablesVars, deviceVars,
         OthersThanEvents, OthersThanSignal, OthersThanPeers
<1> QED BY <1>1, <1>2, <1>3, <1>4, <1>5

(* The MAC read for an index is the one the hash of the stored version     *)
(* covers, for any indexes, patches and snapshots, whichever of the three  *)
(* calls fails, except for the indexes of a patch that is half stored.     *)
THEOREM MacsMatch == TablesSpec => []MacsMatchTheHash
<1>1. AppInv => MacsMatchTheHash
  BY DEF AppInv
<1> QED BY <1>1, AppInvInit, AppStep, PTL DEF TablesSpec

-----------------------------------------------------------------------------
(* Identity and sender keys stay with their user.                          *)

KeyRows(K) == [at : Addresses, key : K]

OneKeyPerAddress(R) == \A r, s \in R : r.at = s.at => r = s

\* What the migration makes of a table: the rows of u are those of l, and the
\* row of an address is still one.
LEMMA MoveMoves ==
    ASSUME NEW K, NEW R \in SUBSET KeyRows(K), OneKeyPerAddress(R),
           NEW u \in DOMAIN LidUserOf, NEW N, N = Move(R, u, LidUserOf[u])
    PROVE  /\ N \in SUBSET KeyRows(K) /\ OneKeyPerAddress(N)
           /\ \A r \in N : r.at.user # u
           /\ \A r \in Dropped(R, N) : r.at.user = u /\ MovedTo(r, N)
<1> DEFINE l == LidUserOf[u]
           to(r) == [r EXCEPT !.at.user = l]
           moved == {to(r) : r \in {r \in R : r.at.user = u}}
<1>1. /\ u \in SignalPns /\ l \in SignalLids /\ u # l
  BY SignalAssumption
<1>2. ASSUME NEW r \in R, r.at.user = u
      PROVE  /\ to(r) \in KeyRows(K) /\ to(r).at.user = l
             /\ to(r).at.dev = r.at.dev /\ to(r).key = r.key
             /\ r.at = [user |-> u, dev |-> r.at.dev]
  <2>1. r.at \in Addresses /\ r.key \in K /\ r = [at |-> r.at, key |-> r.key]
    BY DEF KeyRows
  <2>2. r.at = [user |-> u, dev |-> r.at.dev]
    BY <1>2, <2>1, SignalAssumption
  <2>3. [r.at EXCEPT !.user = l] \in Addresses
    BY <1>2, <2>1, SignalAssumption
  <2>4. to(r) = [at |-> [r.at EXCEPT !.user = l], key |-> r.key]
    BY <2>1
  <2>5. [r.at EXCEPT !.user = l] = [user |-> l, dev |-> r.at.dev]
    BY <2>2
  <2> HIDE DEF to, l
  <2> QED
    BY <2>1, <2>2, <2>3, <2>4, <2>5 DEF KeyRows
<1>3. N = {r \in R : r.at.user # u /\ \A s \in moved : s.at # r.at} \cup moved
  BY DEF Move
<1>4. \A x \in moved : \E r \in R : r.at.user = u /\ x = to(r)
  OBVIOUS
<1>5. \A r \in R : r.at.user = u => to(r) \in moved
  OBVIOUS
<1> HIDE DEF to, moved, l
<1>6. N \in SUBSET KeyRows(K)
  BY <1>2, <1>3, <1>4
<1>7. \A r \in N : r.at.user # u
  BY <1>1, <1>2, <1>3, <1>4
<1>8. OneKeyPerAddress(N)
  <2>1. ASSUME NEW x \in moved, NEW y \in moved, x.at = y.at PROVE x = y
    <3>1. PICK r \in R : r.at.user = u /\ x = to(r)
      BY <1>4
    <3>2. PICK s \in R : s.at.user = u /\ y = to(s)
      BY <1>4
    <3>3. r.at = s.at
      BY <1>2, <2>1, <3>1, <3>2
    <3> QED
      BY <3>1, <3>2, <3>3 DEF OneKeyPerAddress
  <2> QED
    BY <1>3, <2>1 DEF OneKeyPerAddress
<1>9. ASSUME NEW r \in Dropped(R, N) PROVE r.at.user = u /\ MovedTo(r, N)
  <2>1. r \in R /\ \A x \in N : x.at # r.at
    BY DEF Dropped, AddressesOf
  <2>2. r.at.user = u
    BY <1>3, <2>1
  <2> QED
    BY <1>3, <1>5, <2>1, <2>2 DEF MovedTo, to, l
<1> QED
  BY <1>6, <1>7, <1>8, <1>9

\* Nothing is dropped where an address keeps its row.
LEMMA NothingDropped ==
    ASSUME NEW R, NEW N, \A r \in R : \E x \in N : x.at = r.at
    PROVE  Dropped(R, N) = {}
BY DEF Dropped, AddressesOf

LEMMA PutKeyPuts ==
    ASSUME NEW K, NEW R \in SUBSET KeyRows(K), OneKeyPerAddress(R),
           NEW a \in Addresses, NEW k \in K
    PROVE  /\ PutKey(R, a, k) \in SUBSET KeyRows(K) /\ OneKeyPerAddress(PutKey(R, a, k))
           /\ Dropped(R, PutKey(R, a, k)) = {}
<1>1. PutKey(R, a, k) \in SUBSET KeyRows(K)
  BY DEF PutKey, KeyRows
<1>2. OneKeyPerAddress(PutKey(R, a, k))
  BY DEF PutKey, OneKeyPerAddress
<1>3. ASSUME NEW r \in R PROVE \E x \in PutKey(R, a, k) : x.at = r.at
  <2>1. CASE r.at = a
    <3>1. [at |-> a, key |-> k] \in PutKey(R, a, k)
      BY DEF PutKey
    <3> QED
      BY <2>1, <3>1
  <2>2. CASE r.at # a
    BY <2>2 DEF PutKey
  <2> QED
    BY <2>1, <2>2
<1> QED
  BY <1>1, <1>2, <1>3, NothingDropped

LEMMA KeysInvParts ==
    SignalTypeOK <=>
        /\ identityKeys \in SUBSET KeyRows(IdentityKeys) /\ OneKeyPerAddress(identityKeys)
        /\ senderKeys \in SUBSET KeyRows(SenderKeys) /\ OneKeyPerAddress(senderKeys)
        /\ migrating \subseteq migratedPNs /\ migratedPNs \subseteq SignalPns
BY DEF SignalTypeOK, KeyRows, OneKeyPerAddress

\* What KeysGoWithTheirUser says of a step.
Together(S, N, T, O) ==
    LET gone    == Dropped(S, N)
        goneToo == Dropped(T, O)
        moved   == /\ \A r \in gone : MovedTo(r, N)
                   /\ \A r \in goneToo : MovedTo(r, O)
                   /\ \A r \in N \cup O, s \in gone \cup goneToo : r.at.user # s.at.user
    IN  \/ moved
        \/ /\ goneToo = {}
           /\ \E u \in SignalPns \cup SignalLids : \A r \in gone : LikeUser(u, r.at.user)

\* Deletions take identities that match one user, as LIKE matches.
LEMMA DeletionTakes ==
    ASSUME NEW R \in SUBSET KeyRows(IdentityKeys), OneKeyPerAddress(R),
           NEW u \in SignalPns \cup SignalLids, NEW N \in SUBSET R,
           \A r \in R \ N : LikeUser(u, r.at.user), NEW S
    PROVE  /\ N \in SUBSET KeyRows(IdentityKeys) /\ OneKeyPerAddress(N)
           /\ Together(R, N, S, S)
<1>1. Dropped(S, S) = {}
  BY NothingDropped
<1>2. \A r \in Dropped(R, N) : r \in R \ N
  BY DEF Dropped, AddressesOf
<1> QED
  BY <1>1, <1>2 DEF Together, OneKeyPerAddress

LEMMA MigrationTakes ==
    ASSUME NEW I \in SUBSET KeyRows(IdentityKeys), OneKeyPerAddress(I),
           NEW S \in SUBSET KeyRows(SenderKeys), OneKeyPerAddress(S),
           NEW u \in DOMAIN LidUserOf, NEW N, N = Move(I, u, LidUserOf[u]),
           NEW O, O = Move(S, u, LidUserOf[u])
    PROVE  /\ N \in SUBSET KeyRows(IdentityKeys) /\ OneKeyPerAddress(N)
           /\ O \in SUBSET KeyRows(SenderKeys) /\ OneKeyPerAddress(O)
           /\ Together(I, N, S, O)
<1>1. /\ N \in SUBSET KeyRows(IdentityKeys) /\ OneKeyPerAddress(N)
      /\ \A r \in N : r.at.user # u
      /\ \A r \in Dropped(I, N) : r.at.user = u /\ MovedTo(r, N)
  BY MoveMoves
<1>2. /\ O \in SUBSET KeyRows(SenderKeys) /\ OneKeyPerAddress(O)
      /\ \A r \in O : r.at.user # u
      /\ \A r \in Dropped(S, O) : r.at.user = u /\ MovedTo(r, O)
  BY MoveMoves
<1> QED
  BY <1>1, <1>2 DEF Together

LEMMA KeysStep ==
    ASSUME SignalTypeOK, SignalNext
    PROVE  SignalTypeOK' /\ Together(identityKeys, identityKeys', senderKeys, senderKeys')
<1>1. /\ identityKeys \in SUBSET KeyRows(IdentityKeys) /\ OneKeyPerAddress(identityKeys)
      /\ senderKeys \in SUBSET KeyRows(SenderKeys) /\ OneKeyPerAddress(senderKeys)
      /\ migrating \subseteq migratedPNs /\ migratedPNs \subseteq SignalPns
  BY KeysInvParts
<1> DEFINE Fine == /\ identityKeys' \in SUBSET KeyRows(IdentityKeys)
                   /\ OneKeyPerAddress(identityKeys')
                   /\ senderKeys' \in SUBSET KeyRows(SenderKeys)
                   /\ OneKeyPerAddress(senderKeys')
                   /\ Together(identityKeys, identityKeys', senderKeys, senderKeys')
<1>2. SUFFICES Fine /\ migrating' \subseteq migratedPNs' /\ migratedPNs' \subseteq SignalPns
  BY DEF SignalTypeOK, KeyRows, OneKeyPerAddress
<1>3. \A R : Dropped(R, R) = {}
  BY NothingDropped
<1>4. \A I, N, S, O : Dropped(I, N) = {} /\ Dropped(S, O) = {} => Together(I, N, S, O)
  BY DEF Together
<1>5. UNCHANGED <<identityKeys, senderKeys>> => Fine
  BY <1>1, <1>3, <1>4
<1>6. ASSUME NEW a \in Addresses, NEW k \in IdentityKeys, PutIdentity(a, k)
      PROVE  Fine /\ UNCHANGED <<migratedPNs, migrating>>
  BY <1>1, <1>3, <1>4, <1>6, PutKeyPuts DEF PutIdentity
<1>7. ASSUME NEW a \in Addresses, NEW k \in SenderKeys, PutSenderKey(a, k)
      PROVE  Fine /\ UNCHANGED <<migratedPNs, migrating>>
  BY <1>1, <1>3, <1>4, <1>7, PutKeyPuts DEF PutSenderKey
<1>8. ASSUME NEW a \in Addresses, DeleteIdentity(a)
      PROVE  Fine /\ UNCHANGED <<migratedPNs, migrating>>
  <2>1. a.user \in SignalPns \cup SignalLids
    BY SignalAssumption
  <2>2. /\ identityKeys' \in SUBSET identityKeys
        /\ \A r \in identityKeys \ identityKeys' : LikeUser(a.user, r.at.user)
    BY <1>8 DEF DeleteIdentity
  <2> QED
    BY <1>1, <1>8, <2>1, <2>2, DeletionTakes DEF DeleteIdentity
<1>9. ASSUME NEW u \in SignalPns \cup SignalLids, DeleteAllIdentities(u)
      PROVE  Fine /\ UNCHANGED <<migratedPNs, migrating>>
  <2>1. /\ identityKeys' \in SUBSET identityKeys
        /\ \A r \in identityKeys \ identityKeys' : LikeUser(u, r.at.user)
    BY <1>9 DEF DeleteAllIdentities
  <2> QED
    BY <1>1, <1>9, <2>1, DeletionTakes DEF DeleteAllIdentities
<1>10. ASSUME NEW u \in DOMAIN LidUserOf, MigrationTransaction(u)
       PROVE  Fine /\ migrating' \subseteq migrating /\ migratedPNs' = migratedPNs
  <2>1. CASE UNCHANGED <<identityKeys, senderKeys>>
    BY <1>5, <1>10, <2>1 DEF MigrationTransaction
  <2>2. CASE /\ identityKeys' = Move(identityKeys, u, LidUserOf[u])
             /\ senderKeys' = Move(senderKeys, u, LidUserOf[u])
    BY <1>1, <1>10, <2>2, MigrationTakes DEF MigrationTransaction
  <2> QED
    BY <1>10, <2>1, <2>2 DEF MigrationTransaction
<1> HIDE DEF Fine
<1>11. ASSUME NEW u \in DOMAIN LidUserOf, MigrationStarts(u)
       PROVE  Fine /\ migrating' \subseteq migratedPNs' /\ migratedPNs' \subseteq SignalPns
  BY <1>1, <1>5, <1>11, SignalAssumption DEF MigrationStarts
<1>12. ASSUME SignalCrash
       PROVE  Fine /\ migrating' \subseteq migratedPNs' /\ migratedPNs' \subseteq SignalPns
  BY <1>5, <1>12 DEF SignalCrash, SignalRestart
<1> QED
  BY <1>1, <1>6, <1>7, <1>8, <1>9, <1>10, <1>11, <1>12 DEF SignalNext

LEMMA KeysTablesStep ==
    ASSUME SignalTypeOK, [TablesNext]_tablesVars
    PROVE  /\ SignalTypeOK'
           /\ row' => Together(identityKeys, identityKeys', senderKeys, senderKeys')
<1>1. \A R, T : Together(R, R, T, T)
  BY NothingDropped DEF Together
<1>2. CASE SignalStep
  BY <1>2, KeysStep DEF SignalStep
<1>3. CASE DeviceStep
  <2>1. CASE DeleteRow /\ SignalCascade
    BY <2>1 DEF DeleteRow, SignalCascade, SignalTypeOK
  <2>2. CASE UNCHANGED signalVars
    BY <1>1, <2>2 DEF signalVars, SignalTypeOK
  <2>3. CASE SignalRestart /\ UNCHANGED <<identityKeys, senderKeys>>
    BY <1>1, <2>3 DEF SignalRestart, SignalTypeOK
  <2> QED
    BY <1>3, <2>1, <2>2, <2>3 DEF DeviceStep
<1>4. CASE UNCHANGED signalVars
  BY <1>1, <1>4 DEF signalVars, SignalTypeOK
<1> QED
  BY <1>2, <1>3, <1>4
  DEF TablesNext, EventStep, SyncStep, KeyStep, MapStep, TokenStep, SecretStep, SentStep,
      SettingStep, ClockStep, tablesVars, OthersThanEvents, OthersThanApp, OthersThanPeers

(* While the device is there a sender key leaves its address only for that *)
(* of its LID, together with every key of the phone number; otherwise one  *)
(* step takes only identities of one user, or that its LIKE pattern        *)
(* matches, and no sender key.                                             *)
THEOREM KeysGoTogether == TablesSpec => KeysGoWithTheirUser
<1>1. TablesInit => SignalTypeOK
  BY DEF TablesInit, SignalInit, SignalTypeOK
<1>2. SignalTypeOK /\ [TablesNext]_tablesVars => SignalTypeOK'
  BY KeysTablesStep
<1>3. SignalTypeOK /\ [TablesNext]_tablesVars =>
        [row' =>
         LET gone    == Dropped(identityKeys, identityKeys')
             goneToo == Dropped(senderKeys, senderKeys')
             moved   == /\ \A r \in gone : MovedTo(r, identityKeys')
                        /\ \A r \in goneToo : MovedTo(r, senderKeys')
                        /\ \A r \in identityKeys' \cup senderKeys', s \in gone \cup goneToo :
                              r.at.user # s.at.user
         IN  \/ moved
             \/ /\ goneToo = {}
                /\ \E u \in SignalPns \cup SignalLids :
                      \A r \in gone : LikeUser(u, r.at.user)]_signalVars
  BY KeysTablesStep DEF Together
<1> QED
  BY <1>1, <1>2, <1>3, PTL DEF TablesSpec, KeysGoWithTheirUser

-----------------------------------------------------------------------------
(* What was stored is read back, under either JID of a user.               *)

\* The retry buffer has what was sent last to a chat, as long as it is kept,
\* and nothing else.
SentIsKept ==
    /\ \A r \in outgoing : r = [chat |-> r.chat, text |-> lastSent[r.chat].text,
                                ts |-> lastSent[r.chat].ts] /\ r.chat \in Jids
    /\ \A u \in Jids :
          /\ lastSent[u].ts \in Nat
          /\ lastSent[u] # NotSent /\ lastSent[u].ts + OutgoingKeep >= now =>
                [chat |-> u, text |-> lastSent[u].text, ts |-> lastSent[u].ts] \in outgoing

SettingFits ==
    /\ DOMAIN setting = DOMAIN Defaults /\ DOMAIN lastSet = DOMAIN NothingSet
    /\ lastSet.muted \in MuteTimes /\ setting.muted = StoredMute(lastSet.muted)
    /\ setting.pinned = lastSet.pinned /\ setting.archived = lastSet.archived

ReadInv ==
    /\ now \in Nat
    /\ lidMap \subseteq PeerLids \X PeerPns
    /\ secrets = firstSecret /\ secrets \in [Jids -> Texts \cup {NoText}]
    /\ lastSent \in [Jids -> [text : Texts \cup {NoText}, ts : Nat]]
    /\ SentIsKept
    /\ SettingFits

LEMMA FormsAreTheUser ==
    ASSUME lidMap \subseteq PeerLids \X PeerPns, NEW u \in Jids
    PROVE  Forms(u) = SameUser(u)
BY DEF Forms, Alt, SameUser, Jids

LEMMA ReadInvReads == ReadInv => StoredIsReadBack
<1> SUFFICES ASSUME ReadInv, NEW u \in Jids
             PROVE  LET fresh == {v \in SameUser(u) : lastSent[v] # NotSent
                                       /\ lastSent[v].ts + OutgoingKeep >= now}
                    IN  /\ GetMessageSecret(u) = {firstSecret[v] : v \in SameUser(u)} \ {NoText}
                        /\ {lastSent[v].text : v \in fresh} \subseteq GetOutgoingEvent(u)
                        /\ GetOutgoingEvent(u) \subseteq {lastSent[v].text : v \in SameUser(u)}
                        /\ GetChatSettings.muted =
                              IF lastSet.muted = "epoch" THEN "zero" ELSE lastSet.muted
                        /\ GetChatSettings.pinned = lastSet.pinned
                        /\ GetChatSettings.archived = lastSet.archived
  BY DEF StoredIsReadBack
<1> USE DEF ReadInv
<1>1. Forms(u) = SameUser(u) /\ SameUser(u) \subseteq Jids
  BY FormsAreTheUser DEF SameUser
<1>2. GetMessageSecret(u) = {firstSecret[v] : v \in SameUser(u)} \ {NoText}
  BY <1>1 DEF GetMessageSecret
<1>3. ASSUME NEW v \in SameUser(u), lastSent[v] # NotSent, lastSent[v].ts + OutgoingKeep >= now
      PROVE  lastSent[v].text \in GetOutgoingEvent(u)
  <2>1. PICK r \in outgoing : r.chat = v /\ r.text = lastSent[v].text
    BY <1>1, <1>3 DEF SentIsKept
  <2> QED
    BY <1>1, <2>1 DEF GetOutgoingEvent
<1>4. ASSUME NEW x \in GetOutgoingEvent(u)
      PROVE  \E v \in SameUser(u) : x = lastSent[v].text
  <2>1. PICK r \in outgoing : r.chat \in Forms(u) /\ x = r.text
    BY DEF GetOutgoingEvent
  <2>2. r.text = lastSent[r.chat].text
    BY <2>1 DEF SentIsKept
  <2> QED
    BY <1>1, <2>1, <2>2
<1>5. /\ GetChatSettings.muted = ReadMute(setting.muted)
      /\ GetChatSettings.pinned = setting.pinned
      /\ GetChatSettings.archived = setting.archived
  BY DEF GetChatSettings, SettingFits, Defaults
<1>6. ReadMute(StoredMute(lastSet.muted)) = IF lastSet.muted = "epoch" THEN "zero" ELSE lastSet.muted
  BY DEF SettingFits, MuteTimes, ReadMute, StoredMute
<1> QED
  BY <1>2, <1>3, <1>4, <1>5, <1>6 DEF SettingFits

\* The parts of ReadInv, by what they are about.
LEMMA ReadUnchanged ==
    ASSUME ReadInv, UNCHANGED <<now, peerVars>>
    PROVE  ReadInv'
BY DEF ReadInv, SentIsKept, SettingFits, peerVars, secretVars, outgoingVars, settingVars

LEMMA ReadTick ==
    ASSUME ReadInv, now' = now + 1, UNCHANGED peerVars
    PROVE  ReadInv'
<1> USE DEF ReadInv, peerVars, secretVars, outgoingVars, settingVars
<1>1. UNCHANGED <<lidMap, secrets, firstSecret, outgoing, lastSent, setting, lastSet>>
  OBVIOUS
<1>2. \A u \in Jids : lastSent[u].ts \in Nat /\ OutgoingKeep \in Nat
                      /\ (lastSent[u].ts + OutgoingKeep >= now + 1 =>
                             lastSent[u].ts + OutgoingKeep >= now)
  BY KeepAssumption DEF SentIsKept
<1>3. SentIsKept'
  BY <1>1, <1>2 DEF SentIsKept
<1>4. SettingFits'
  BY <1>1 DEF SettingFits
<1> QED
  BY <1>1, <1>3, <1>4

LEMMA ReadMap ==
    ASSUME ReadInv, MapNext, now' = now
    PROVE  ReadInv'
<1>1. PICK l \in PeerLids, p \in PeerPns : LearnMapping(l, p)
  BY DEF MapNext
<1>2. lidMap' \subseteq PeerLids \X PeerPns
  BY <1>1 DEF LearnMapping, ReadInv
<1> QED
  BY <1>1, <1>2 DEF LearnMapping, ReadInv, SentIsKept, SettingFits,
                    secretVars, outgoingVars, settingVars

LEMMA ReadTokens ==
    ASSUME ReadInv, TokenNext, now' = now
    PROVE  ReadInv'
<1>1. UNCHANGED <<lidMap, secretVars, outgoingVars, settingVars>>
  BY DEF TokenNext, PutPrivacyTokens, DeleteExpiredPrivacyTokens
<1> QED
  BY <1>1 DEF ReadInv, SentIsKept, SettingFits, secretVars, outgoingVars, settingVars

LEMMA ReadSecrets ==
    ASSUME ReadInv, SecretNext, now' = now
    PROVE  ReadInv'
<1> USE DEF ReadInv
<1>1. UNCHANGED <<lidMap, outgoingVars, settingVars>>
  BY DEF SecretNext, PutMessageSecret, PutMessageSecrets
<1>2. secrets' = firstSecret' /\ secrets' \in [Jids -> Texts \cup {NoText}]
  <2>1. CASE \E u \in Jids, x \in Texts : PutMessageSecret(u, x)
    BY <2>1 DEF PutMessageSecret
  <2>2. CASE \E f \in [Jids -> Texts \cup {NoText}] : PutMessageSecrets(f)
    BY <2>2 DEF PutMessageSecrets
  <2> QED
    BY <2>1, <2>2 DEF SecretNext
<1> QED
  BY <1>1, <1>2 DEF SentIsKept, SettingFits, outgoingVars, settingVars

LEMMA ReadSent ==
    ASSUME ReadInv, SentNext, now' = now
    PROVE  ReadInv'
<1> USE DEF ReadInv
<1>1. UNCHANGED <<lidMap, secretVars, settingVars>>
  BY DEF SentNext, AddOutgoingEvent, DeleteOldOutgoingEvents
<1>2. ASSUME NEW u \in Jids, NEW x \in Texts, AddOutgoingEvent(u, x)
      PROVE  /\ lastSent' \in [Jids -> [text : Texts \cup {NoText}, ts : Nat]]
             /\ SentIsKept'
  <2>1. PICK e : e = [chat |-> u, text |-> x, ts |-> now]
    OBVIOUS
  <2>2. PICK n : n = [text |-> x, ts |-> now]
    OBVIOUS
  <2>3. /\ outgoing' = {r \in outgoing : r.chat # u} \cup {e}
        /\ lastSent' = [lastSent EXCEPT ![u] = n]
    BY <1>2, <2>1, <2>2 DEF AddOutgoingEvent, PutEvent
  <2>4. n \in [text : Texts \cup {NoText}, ts : Nat] /\ n.text = x /\ n.ts = now
    BY <2>2
  <2>5. lastSent' \in [Jids -> [text : Texts \cup {NoText}, ts : Nat]]
    BY <2>3, <2>4
  <2>6. lastSent'[u] = n /\ \A v \in Jids : v # u => lastSent'[v] = lastSent[v]
    BY <2>3
  <2>7. ASSUME NEW r \in outgoing'
        PROVE  /\ r = [chat |-> r.chat, text |-> lastSent'[r.chat].text,
                       ts |-> lastSent'[r.chat].ts]
               /\ r.chat \in Jids
    <3>1. CASE r \in outgoing /\ r.chat # u
      BY <2>6, <3>1 DEF SentIsKept
    <3>2. CASE r = e
      BY <2>1, <2>4, <2>6, <3>2
    <3> QED
      BY <2>3, <2>7, <3>1, <3>2
  <2>8. ASSUME NEW v \in Jids
        PROVE  /\ lastSent'[v].ts \in Nat
               /\ lastSent'[v] # NotSent /\ lastSent'[v].ts + OutgoingKeep >= now =>
                     [chat |-> v, text |-> lastSent'[v].text, ts |-> lastSent'[v].ts] \in outgoing'
    <3>1. CASE v = u
      BY <2>1, <2>3, <2>4, <2>6, <3>1
    <3>2. CASE v # u
      BY <2>3, <2>6, <3>2 DEF SentIsKept
    <3> QED
      BY <3>1, <3>2
  <2> QED
    BY <2>5, <2>7, <2>8 DEF SentIsKept
<1>3. ASSUME DeleteOldOutgoingEvents
      PROVE  /\ lastSent' \in [Jids -> [text : Texts \cup {NoText}, ts : Nat]]
             /\ SentIsKept'
  <2>1. /\ outgoing' = {r \in outgoing : ~(r.ts + OutgoingKeep < now)}
        /\ lastSent' = lastSent
    BY <1>3 DEF DeleteOldOutgoingEvents
  <2>2. \A u \in Jids : lastSent[u].ts + OutgoingKeep >= now =>
                          ~(lastSent[u].ts + OutgoingKeep < now)
    BY KeepAssumption DEF SentIsKept
  <2> QED
    BY <2>1, <2>2 DEF SentIsKept
<1> QED
  BY <1>1, <1>2, <1>3 DEF SentNext, SettingFits, secretVars, settingVars

LEMMA ReadSettings ==
    ASSUME ReadInv, SettingNext, now' = now
    PROVE  ReadInv'
<1> USE DEF ReadInv
<1>1. UNCHANGED <<lidMap, secretVars, outgoingVars>>
  BY DEF SettingNext, PutMutedUntil, PutPinned, PutArchived, SetColumn, PutNCTSalt,
         DeleteNCTSalt
<1>2. CASE \E t \in MuteTimes : PutMutedUntil(t)
  BY <1>1, <1>2 DEF PutMutedUntil, SetColumn, SettingFits, SentIsKept, Defaults, NothingSet,
                    secretVars, outgoingVars
<1>3. CASE \E v \in BOOLEAN : PutPinned(v)
  BY <1>1, <1>3 DEF PutPinned, SetColumn, SettingFits, SentIsKept, Defaults, NothingSet,
                    secretVars, outgoingVars
<1>4. CASE \E v \in BOOLEAN : PutArchived(v)
  BY <1>1, <1>4 DEF PutArchived, SetColumn, SettingFits, SentIsKept, Defaults, NothingSet,
                    secretVars, outgoingVars
<1>5. CASE (\E x \in Texts : PutNCTSalt(x)) \/ DeleteNCTSalt
  BY <1>1, <1>5 DEF PutNCTSalt, DeleteNCTSalt, SettingFits, SentIsKept,
                    secretVars, outgoingVars
<1> QED
  BY <1>2, <1>3, <1>4, <1>5 DEF SettingNext

LEMMA ReadCascade ==
    ASSUME ReadInv, PeerCascade, now' = now
    PROVE  ReadInv'
<1> USE DEF ReadInv
<1>1. /\ lidMap' = lidMap /\ outgoing' = {} /\ secrets' = firstSecret'
      /\ secrets' = [u \in Jids |-> NoText] /\ lastSent' = [u \in Jids |-> NotSent]
      /\ setting' = Defaults /\ lastSet' = NothingSet
  BY DEF PeerCascade
<1>2. lastSent' \in [Jids -> [text : Texts \cup {NoText}, ts : Nat]]
  BY <1>1 DEF NotSent
<1>3. SentIsKept'
  BY <1>1 DEF SentIsKept, NotSent
<1>4. SettingFits'
  BY <1>1 DEF SettingFits, Defaults, NothingSet, MuteTimes, StoredMute
<1> QED
  BY <1>1, <1>2, <1>3, <1>4

LEMMA ReadInit == TablesInit => ReadInv
<1> SUFFICES ASSUME TablesInit PROVE ReadInv
  OBVIOUS
<1> USE DEF TablesInit, DeviceInit, PeerInit
<1>1. SentIsKept
  BY DEF SentIsKept, NotSent
<1>2. SettingFits
  BY DEF SettingFits, Defaults, NothingSet, MuteTimes, StoredMute
<1>3. lastSent \in [Jids -> [text : Texts \cup {NoText}, ts : Nat]]
  BY DEF NotSent
<1> QED
  BY <1>1, <1>2, <1>3 DEF ReadInv

LEMMA ReadStep == ReadInv /\ [TablesNext]_tablesVars => ReadInv'
<1> SUFFICES ASSUME ReadInv, [TablesNext]_tablesVars PROVE ReadInv'
  OBVIOUS
<1>1. CASE DeviceStep
  <2>1. CASE DeleteRow /\ PeerCascade
    BY <2>1, ReadCascade DEF DeleteRow
  <2>2. CASE (SetNoop \/ PairRow) /\ UNCHANGED peerVars
    BY <2>2, ReadUnchanged DEF SetNoop, PairRow
  <2> QED
    BY <1>1, <2>1, <2>2 DEF DeviceStep
<1>2. CASE ClockStep
  BY <1>2, ReadTick DEF ClockStep, Tick
<1>3. CASE MapStep \/ TokenStep \/ SecretStep \/ SentStep \/ SettingStep
  <2>1. /\ MapNext \/ TokenNext \/ SecretNext \/ SentNext \/ SettingNext
        /\ now' = now
    BY <1>3 DEF MapStep, TokenStep, SecretStep, SentStep, SettingStep, OthersThanPeers,
                deviceVars
  <2> QED
    BY <2>1, ReadMap, ReadTokens, ReadSecrets, ReadSent, ReadSettings
<1>4. CASE UNCHANGED <<now, peerVars>>
  BY <1>4, ReadUnchanged
<1>5. EventStep \/ SyncStep \/ KeyStep \/ SignalStep \/ UNCHANGED tablesVars
      => UNCHANGED <<now, peerVars>>
  BY DEF EventStep, SyncStep, KeyStep, SignalStep, tablesVars, deviceVars,
         OthersThanEvents, OthersThanApp, OthersThanSignal
<1> QED
  BY <1>1, <1>2, <1>3, <1>4, <1>5 DEF TablesNext

(* What was stored under one JID of a user is found under the other, the   *)
(* first secret and the last outgoing event while it is kept, whatever     *)
(* lid_map learns and forgets; a chat has the settings it was given last.  *)
THEOREM ReadBack == TablesSpec => []StoredIsReadBack
BY ReadInit, ReadStep, ReadInvReads, PTL DEF TablesSpec

-----------------------------------------------------------------------------
(* Sync keys: of two timestamps given with a key the later one is kept.    *)

KeysAreGiven == syncKeys = given /\ syncKeys \in [SyncKeyIds -> Nat]

LEMMA MaxIsMax ==
    ASSUME NEW S, NEW m \in S, S \subseteq Nat, \A x \in S : m >= x
    PROVE  Max(S) = m
<1>1. \E y \in S : \A x \in S : y >= x
  OBVIOUS
<1>2. Max(S) \in S /\ \A x \in S : Max(S) >= x
  BY <1>1, Zenon DEF Max
<1>3. Max(S) \in Nat /\ m \in Nat
  BY <1>2, Zenon
<1>4. Max(S) >= m /\ m >= Max(S)
  BY <1>2, Zenon
<1> QED
  BY <1>3, <1>4

LEMMA KeysAreGivenStep == KeysAreGiven /\ [TablesNext]_tablesVars => KeysAreGiven'
<1> SUFFICES ASSUME KeysAreGiven, [TablesNext]_tablesVars PROVE KeysAreGiven'
  OBVIOUS
<1> USE DEF KeysAreGiven
<1>1. CASE KeyStep
  <2>1. PICK k \in SyncKeyIds, ts \in 1..MaxNow : PutAppStateSyncKey(k, ts)
    BY <1>1 DEF KeyStep, KeyNext
  <2>2. ts \in Nat /\ syncKeys[k] \in Nat
    BY MaxNowAssumption
  <2>3. NewerKeyWins(syncKeys[k], ts) = Max({syncKeys[k], ts})
    BY <2>2, MaxIsMax DEF NewerKeyWins
  <2>4. NewerKeyWins(syncKeys[k], ts) \in Nat
    BY <2>2 DEF NewerKeyWins
  <2> QED
    BY <2>1, <2>3, <2>4 DEF PutAppStateSyncKey
<1>2. CASE SyncStep
  BY <1>2 DEF SyncStep, SyncNext, ServerPatch, StartSync, SyncFails, DeleteAppStateVersion,
              PutAppStateVersion, DeleteAppStateMutationMACs, PutAppStateMutationMACs
<1>3. CASE DeviceStep
  BY <1>3 DEF DeviceStep, AppCascade, AppRestart, appVars
<1>4. CASE UNCHANGED appVars
  BY <1>4 DEF appVars
<1> QED
  BY <1>1, <1>2, <1>3, <1>4
  DEF TablesNext, EventStep, SignalStep, MapStep, TokenStep, SecretStep, SentStep,
      SettingStep, ClockStep, tablesVars, OthersThanEvents, OthersThanSignal, OthersThanPeers

(* The latest app state sync key is the newest that was ever given, in     *)
(* whatever order the keys arrive (one half of NewestIsReturned).          *)
THEOREM LatestKey == TablesSpec => []LatestKeyIsNewest
<1>1. TablesInit => KeysAreGiven
  BY DEF TablesInit, AppInit, KeysAreGiven
<1>2. ASSUME KeysAreGiven PROVE LatestKeyIsNewest
  <2>1. SUFFICES ASSUME NEW k \in LatestKeys
                 PROVE  syncKeys[k] = Max({given[j] : j \in SyncKeyIds})
    BY DEF LatestKeyIsNewest
  <2> DEFINE S == {given[j] : j \in SyncKeyIds}
  <2>2. k \in SyncKeyIds /\ \A j \in SyncKeyIds : syncKeys[j] <= syncKeys[k]
    BY DEF LatestKeys
  <2>3. syncKeys[k] \in S /\ S \subseteq Nat /\ \A x \in S : syncKeys[k] >= x
    BY <1>2, <2>2 DEF KeysAreGiven
  <2> HIDE DEF S
  <2>4. Max(S) = syncKeys[k]
    BY <2>3, MaxIsMax
  <2> QED
    BY <2>4 DEF S
<1> QED
  BY <1>1, <1>2, KeysAreGivenStep, PTL DEF TablesSpec

-----------------------------------------------------------------------------
(* Privacy tokens: a fold of PutPrivacyTokens keeps the newest timestamp   *)
(* of every user.  What takes the place of an induction on the batch is a  *)
(* smallest counterexample among the subsets of its indexes.               *)

\* Of a non-empty set of subsets of a finite set one is minimal: what takes the
\* place of induction over finite sets.
LEMMA SmallestSubset ==
    ASSUME NEW S, IsFiniteSet(S), NEW C \in SUBSET SUBSET S, C # {}
    PROVE  \E A \in C : \A B \in C : B \subseteq A => B = A
<1>1. IsWellFoundedOn(StrictSubsetOrdering(S), SUBSET S)
  BY FS_StrictSubsetOrderingWellFounded, FS_FiniteSubsetsOfFinite
<1>2. PICK A \in C : \A B \in C : ~(<<B, A>> \in StrictSubsetOrdering(S))
  BY <1>1, WFMin
<1>3. ASSUME NEW B \in C, B \subseteq A, B # A
      PROVE  FALSE
  BY <1>2, <1>3 DEF StrictSubsetOrdering
<1> QED
  BY <1>2, <1>3

\* Hence what holds of no smallest exception holds of the set itself.
LEMMA NoSmallestException ==
    ASSUME NEW S, IsFiniteSet(S), NEW C \in SUBSET SUBSET S,
           \A A \in C : \E B \in C : B \subseteq A /\ B # A
    PROVE  C = {}
BY SmallestSubset

LEMMA MaxOf ==
    ASSUME NEW S, S \subseteq Nat, IsFiniteSet(S), S # {}
    PROVE  Max(S) \in S /\ \A x \in S : Max(S) >= x
<1> DEFINE HasMax(A) == \E y \in A : \A x \in A : y >= x
           C == {A \in SUBSET S : A # {} /\ ~HasMax(A)}
<1>1. C = {}
  <2>1. ASSUME NEW A \in C
        PROVE  \E B \in C : B \subseteq A /\ B # A
    <3>2. PICK a : a \in A
      BY <2>1
    <3>4. CASE A \ {a} = {}
      <4>1. A = {a} /\ a \in Nat
        BY <2>1, <3>2, <3>4
      <4>2. HasMax(A)
        BY <4>1
      <4> QED
        BY <2>1, <4>2
    <3>5. CASE HasMax(A \ {a})
      <4>1. PICK y \in A \ {a} : \A x \in A \ {a} : y >= x
        BY <3>5
      <4>2. y \in Nat /\ a \in Nat /\ A \subseteq Nat
        BY <2>1, <3>2, <4>1
      <4>3. HasMax(A)
        BY <3>2, <4>1, <4>2
      <4> QED
        BY <2>1, <4>3
    <3>6. CASE A \ {a} # {} /\ ~HasMax(A \ {a})
      <4>1. A \ {a} \in SUBSET S
        BY <2>1
      <4>2. A \ {a} \in C
        BY <3>6, <4>1
      <4>3. A \ {a} \subseteq A /\ A \ {a} # A
        BY <3>2
      <4> HIDE DEF C
      <4> QED
        BY <4>2, <4>3
    <3> QED
      BY <3>4, <3>5, <3>6
  <2>2. C \in SUBSET SUBSET S
    OBVIOUS
  <2> HIDE DEF C
  <2> QED
    BY <2>1, <2>2, NoSmallestException
<1>2. HasMax(S)
  BY <1>1
<1>3. PICK y \in S : \A x \in S : y >= x
  BY <1>2
<1> QED
  BY <1>3, MaxIsMax

\* The timestamps that the tokens s of a batch leave, after T.
Times(T, b, s, u) == {T[u]} \cup {b[i].ts : i \in {i \in s : b[i].user = u}}

NewestAfter(T, b, s) == [u \in Jids |-> Max(Times(T, b, s, u))]

LEMMA MaxWithOneMore ==
    ASSUME NEW S, S \subseteq Nat, IsFiniteSet(S), S # {}, NEW x \in Nat
    PROVE  Max(S \cup {x}) = IF x >= Max(S) THEN x ELSE Max(S)
<1>1. Max(S) \in S /\ Max(S) \in Nat /\ \A y \in S : Max(S) >= y
  BY MaxOf
<1>2. CASE x >= Max(S)
  <2>1. \A y \in S \cup {x} : x >= y
    BY <1>1, <1>2
  <2> QED
    BY <1>2, <2>1, MaxIsMax
<1>3. CASE ~(x >= Max(S))
  <2>1. \A y \in S \cup {x} : Max(S) >= y
    BY <1>1, <1>3
  <2>2. Max(S) \in S \cup {x} /\ S \cup {x} \subseteq Nat
    BY <1>1
  <2> QED
    BY <1>3, <2>1, <2>2, MaxIsMax
<1> QED
  BY <1>2, <1>3

LEMMA TimesOf ==
    ASSUME NEW T \in [Jids -> 0..MaxNow], NEW b \in Seq(Tokens), NEW s \in SUBSET DOMAIN b,
           NEW u \in Jids
    PROVE  /\ Times(T, b, s, u) \subseteq 0..MaxNow
           /\ Times(T, b, s, u) \subseteq Nat
           /\ IsFiniteSet(Times(T, b, s, u))
           /\ Times(T, b, s, u) # {}
<1>1. \A i \in s : b[i].ts \in 0..MaxNow
  <2>1. \A i \in DOMAIN b : b[i] \in Tokens
    OBVIOUS
  <2> QED
    BY <2>1 DEF Tokens
<1>2. Times(T, b, s, u) \subseteq 0..MaxNow
  BY <1>1 DEF Times
<1>3. 0..MaxNow \subseteq Nat /\ IsFiniteSet(0..MaxNow)
  BY FS_Interval, MaxNowAssumption
<1>4. IsFiniteSet(Times(T, b, s, u))
  BY <1>2, <1>3, FS_Subset
<1>5. T[u] \in Times(T, b, s, u)
  BY DEF Times
<1> QED
  BY <1>2, <1>3, <1>4, <1>5

\* One token more.
LEMMA NewestWithOneMore ==
    ASSUME NEW T \in [Jids -> 0..MaxNow], NEW b \in Seq(Tokens), NEW s \in SUBSET DOMAIN b,
           NEW m \in DOMAIN b, m \notin s
    PROVE  NewestAfter(T, b, s \cup {m}) = NewerToken(NewestAfter(T, b, s), b[m])
<1>1. b[m].user \in Jids /\ b[m].ts \in Nat
  <2>1. b[m] \in Tokens
    OBVIOUS
  <2> QED
    BY <2>1, MaxNowAssumption DEF Tokens
<1>2. ASSUME NEW u \in Jids
      PROVE  Max(Times(T, b, s \cup {m}, u)) =
                IF u = b[m].user /\ b[m].ts >= Max(Times(T, b, s, u))
                THEN b[m].ts ELSE Max(Times(T, b, s, u))
  <2>1. CASE u # b[m].user
    <3>1. Times(T, b, s \cup {m}, u) = Times(T, b, s, u)
      BY <2>1 DEF Times
    <3> QED
      BY <2>1, <3>1
  <2>2. CASE u = b[m].user
    <3>1. Times(T, b, s \cup {m}, u) = Times(T, b, s, u) \cup {b[m].ts}
      BY <2>2 DEF Times
    <3>2. PICK S : S = Times(T, b, s, u)
      OBVIOUS
    <3>3. S \subseteq Nat /\ IsFiniteSet(S) /\ S # {}
      BY <3>2, TimesOf
    <3>4. Max(S \cup {b[m].ts}) = IF b[m].ts >= Max(S) THEN b[m].ts ELSE Max(S)
      BY <1>1, <3>3, MaxWithOneMore
    <3> QED
      BY <2>2, <3>1, <3>2, <3>4
  <2> QED
    BY <2>1, <2>2
<1>3. NewerToken(NewestAfter(T, b, s), b[m]) =
        [u \in Jids |-> IF u = b[m].user /\ b[m].ts >= Max(Times(T, b, s, u))
                        THEN b[m].ts ELSE Max(Times(T, b, s, u))]
  BY <1>1 DEF NewerToken, NewestAfter
<1> QED
  BY <1>2, <1>3 DEF NewestAfter

\* The function by which FoldLeft is defined.
IsFold(it, T, b) ==
    it = [s \in SUBSET DOMAIN b |->
            IF s = {} THEN T ELSE NewerToken(it[s \ {Max(s)}], b[Max(s)])]

LEMMA FoldIs ==
    ASSUME NEW T, NEW b
    PROVE  FoldLeft(NewerToken, T, b) = (CHOOSE it : IsFold(it, T, b))[DOMAIN b]
BY DEF FoldLeft, MapThenFoldSet, IsFold, NewerToken

LEMMA IndexesOf ==
    ASSUME NEW b \in Seq(Tokens)
    PROVE  DOMAIN b \subseteq Nat /\ IsFiniteSet(DOMAIN b)
<1>1. DOMAIN b = 1 .. Len(b) /\ Len(b) \in Nat
  OBVIOUS
<1> QED
  BY <1>1, FS_Interval

\* There is such a function, and only one, since every set of indexes has a
\* largest one: it gives the newest timestamp of every user.
LEMMA FoldIsNewest ==
    ASSUME NEW T \in [Jids -> 0..MaxNow], NEW b \in Seq(Tokens)
    PROVE  FoldLeft(NewerToken, T, b) = NewestAfter(T, b, DOMAIN b)
<1> DEFINE D == DOMAIN b
           N == [s \in SUBSET D |-> NewestAfter(T, b, s)]
<1>0. D \subseteq Nat /\ IsFiniteSet(D)
  BY IndexesOf
<1>1. ASSUME NEW s \in SUBSET D, s # {}
      PROVE  Max(s) \in s
  <2>1. s \subseteq Nat /\ IsFiniteSet(s)
    BY <1>0, FS_Subset
  <2> QED
    BY <1>1, <2>1, MaxOf
<1>2. NewestAfter(T, b, {}) = T
  <2>1. ASSUME NEW u \in Jids
        PROVE  Max(Times(T, b, {}, u)) = T[u]
    <3>1. Times(T, b, {}, u) = {T[u]}
      BY DEF Times
    <3>2. PICK S : S = {T[u]}
      OBVIOUS
    <3>3. S \subseteq Nat /\ T[u] \in S /\ \A x \in S : T[u] >= x
      BY <3>2, MaxNowAssumption
    <3>4. Max(S) = T[u]
      BY <3>3, MaxIsMax
    <3> QED
      BY <3>1, <3>2, <3>4
  <2> QED
    BY <2>1 DEF NewestAfter
<1>3. IsFold(N, T, b)
  <2>1. ASSUME NEW s \in SUBSET D, s # {}
        PROVE  N[s] = NewerToken(N[s \ {Max(s)}], b[Max(s)])
    <3>1. PICK m \in s : m = Max(s)
      BY <1>1, <2>1
    <3>2. PICK r \in SUBSET DOMAIN b : r = s \ {m}
      OBVIOUS
    <3>3. m \in DOMAIN b /\ m \notin r /\ s = r \cup {m}
      BY <3>2
    <3>4. NewestAfter(T, b, r \cup {m}) = NewerToken(NewestAfter(T, b, r), b[m])
      BY <3>3, NewestWithOneMore
    <3> QED
      BY <3>1, <3>2, <3>3, <3>4
  <2>2. N[{}] = T
    BY <1>2
  <2>3. N = [s \in SUBSET D |-> N[s]]
    OBVIOUS
  <2>4. N = [s \in SUBSET D |-> IF s = {} THEN T ELSE NewerToken(N[s \ {Max(s)}], b[Max(s)])]
    <3> HIDE DEF N
    <3> QED
      BY <2>1, <2>2, <2>3
  <2> QED
    BY <2>4 DEF IsFold
<1>4. PICK it : it = (CHOOSE g : IsFold(g, T, b)) /\ IsFold(it, T, b)
  BY <1>3
<1>5. it = N
  <2> DEFINE C == {s \in SUBSET D : it[s] # N[s]}
  <2>1. \A s \in SUBSET D : /\ it[s] = IF s = {} THEN T
                                       ELSE NewerToken(it[s \ {Max(s)}], b[Max(s)])
                            /\ N[s] = IF s = {} THEN T
                                      ELSE NewerToken(N[s \ {Max(s)}], b[Max(s)])
    <3> HIDE DEF N
    <3> QED
      BY <1>3, <1>4, Zenon DEF IsFold
  <2>2. C = {}
    <3>1. ASSUME NEW s \in C
          PROVE  \E r \in C : r \subseteq s /\ r # s
      <4> HIDE DEF N
      <4>1. s # {} /\ Max(s) \in s
        BY <1>1, <2>1, <3>1
      <4>2. s \ {Max(s)} \in C
        BY <2>1, <3>1, <4>1
      <4> QED
        BY <4>1, <4>2
    <3>2. C \in SUBSET SUBSET D
      OBVIOUS
    <3> HIDE DEF C
    <3> QED
      BY <1>0, <3>1, <3>2, NoSmallestException
  <2>3. it = [s \in SUBSET D |-> it[s]] /\ N = [s \in SUBSET D |-> N[s]]
    BY <1>4 DEF IsFold
  <2> QED
    BY <2>2, <2>3
<1> QED
  BY <1>4, <1>5, FoldIs

\* The tokens that are stored are the newest that were put.
NewestAreStored ==
    /\ tokens = newest /\ tokens \in [Jids -> 0..MaxNow]
    /\ lidMap \subseteq PeerLids \X PeerPns

LEMMA NewestAreReturned == NewestAreStored => NewestTokenIsReturned
BY FormsAreTheUser DEF NewestAreStored, NewestTokenIsReturned, GetPrivacyToken

LEMMA NewestInRange ==
    ASSUME NEW T \in [Jids -> 0..MaxNow], NEW b \in Seq(Tokens)
    PROVE  NewestAfter(T, b, DOMAIN b) \in [Jids -> 0..MaxNow]
<1>1. ASSUME NEW u \in Jids
      PROVE  Max(Times(T, b, DOMAIN b, u)) \in 0..MaxNow
  <2>1. PICK S : S = Times(T, b, DOMAIN b, u)
    OBVIOUS
  <2>2. S \subseteq Nat /\ S \subseteq 0..MaxNow /\ IsFiniteSet(S) /\ S # {}
    BY <2>1, TimesOf
  <2>3. Max(S) \in S
    BY <2>2, MaxOf
  <2> QED
    BY <2>1, <2>2, <2>3
<1> QED
  BY <1>1 DEF NewestAfter

LEMMA NewestPut ==
    ASSUME NewestAreStored, NEW b \in TokenBatches, PutPrivacyTokens(b)
    PROVE  NewestAreStored'
<1>1. b \in Seq(Tokens)
  BY TokenAssumption
<1>2. newest' = NewestAfter(newest, b, DOMAIN b)
  BY DEF PutPrivacyTokens, NewestAfter, Times
<1>3. tokens' = NewestAfter(tokens, b, DOMAIN b) /\ tokens' \in [Jids -> 0..MaxNow]
  BY <1>1, FoldIsNewest, NewestInRange DEF PutPrivacyTokens, NewestAreStored
<1> QED
  BY <1>2, <1>3 DEF NewestAreStored, PutPrivacyTokens

LEMMA NewestStep == NewestAreStored /\ [TablesNext]_tablesVars => NewestAreStored'
<1> SUFFICES ASSUME NewestAreStored, [TablesNext]_tablesVars PROVE NewestAreStored'
  OBVIOUS
<1> USE DEF NewestAreStored
<1>1. CASE TokenStep
  <2>1. CASE \E b \in TokenBatches : PutPrivacyTokens(b)
    BY <2>1, NewestPut
  <2>2. ASSUME NEW c \in 1..MaxNow, DeleteExpiredPrivacyTokens(c)
        PROVE  NewestAreStored'
    BY <2>2, MaxNowAssumption DEF DeleteExpiredPrivacyTokens
  <2> QED
    BY <1>1, <2>1, <2>2 DEF TokenStep, TokenNext
<1>2. CASE MapStep
  BY <1>2 DEF MapStep, MapNext, LearnMapping, tokenVars
<1>3. CASE UNCHANGED <<lidMap, tokenVars>>
  BY <1>3 DEF tokenVars
<1>4. SecretStep \/ SentStep \/ SettingStep \/ DeviceStep => UNCHANGED <<lidMap, tokenVars>>
  BY DEF SecretStep, SecretNext, PutMessageSecret, PutMessageSecrets, SentStep, SentNext,
         AddOutgoingEvent, DeleteOldOutgoingEvents, SettingStep, SettingNext, PutMutedUntil,
         PutPinned, PutArchived, SetColumn, PutNCTSalt, DeleteNCTSalt, DeviceStep,
         PeerCascade, peerVars
<1> QED
  BY <1>1, <1>2, <1>3, <1>4
  DEF TablesNext, EventStep, SyncStep, KeyStep, SignalStep, ClockStep, tablesVars, peerVars,
      OthersThanEvents, OthersThanApp, OthersThanSignal

(* Whichever JID a token is asked for under, and however late and in       *)
(* whatever batches tokens arrive, the answer is the newest put under      *)
(* either JID and not expired; the latest sync key is the newest given.    *)
THEOREM NewestReturned == TablesSpec => []NewestIsReturned
<1>1. TablesInit => NewestAreStored
  BY MaxNowAssumption DEF TablesInit, PeerInit, NewestAreStored
<1>2. TablesSpec => []NewestTokenIsReturned
  BY <1>1, NewestStep, NewestAreReturned, PTL DEF TablesSpec
<1> QED
  BY <1>2, LatestKey, PTL DEF NewestIsReturned

-----------------------------------------------------------------------------
(* The types of the tables.  What the invariants above do not say yet.     *)

AppFits ==
    /\ Len(truth) <= MaxVersion
    /\ \A n \in 1..Len(truth), i \in Indexes : truth[n][i] \in 0..MaxVersion
    /\ \A r \in macs : r.value \in 1..MaxVersion
    /\ syncKeys \in [SyncKeyIds -> 0..MaxNow]

OutgoingRows == [chat : Jids, text : Texts, ts : 0..MaxNow]
Settings     == [muted : {0 - 1, 0, 1}, pinned : BOOLEAN, archived : BOOLEAN]

PeerFits ==
    /\ row \in BOOLEAN /\ stores \in {"sql", "noop"}
    /\ outgoing \subseteq OutgoingRows /\ setting \in Settings
    /\ salt \in Texts \cup {NoText}

TypesInv ==
    /\ EventFits /\ AppInv /\ AppFits /\ KeysAreGiven
    /\ SignalTypeOK /\ NewestAreStored /\ ReadInv /\ PeerFits

LEMMA TruthFits ==
    ASSUME AppTypes, AppFits, NEW n \in 0..Len(truth), NEW i \in Indexes
    PROVE  TruthAt(n)[i] \in 0..MaxVersion
<1>1. CASE n = 0
  BY <1>1, VersionAssumption DEF TruthAt, Blank
<1>2. CASE n # 0
  <2>1. n \in 1..Len(truth)
    BY <1>2 DEF AppTypes
  <2> QED
    BY <1>2, <2>1 DEF TruthAt, AppFits
<1> QED
  BY <1>1, <1>2

LEMMA AppFitsIsTyped ==
    ASSUME AppInv, AppFits, KeysAreGiven
    PROVE  AppTypeOK
<1> USE DEF AppInv, AppTypes, AppFits
<1>1. \A n \in 1..Len(truth) : truth[n] \in [Indexes -> 0..MaxVersion]
  <2>1. \A n \in 1..Len(truth) : truth[n] \in [Indexes -> Nat]
    BY DEF ValueMACs
  <2> QED
    BY <2>1
<1>2. Len(truth) \in Nat /\ 1..Len(truth) \subseteq 1..MaxVersion /\ version \in Nat
      /\ 1..version \subseteq 1..MaxVersion
  BY VersionAssumption
<1>3. truth \in Seq([Indexes -> 0..MaxVersion])
  BY <1>1
<1>4. macs \subseteq [version : 1..MaxVersion, index : Indexes, value : 1..MaxVersion]
  BY <1>2
<1>5. sync = NoSync \/ sync \in [step : {"reset", "version", "delete", "macs"},
                                 to : 1..MaxVersion, touched : SUBSET Indexes]
  BY <1>2
<1> QED
  BY <1>3, <1>4, <1>5 DEF AppTypeOK, KeysAreGiven

LEMMA AppFitsSync ==
    ASSUME AppInv, AppFits, SyncNext
    PROVE  AppFits'
<1> USE DEF AppFits
<1>1. AppTypes /\ Len(truth) \in Nat
  BY DEF AppInv, AppTypes
<1>2. CASE ServerPatch
  <2>1. PICK S \in SUBSET Indexes, R \in SUBSET Indexes :
           truth' = Append(truth, [i \in Indexes |->
               IF i \in S THEN Len(truth) + 1
               ELSE IF i \in R THEN 0 ELSE TruthAt(Len(truth))[i]])
    BY <1>2 DEF ServerPatch
  <2>2. PICK v : v = [i \in Indexes |->
               IF i \in S THEN Len(truth) + 1
               ELSE IF i \in R THEN 0 ELSE TruthAt(Len(truth))[i]]
    OBVIOUS
  <2>3. Len(truth) < MaxVersion /\ UNCHANGED <<macs, syncKeys>>
    BY <1>2 DEF ServerPatch
  <2>4. \A i \in Indexes : v[i] \in 0..MaxVersion
    <3>1. Len(truth) + 1 \in 0..MaxVersion /\ 0 \in 0..MaxVersion /\ Len(truth) \in 0..Len(truth)
      BY <1>1, <2>3, VersionAssumption
    <3>2. \A i \in Indexes : TruthAt(Len(truth))[i] \in 0..MaxVersion
      BY <1>1, <3>1, TruthFits
    <3> QED
      BY <2>2, <3>1, <3>2
  <2>5. Len(truth') = Len(truth) + 1 /\ truth'[Len(truth) + 1] = v
        /\ \A n \in 1..Len(truth) : truth'[n] = truth[n]
    BY <1>1, <2>1, <2>2 DEF AppTypes
  <2>6. \A n \in 1..Len(truth') : n \in 1..Len(truth) \/ n = Len(truth) + 1
    BY <1>1, <2>5
  <2>7. Len(truth') <= MaxVersion
    BY <1>1, <2>3, <2>5, VersionAssumption
  <2> QED
    BY <2>3, <2>4, <2>5, <2>6, <2>7
<1>3. CASE PutAppStateMutationMACs
  <2>1. sync.step = "macs"
    BY <1>3 DEF PutAppStateMutationMACs
  <2>2. sync.to \in 0..Len(truth) /\ sync.touched \subseteq Indexes
    BY <1>1, <2>1 DEF AppTypes, NoSync
  <2>3. \A i \in sync.touched : TruthAt(sync.to)[i] # 0 => TruthAt(sync.to)[i] \in 1..MaxVersion
    BY <1>1, <2>2, TruthFits, VersionAssumption
  <2>4. \A r \in macs' : r \in macs \/ r.value \in 1..MaxVersion
    BY <1>3, <2>3 DEF PutAppStateMutationMACs
  <2> QED
    BY <1>3, <2>4 DEF PutAppStateMutationMACs
<1>4. CASE DeleteAppStateMutationMACs
  BY <1>4 DEF DeleteAppStateMutationMACs
<1>5. CASE DeleteAppStateVersion
  BY <1>5 DEF DeleteAppStateVersion
<1>6. CASE StartSync \/ SyncFails \/ PutAppStateVersion
  BY <1>6 DEF StartSync, SyncFails, PutAppStateVersion
<1> QED
  BY <1>2, <1>3, <1>4, <1>5, <1>6 DEF SyncNext

LEMMA AppFitsStep ==
    ASSUME AppInv, AppFits, [TablesNext]_tablesVars
    PROVE  AppFits'
<1>1. CASE SyncStep
  BY <1>1, AppFitsSync DEF SyncStep
<1>2. CASE KeyStep
  <2>1. PICK k \in SyncKeyIds, ts \in 1..MaxNow : PutAppStateSyncKey(k, ts)
    BY <1>2 DEF KeyStep, KeyNext
  <2>2. syncKeys' \in [SyncKeyIds -> 0..MaxNow]
    BY <2>1, MaxNowAssumption DEF PutAppStateSyncKey, NewerKeyWins, AppFits
  <2> QED
    BY <2>1, <2>2 DEF PutAppStateSyncKey, AppFits
<1>3. CASE DeviceStep
  <2>1. CASE AppCascade
    BY <2>1, MaxNowAssumption DEF AppCascade, AppFits
  <2>2. CASE UNCHANGED <<truth, macs, syncKeys>>
    BY <2>2 DEF AppFits
  <2> QED
    BY <1>3, <2>1, <2>2 DEF DeviceStep, appVars
<1>4. CASE UNCHANGED appVars
  BY <1>4 DEF appVars, AppFits
<1> QED
  BY <1>1, <1>2, <1>3, <1>4
  DEF TablesNext, EventStep, SignalStep, MapStep, TokenStep, SecretStep, SentStep,
      SettingStep, ClockStep, tablesVars, OthersThanEvents, OthersThanSignal, OthersThanPeers

LEMMA PeerFitsNext ==
    ASSUME PeerFits, now \in 0..MaxNow,
           MapNext \/ TokenNext \/ SecretNext \/ SentNext \/ SettingNext,
           UNCHANGED <<row, stores>>
    PROVE  PeerFits'
<1> USE DEF PeerFits
<1>1. CASE MapNext \/ TokenNext \/ SecretNext
  BY <1>1 DEF MapNext, LearnMapping, TokenNext, PutPrivacyTokens, DeleteExpiredPrivacyTokens,
              SecretNext, PutMessageSecret, PutMessageSecrets, outgoingVars, settingVars
<1>2. ASSUME NEW u \in Jids, NEW x \in Texts, AddOutgoingEvent(u, x)
      PROVE  PeerFits'
  <2>1. [chat |-> u, text |-> x, ts |-> now] \in OutgoingRows
    BY DEF OutgoingRows
  <2> QED
    BY <1>2, <2>1 DEF AddOutgoingEvent, PutEvent, settingVars
<1>3. CASE DeleteOldOutgoingEvents
  BY <1>3 DEF DeleteOldOutgoingEvents, settingVars
<1>4. ASSUME NEW c, NEW stored, NEW v, SetColumn(c, stored, v),
             \/ c = "muted" /\ stored \in {0 - 1, 0, 1}
             \/ c \in {"pinned", "archived"} /\ stored \in BOOLEAN
      PROVE  PeerFits'
  <2>1. setting' \in Settings
    BY <1>4 DEF SetColumn, Settings
  <2> QED
    BY <1>4, <2>1 DEF SetColumn, outgoingVars
<1>5. CASE SettingNext
  <2>1. \A t \in MuteTimes : StoredMute(t) \in {0 - 1, 0, 1}
    BY DEF StoredMute
  <2> QED
    BY <1>4, <1>5, <2>1 DEF SettingNext, PutMutedUntil, PutPinned, PutArchived,
                            PutNCTSalt, DeleteNCTSalt, outgoingVars
<1> QED
  BY <1>1, <1>2, <1>3, <1>5 DEF SentNext

LEMMA PeerFitsStep ==
    ASSUME PeerFits, now \in 0..MaxNow, [TablesNext]_tablesVars
    PROVE  PeerFits'
<1>1. CASE MapStep \/ TokenStep \/ SecretStep \/ SentStep \/ SettingStep
  BY <1>1, PeerFitsNext DEF MapStep, TokenStep, SecretStep, SentStep, SettingStep,
                            OthersThanPeers, deviceVars
<1>2. CASE DeviceStep
  <2>1. CASE DeleteRow /\ PeerCascade
    BY <2>1 DEF DeleteRow, PeerCascade, PeerFits, Defaults, Settings
  <2>2. CASE (SetNoop \/ PairRow) /\ UNCHANGED peerVars
    BY <2>2 DEF SetNoop, PairRow, PeerFits, peerVars, outgoingVars, settingVars
  <2> QED
    BY <1>2, <2>1, <2>2 DEF DeviceStep
<1>3. CASE ClockStep
  BY <1>3 DEF ClockStep, Tick, PeerFits, peerVars, outgoingVars, settingVars
<1>4. CASE UNCHANGED <<deviceVars, peerVars>>
  BY <1>4 DEF PeerFits, deviceVars, peerVars, outgoingVars, settingVars
<1> QED
  BY <1>1, <1>2, <1>3, <1>4
  DEF TablesNext, EventStep, SyncStep, KeyStep, SignalStep, tablesVars,
      OthersThanEvents, OthersThanApp, OthersThanSignal

LEMMA TypesInit == TablesInit => TypesInv
<1> SUFFICES ASSUME TablesInit PROVE TypesInv
  OBVIOUS
<1>1. EventFits /\ AppInv /\ ReadInv
  BY EventFitsInit, AppInvInit, ReadInit
<1>2. AppFits /\ KeysAreGiven
  BY VersionAssumption, MaxNowAssumption DEF TablesInit, AppInit, AppFits, KeysAreGiven
<1>3. SignalTypeOK
  BY DEF TablesInit, SignalInit, SignalTypeOK
<1>4. NewestAreStored
  BY MaxNowAssumption DEF TablesInit, PeerInit, NewestAreStored
<1>5. PeerFits
  BY DEF TablesInit, DeviceInit, PeerInit, PeerFits, Defaults, Settings
<1> QED
  BY <1>1, <1>2, <1>3, <1>4, <1>5 DEF TypesInv

LEMMA TypesStep == TypesInv /\ [TablesNext]_tablesVars => TypesInv'
<1> SUFFICES ASSUME TypesInv, [TablesNext]_tablesVars PROVE TypesInv'
  OBVIOUS
<1> USE DEF TypesInv
<1>1. now \in 0..MaxNow
  BY DEF EventFits
<1> QED
  BY <1>1, EventFitsStep, AppStep, AppFitsStep, KeysAreGivenStep, KeysTablesStep, NewestStep,
     ReadStep, PeerFitsStep

(* Every row has the type of its table, timestamps and versions stay       *)
(* within their bounds, and no table has two rows with one primary key:    *)
(* of a message, a version and index, or an address.                       *)
THEOREM TablesTyped == TablesSpec => []TablesTypeOK
<1>1. ASSUME TypesInv PROVE TablesTypeOK
  <2>1. EventTypeOK /\ AppTypeOK /\ now \in 0..MaxNow
    BY <1>1, EventFitsIsTyped, AppFitsIsTyped DEF TypesInv, EventFits
  <2>2. PeerTypeOK
    BY <1>1 DEF TypesInv, NewestAreStored, ReadInv, PeerFits, PeerTypeOK, OutgoingRows, Settings
  <2> QED
    BY <1>1, <2>1, <2>2 DEF TypesInv, PeerFits, TablesTypeOK
<1> QED
  BY <1>1, TypesInit, TypesStep, PTL DEF TablesSpec

=============================================================================
