------------------------------- MODULE Tables -------------------------------
(***************************************************************************)
(* The tables of SQLStore without a cache in front of them, in one         *)
(* database.  They share the row of the device, which takes the rows that  *)
(* refer to it along when it is deleted, and the time; chats and users     *)
(* share lid_map as well.                                                  *)
(***************************************************************************)
EXTENDS EventBuffer, AppState, SignalKeys, PeerData

tablesVars == <<deviceVars, eventVars, appVars, signalVars, peerVars>>

TablesInit == DeviceInit /\ EventInit /\ AppInit /\ SignalInit /\ PeerInit

(* Steps of one part, which leave the others alone.                        *)
OthersThanEvents  == UNCHANGED <<deviceVars, appVars, signalVars, peerVars>>
OthersThanApp     == UNCHANGED <<deviceVars, eventVars, signalVars, peerVars>>
OthersThanSignal  == UNCHANGED <<deviceVars, eventVars, appVars, peerVars>>
OthersThanPeers   == UNCHANGED <<deviceVars, eventVars, appVars, signalVars>>

EventStep   == EventNext /\ OthersThanEvents
SyncStep    == SyncNext /\ OthersThanApp
KeyStep     == KeyNext /\ OthersThanApp
SignalStep  == SignalNext /\ OthersThanSignal
MapStep     == MapNext /\ OthersThanPeers
TokenStep   == TokenNext /\ OthersThanPeers
SecretStep  == SecretNext /\ OthersThanPeers
SentStep    == SentNext /\ OthersThanPeers
SettingStep == SettingNext /\ OthersThanPeers

(* The row of the device is deleted with all that refers to it; the Device *)
(* in memory gets its Noop stores; a new process pairs.                    *)
DeviceStep ==
    \/ DeleteRow /\ EventsCascade /\ AppCascade /\ SignalCascade /\ PeerCascade
    \/ SetNoop /\ UNCHANGED <<eventVars, appVars, signalVars, peerVars>>
    \/ /\ PairRow
       /\ EventsRestart /\ UNCHANGED <<buffer, consumed, server, handled, faults>>
       /\ AppRestart    /\ UNCHANGED <<truth, version, macs, torn, syncKeys, given>>
       /\ SignalRestart /\ UNCHANGED <<identityKeys, senderKeys>>
       /\ UNCHANGED peerVars

ClockStep == Tick /\ UNCHANGED <<eventVars, appVars, signalVars, peerVars>>

TablesNext ==
    \/ EventStep \/ SyncStep \/ KeyStep \/ SignalStep
    \/ MapStep \/ TokenStep \/ SecretStep \/ SentStep \/ SettingStep
    \/ DeviceStep \/ ClockStep

TablesSpec == TablesInit /\ [][TablesNext]_tablesVars

(* Goroutines that handle messages go on, and the server keeps delivering. *)
EventFairness ==
    /\ \A t \in EventThreads : WF_tablesVars(EventWork(t) /\ OthersThanEvents)
    /\ WF_tablesVars(Lookups /\ OthersThanEvents)

(* Every variable has a value of its type; no table has two rows with one  *)
(* primary key.                                                            *)
TablesTypeOK ==
    /\ row \in BOOLEAN /\ stores \in {"sql", "noop"} /\ now \in 0..MaxNow
    /\ EventTypeOK /\ AppTypeOK /\ SignalTypeOK /\ PeerTypeOK

(* When the device is deleted nothing of it is left that a device paired   *)
(* later with the same JID would take for its own, and calls that are      *)
(* still under way add nothing (foreign keys, Noop stores).  Excepted are  *)
(* privacy tokens, whose table has no foreign key.                         *)
NothingOutlivesItsDevice ==
    ~row =>
        /\ buffer = {} /\ consumed = {}
        /\ version = 0 /\ macs = {} /\ \A k \in SyncKeyIds : syncKeys[k] = 0
        /\ identityKeys = {} /\ senderKeys = {}
        /\ \A u \in Jids : secrets[u] = NoText
        /\ outgoing = {} /\ setting = Defaults /\ salt = NoText

(* Late tokens and keys do not replace newer ones, and the newest is what  *)
(* a lookup returns (the WHERE of both upserts, ORDER BY timestamp).       *)
NewestIsReturned == NewestTokenIsReturned /\ LatestKeyIsNewest
=============================================================================
