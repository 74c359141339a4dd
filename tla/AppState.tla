------------------------------ MODULE AppState ------------------------------
(***************************************************************************)
(* The tables of app state for one name: the version with its hash, and    *)
(* the MACs of the mutations the hash covers.  A patch is stored by three  *)
(* calls without a common transaction: PutAppStateVersion, then            *)
(* DeleteAppStateMutationMACs, then PutAppStateMutationMACs.  Who calls    *)
(* them is whatsmeow (external), one synchronisation at a time: it checks  *)
(* a patch against the MACs it replaces, and starts from a snapshot, after *)
(* DeleteAppStateVersion, if they do not fit.  A sync that fails stops.    *)
(* The MAC of a value is the version that set it, 0 is none; the hash of a *)
(* version is what the server had set by then.                             *)
(***************************************************************************)
EXTENDS DeviceRow, Sequences, FiniteSetsExt

CONSTANTS
    Indexes,        \* index MACs
    MaxVersion,     \* bound on the versions
    SyncKeyIds      \* ids of app state sync keys

ASSUME VersionAssumption == MaxVersion \in Nat

VARIABLES
    truth,      \* the server: [Indexes -> value MAC] of each version
    version,    \* app_state_version, 0 without a row
    macs,       \* app_state_mutation_macs: records [version, index, value]
    sync,       \* the synchronisation under way
    torn,       \* history: indexes whose MACs were to follow a new version
    syncKeys,   \* app_state_sync_keys: timestamp of each key, 0 without a row
    given       \* history: the newest timestamp given with each key

appVars == <<truth, version, macs, sync, torn, syncKeys, given>>

NoSync == [step |-> "idle"]
Blank  == [i \in Indexes |-> 0]

AppInit ==
    /\ truth = <<>> /\ version = 0 /\ macs = {} /\ sync = NoSync /\ torn = {}
    /\ syncKeys = [k \in SyncKeyIds |-> 0] /\ given = syncKeys

(* GetAppStateVersion: without a row version 0 and an empty hash.          *)
TruthAt(n) == IF n = 0 THEN Blank ELSE truth[n]

\* Mutant: the rows are not ordered by version.
OldestOf(R) ==
    IF R = {} THEN 0 ELSE (CHOOSE r \in R : \A s \in R : r.version <= s.version).value

NewestOf(R) ==
    IF R = {} THEN 0 ELSE (CHOOSE r \in R : \A s \in R : r.version >= s.version).value

(* GetAppStateMutationMAC: of several rows of an index the newest.         *)
StoredMAC(i) == NewestOf({r \in macs : r.index = i})

Touched(n) == {i \in Indexes : TruthAt(n)[i] # TruthAt(n - 1)[i]}

-----------------------------------------------------------------------------
(* Another device changes some indexes and removes others.                 *)
ServerPatch ==
    /\ Len(truth) < MaxVersion
    /\ \E S \in SUBSET Indexes, R \in SUBSET Indexes :
          LET n    == Len(truth) + 1
              last == TruthAt(Len(truth))
          IN  /\ S \cap R = {} /\ S \cup R # {}
              /\ \A i \in R : last[i] # 0
              /\ truth' = Append(truth, [i \in Indexes |->
                     IF i \in S THEN n ELSE IF i \in R THEN 0 ELSE last[i]])
    /\ UNCHANGED <<version, macs, sync, torn, syncKeys, given>>

Storing(step, n, T) == [step |-> step, to |-> n, touched |-> T]

(* The next patch fits the MACs of what it replaces, or it does not.       *)
StartSync ==
    /\ sync = NoSync /\ Callable /\ version < Len(truth)
    /\ LET n == version + 1
           T == Touched(n)
       IN  sync' = IF \A i \in T : StoredMAC(i) = TruthAt(version)[i]
                   THEN Storing("version", n, T)
                   ELSE Storing("reset", Len(truth), Indexes)
    /\ UNCHANGED <<truth, version, macs, torn, syncKeys, given>>

\* Mutant: the foreign key of the MACs does not cascade.
DeleteVersionOnly ==
    /\ sync.step = "reset" /\ Callable
    /\ version' = 0 /\ torn' = {}
    /\ sync' = [sync EXCEPT !.step = "version"]
    /\ UNCHANGED <<truth, macs, syncKeys, given>>

(* The MACs go with the row of the version they refer to.                  *)
DeleteAppStateVersion ==
    /\ sync.step = "reset" /\ Callable
    /\ version' = 0 /\ macs' = {} /\ torn' = {}
    /\ sync' = [sync EXCEPT !.step = "version"]
    /\ UNCHANGED <<truth, syncKeys, given>>

PutAppStateVersion ==
    /\ sync.step = "version" /\ Insertable
    /\ version' = sync.to
    /\ torn' = torn \cup sync.touched
    /\ sync' = [sync EXCEPT !.step = "delete"]
    /\ UNCHANGED <<truth, macs, syncKeys, given>>

(* Without an index that was removed there is nothing to do.               *)
DeleteAppStateMutationMACs ==
    /\ sync.step = "delete" /\ Callable
    /\ macs' = {r \in macs : ~(r.index \in sync.touched /\ TruthAt(sync.to)[r.index] = 0)}
    /\ sync' = [sync EXCEPT !.step = "macs"]
    /\ UNCHANGED <<truth, version, torn, syncKeys, given>>

(* One transaction for all chunks; rows refer to the version of their name *)
(* and are not replaced.                                                   *)
PutAppStateMutationMACs ==
    LET n   == sync.to
        new == {[version |-> n, index |-> i, value |-> TruthAt(n)[i]] :
                   i \in {i \in sync.touched : TruthAt(n)[i] # 0}}
    IN  /\ sync.step = "macs"
        /\ Callable
        /\ new # {} => Insertable /\ version # 0
        /\ \A r \in new, s \in macs : ~(r.version = s.version /\ r.index = s.index)
        /\ macs' = macs \cup new
        /\ torn' = torn \ sync.touched
        /\ sync' = NoSync
        /\ UNCHANGED <<truth, version, syncKeys, given>>

(* A call fails, or the process ends.                                      *)
AppRestart == sync' = NoSync
SyncFails  == sync # NoSync /\ AppRestart
              /\ UNCHANGED <<truth, version, macs, torn, syncKeys, given>>

\* Mutant: the upsert has no WHERE.
LastKeyWins(old, new) == new

NewerKeyWins(old, new) == IF new > old THEN new ELSE old

PutAppStateSyncKey(k, ts) ==
    /\ Insertable
    /\ syncKeys' = [syncKeys EXCEPT ![k] = NewerKeyWins(@, ts)]
    /\ given' = [given EXCEPT ![k] = Max({@, ts})]
    /\ UNCHANGED <<truth, version, macs, sync, torn>>

(* GetLatestAppStateSyncKeyID: any of the newest.                          *)
LatestKeys == {k \in SyncKeyIds : syncKeys[k] # 0
                                  /\ \A j \in SyncKeyIds : syncKeys[j] <= syncKeys[k]}

AppCascade ==
    /\ version' = 0 /\ macs' = {} /\ torn' = {}
    /\ syncKeys' = [k \in SyncKeyIds |-> 0] /\ given' = syncKeys'
    /\ UNCHANGED <<truth, sync>>

SyncNext == \/ ServerPatch \/ StartSync \/ SyncFails
            \/ DeleteAppStateVersion \/ PutAppStateVersion
            \/ DeleteAppStateMutationMACs \/ PutAppStateMutationMACs

KeyNext == \E k \in SyncKeyIds, ts \in 1..MaxNow : PutAppStateSyncKey(k, ts)

AppTypeOK ==
    /\ truth \in Seq([Indexes -> 0..MaxVersion]) /\ Len(truth) <= MaxVersion
    /\ version \in 0..Len(truth)
    /\ macs \subseteq [version : 1..MaxVersion, index : Indexes, value : 1..MaxVersion]
    /\ torn \subseteq Indexes
    /\ sync = NoSync \/ sync \in [step : {"reset", "version", "delete", "macs"},
                                  to : 1..MaxVersion, touched : SUBSET Indexes]
    /\ syncKeys \in [SyncKeyIds -> 0..MaxNow] /\ given \in [SyncKeyIds -> 0..MaxNow]

-----------------------------------------------------------------------------
(* The MAC read for an index is the one the hash of the stored version     *)
(* covers, or the next patch of the index would be rejected: after patches, *)
(* removals, failures between the calls, and snapshots at a version that   *)
(* had MACs before.  Excepted are the indexes of a patch that is half      *)
(* stored, until a patch or snapshot with them is stored completely.       *)
MacsMatchTheHash ==
    \A i \in Indexes \ torn : StoredMAC(i) = TruthAt(version)[i]

(* A key that comes late does not take the place of a newer one with its   *)
(* id, and the latest key is the newest that was ever given.               *)
LatestKeyIsNewest ==
    \A k \in LatestKeys : syncKeys[k] = Max({given[j] : j \in SyncKeyIds})
=============================================================================
