----------------------------- MODULE SignalKeys -----------------------------
(***************************************************************************)
(* The tables identity_keys and sender_keys, and the migration that moves  *)
(* the keys of a phone number to its LID.  An address is a signal user and *)
(* a device, "user:device"; the statements select by LIKE, in whose        *)
(* patterns the _ that the address of a LID contains stands for any        *)
(* character.  Lookalikes are the pairs <<u, v>> where u as a pattern      *)
(* matches the user v as well.  (The migration's sessions: Sessions.)      *)
(***************************************************************************)
EXTENDS DeviceRow

CONSTANTS
    SignalPns,      \* users that are phone numbers, without a _
    SignalLids,     \* users that are LIDs
    LidUserOf,      \* the LIDs of the phone numbers that are migrated
    Addresses,      \* records [user, dev]
    Lookalikes,
    IdentityKeys,
    SenderKeys      \* keys of one group

ASSUME SignalAssumption ==
    /\ SignalPns \cap SignalLids = {}
    /\ DOMAIN LidUserOf \subseteq SignalPns
    /\ \A u \in DOMAIN LidUserOf : LidUserOf[u] \in SignalLids
    /\ Lookalikes \subseteq SignalLids \X (SignalPns \cup SignalLids)
    /\ \A a \in Addresses : /\ a = [user |-> a.user, dev |-> a.dev]
                            /\ a.user \in SignalPns \cup SignalLids
    /\ \A a \in Addresses : a.user \in DOMAIN LidUserOf =>
                               [a EXCEPT !.user = LidUserOf[a.user]] \in Addresses

VARIABLES
    identityKeys,   \* records [at, key]
    senderKeys,     \* records [at, key]
    migratedPNs,    \* migratedPNSessionsCache
    migrating       \* PNs in the cache whose transaction has not begun

signalVars == <<identityKeys, senderKeys, migratedPNs, migrating>>

SignalInit == identityKeys = {} /\ senderKeys = {} /\ migratedPNs = {} /\ migrating = {}

(* The user u as a pattern matches the user v.                             *)
LikeUser(u, v) == u = v \/ <<u, v>> \in Lookalikes

\* Mutant: no ON CONFLICT, a second row for the address.
AddKey(R, a, k) == R \cup {[at |-> a, key |-> k]}

PutKey(R, a, k) == {r \in R : r.at # a} \cup {[at |-> a, key |-> k]}

-----------------------------------------------------------------------------
PutIdentity(a, k) ==
    /\ Insertable
    /\ identityKeys' = PutKey(identityKeys, a, k)
    /\ UNCHANGED <<senderKeys, migratedPNs, migrating>>

(* The pattern is the user, a colon and any device.                        *)
DeleteAllIdentities(u) ==
    /\ Callable
    /\ identityKeys' = {r \in identityKeys : ~LikeUser(u, r.at.user)}
    /\ UNCHANGED <<senderKeys, migratedPNs, migrating>>

(* deleteAllIdentitiesQuery with an address for its pattern.               *)
DeleteIdentity(a) ==
    /\ Callable
    /\ identityKeys' = {r \in identityKeys :
                           ~(LikeUser(a.user, r.at.user) /\ r.at.dev = a.dev)}
    /\ UNCHANGED <<senderKeys, migratedPNs, migrating>>

PutSenderKey(a, k) ==
    /\ Insertable
    /\ senderKeys' = PutKey(senderKeys, a, k)
    /\ UNCHANGED <<identityKeys, migratedPNs, migrating>>

(* MigratePNToLID: the PN enters the cache, ...                            *)
MigrationStarts(u) ==
    /\ Callable
    /\ u \notin migratedPNs
    /\ migratedPNs' = migratedPNs \cup {u}
    /\ migrating' = migrating \cup {u}
    /\ UNCHANGED <<identityKeys, senderKeys>>

\* Mutant: a row the LID has already is kept.
MoveUnlessThere(R, u, l) ==
    LET moved == {[r EXCEPT !.at.user = l] : r \in {r \in R : r.at.user = u}}
    IN  {r \in R : r.at.user # u} \cup {r \in moved : \A s \in R : s.at # r.at}

(* Every row of u is copied to l, over a row that is there, and deleted.   *)
Move(R, u, l) ==
    LET moved == {[r EXCEPT !.at.user = l] : r \in {r \in R : r.at.user = u}}
    IN  {r \in R : r.at.user # u /\ \A s \in moved : s.at # r.at} \cup moved

(* ... and one transaction moves all its rows, or fails.                   *)
MigrationTransaction(u) ==
    /\ u \in migrating
    /\ migrating' = migrating \ {u}
    /\ \/ /\ identityKeys' = Move(identityKeys, u, LidUserOf[u])
          /\ senderKeys' = Move(senderKeys, u, LidUserOf[u])
       \/ UNCHANGED <<identityKeys, senderKeys>>
    /\ UNCHANGED migratedPNs

(* NewSQLStore starts with an empty cache.                                 *)
SignalRestart == migratedPNs' = {} /\ migrating' = {}

SignalCrash == SignalRestart /\ UNCHANGED <<identityKeys, senderKeys>>

SignalCascade ==
    identityKeys' = {} /\ senderKeys' = {} /\ UNCHANGED <<migratedPNs, migrating>>

SignalNext ==
    \/ \E a \in Addresses :
          \/ \E k \in IdentityKeys : PutIdentity(a, k)
          \/ \E k \in SenderKeys : PutSenderKey(a, k)
          \/ DeleteIdentity(a)
    \/ \E u \in SignalPns \cup SignalLids : DeleteAllIdentities(u)
    \/ \E u \in DOMAIN LidUserOf : MigrationStarts(u) \/ MigrationTransaction(u)
    \/ SignalCrash

SignalTypeOK ==
    /\ identityKeys \subseteq [at : Addresses, key : IdentityKeys]
    /\ senderKeys \subseteq [at : Addresses, key : SenderKeys]
    /\ \A r, s \in identityKeys : r.at = s.at => r = s
    /\ \A r, s \in senderKeys : r.at = s.at => r = s
    /\ migrating \subseteq migratedPNs /\ migratedPNs \subseteq SignalPns

-----------------------------------------------------------------------------
AddressesOf(R) == {r.at : r \in R}

(* The rows of R that R2 has no row at the address of.                     *)
Dropped(R, R2) == {r \in R : r.at \notin AddressesOf(R2)}

MovedTo(r, R2) == r.at.user \in DOMAIN LidUserOf
                  /\ [r EXCEPT !.at.user = LidUserOf[r.at.user]] \in R2

(* While the device is there, a sender key leaves its address only for the *)
(* address of its LID, and then all keys of the phone number, of both      *)
(* kinds, move with it unchanged.  Otherwise one step takes identities of  *)
(* one user only, or of users its LIKE pattern matches by mistake, and no  *)
(* sender key.                                                             *)
KeysGoWithTheirUser ==
    [][row' =>
         LET gone    == Dropped(identityKeys, identityKeys')
             goneToo == Dropped(senderKeys, senderKeys')
             moved   == /\ \A r \in gone : MovedTo(r, identityKeys')
                        /\ \A r \in goneToo : MovedTo(r, senderKeys')
                        /\ \A r \in identityKeys' \cup senderKeys', s \in gone \cup goneToo :
                              r.at.user # s.at.user
         IN  \/ moved
             \/ /\ goneToo = {}
                /\ \E u \in SignalPns \cup SignalLids :
                      \A r \in gone : LikeUser(u, r.at.user)]_signalVars
=============================================================================
