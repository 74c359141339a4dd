------------------------------ MODULE Sessions ------------------------------
(***************************************************************************)
(* The Signal sessions of a device: the table sessions and the migration   *)
(* from PN to LID addresses (src/store/sqlstore/store.go), LoadSession and *)
(* StoreSession (src/store/signal.go) and the session cache of a context   *)
(* (src/store/sessioncache.go).                                            *)
(*                                                                         *)
(* The callers are external: libsignal loads a session, encrypts with it   *)
(* and stores it again; whatsmeow sends what was encrypted once the store  *)
(* has the session.  A session is its identity and the number of the state *)
(* its next message is encrypted with.  A person has one address of each   *)
(* form (one device); the migration moves the rows of identity_keys and    *)
(* sender_keys by the same statements in the same transaction.             *)
(***************************************************************************)
EXTENDS Naturals

CONSTANTS
    Persons,    \* peers
    Threads,    \* goroutines
    NoSession,  \* no row, and the record of a new session
    Absent,     \* the address is not in the session cache
    Nothing,    \* no record is in the hands of libsignal
    MaxMade,    \* bound: sessions that are established
    MaxState    \* bound: messages per session

Address == Persons \X {"pn", "lid"}
Session == [who : Persons, id : 1 .. MaxMade, state : 0 .. MaxState]
Record  == Session \cup {NoSession}

ASSUME SessionsAssumption ==
    /\ NoSession \notin Session
    /\ Absent \notin [dirty : BOOLEAN, rec : Record]
    /\ Nothing \notin [addr : Address, rec : Record]
    /\ MaxMade \in Nat /\ MaxState \in Nat

PN(u)  == <<u, "pn">>
LID(u) == <<u, "lid">>

VARIABLES
    rows,      \* the table sessions
    migrated,  \* migratedPNSessionsCache
    op,        \* what each goroutine is doing
    ret,       \* what the call that returned in the last step returned
    made,      \* sessions established so far
    used,      \* history: states that messages were sent with
    again,     \* history: those that were sent with more than once
    mixed,     \* history: persons of whom a session was written while another
               \* goroutine had a copy of it
    left       \* history: persons whose PN session was left by a migration
               \* that failed, or was stored after the migration

vars == <<rows, migrated, op, ret, made, used, again, mixed, left>>

Idle    == [kind |-> "idle"]
NoReply == [kind |-> "none"]
Empty   == [a \in Address |-> Absent]

Return(t, r) == op' = [op EXCEPT ![t] = Idle] /\ ret' = r
Become(t, o) == op' = [op EXCEPT ![t] = o] /\ ret' = NoReply

Init ==
    /\ rows = [a \in Address |-> NoSession]
    /\ migrated = {}
    /\ op = [t \in Threads |-> Idle]
    /\ ret = NoReply
    /\ made = 0
    /\ used = {} /\ again = {} /\ mixed = {} /\ left = {}

-----------------------------------------------------------------------------
(* A goroutine begins to work on sessions: with a context of its own that  *)
(* has the sessions of A prefetched (WithCachedSessions), or without.      *)

WithCachedSessions(t, A) ==
    /\ op[t].kind = "idle"
    /\ Become(t, [kind |-> "work", cached |-> TRUE, hand |-> Nothing,
                  outbox |-> {}, ready |-> {},
                  cache |-> [a \in Address |->
                               IF a \in A THEN [dirty |-> FALSE, rec |-> rows[a]]
                                          ELSE Absent]])
    /\ UNCHANGED <<rows, migrated, made, used, again, left>>

WithoutCache(t) ==
    /\ op[t].kind = "idle"
    /\ Become(t, [kind |-> "work", cached |-> FALSE, hand |-> Nothing,
                  outbox |-> {}, ready |-> {}, cache |-> Empty])
    /\ UNCHANGED <<rows, migrated, made, used, again, left>>

(* LoadSession: from the cache if the context has the address, else from   *)
(* the table.                                                              *)
Loaded(t, a) == IF op[t].cache[a] # Absent THEN op[t].cache[a].rec ELSE rows[a]

LoadSession(t, a) ==
    /\ op[t].kind = "work"
    /\ op[t].hand = Nothing
    /\ Become(t, [op[t] EXCEPT !.hand = [addr |-> a, rec |-> Loaded(t, a)]])
    /\ UNCHANGED <<rows, migrated, made, used, again, left>>

\* Mutant: whether the context has a cache is not looked at.
PutAlways(o, a, rec) == [o EXCEPT !.cache[a] = [dirty |-> TRUE, rec |-> rec]]

\* Mutant: the entry is not marked as dirty.
PutClean(o, a, rec) ==
    IF o.cached THEN [o EXCEPT !.cache[a] = [dirty |-> FALSE, rec |-> rec]] ELSE o

(* putCachedSession, or else PutSession: an address that was not prefetched *)
(* goes to the cache as well if there is one.                              *)
Put(o, a, rec) ==
    IF o.cached THEN [o EXCEPT !.cache[a] = [dirty |-> TRUE, rec |-> rec]] ELSE o

StoreSession(t, rec, sent) ==
    LET a == op[t].hand.addr
        o == [op[t] EXCEPT !.hand = Nothing, !.outbox = @ \cup sent]
    IN  /\ Become(t, Put(o, a, rec))
        /\ rows' = IF o.cached THEN rows ELSE [rows EXCEPT ![a] = rec]
        /\ left' = IF ~o.cached /\ a[2] = "pn" /\ a[1] \in migrated
                   THEN left \cup {a[1]} ELSE left

(* libsignal: a new session from a prekey bundle.                          *)
Establish(t) ==
    /\ op[t].kind = "work"
    /\ op[t].hand # Nothing
    /\ op[t].hand.rec = NoSession
    /\ made < MaxMade
    /\ made' = made + 1
    /\ StoreSession(t, [who |-> op[t].hand.addr[1], id |-> made + 1, state |-> 0], {})
    /\ UNCHANGED <<migrated, used, again>>

(* libsignal: a message is encrypted, the session advances.                *)
Encrypt(t) ==
    LET rec == op[t].hand.rec
    IN  /\ op[t].kind = "work"
        /\ op[t].hand # Nothing
        /\ rec # NoSession
        /\ rec.state < MaxState
        /\ StoreSession(t, [rec EXCEPT !.state = @ + 1], {rec})
        /\ UNCHANGED <<migrated, made, used, again>>

(* PutCachedSessions: all dirty sessions in one transaction, then the      *)
(* cache is cleared, but it stays with the context.                        *)
Dirty(t) == {a \in Address : op[t].cache[a] # Absent /\ op[t].cache[a].dirty}

\* Mutant: the error of the transaction is not looked at.
FlushIgnored(t) ==
    /\ op[t].kind = "work"
    /\ op[t].hand = Nothing
    /\ Become(t, [op[t] EXCEPT !.cache = Empty, !.outbox = {},
                               !.ready = @ \cup op[t].outbox])
    /\ UNCHANGED <<rows, left, migrated, made, used, again>>

PutCachedSessions(t) ==
    /\ op[t].kind = "work"
    /\ op[t].hand = Nothing
    /\ rows' = [a \in Address |-> IF a \in Dirty(t) THEN op[t].cache[a].rec
                                                   ELSE rows[a]]
    /\ left' = left \cup {u \in migrated : PN(u) \in Dirty(t)}
    /\ Become(t, [op[t] EXCEPT !.cache = Empty, !.outbox = {},
                               !.ready = @ \cup op[t].outbox])
    /\ UNCHANGED <<migrated, made, used, again>>

(* The messages whose sessions are stored are sent.                        *)
Send(t) ==
    /\ op[t].kind = "work"
    /\ op[t].ready # {}
    /\ used' = used \cup op[t].ready
    /\ again' = again \cup (used \cap op[t].ready)
    /\ Become(t, [op[t] EXCEPT !.ready = {}])
    /\ UNCHANGED <<rows, migrated, made, left>>

(* The goroutine is done, or a call has failed and it gives up: the cache  *)
(* and what was not sent are lost.                                         *)
Leave(t) ==
    /\ op[t].kind = "work"
    /\ Return(t, NoReply)
    /\ UNCHANGED <<rows, migrated, made, used, again, left>>

-----------------------------------------------------------------------------
(* MigratePNToLID: the person is noted as migrated before the transaction. *)

MigratePNToLID(t, u) ==
    /\ op[t].kind = "idle"
    /\ migrated' = migrated \cup {u}
    /\ IF u \in migrated THEN Return(t, [kind |-> "migrated", person |-> u])
                         ELSE Become(t, [kind |-> "migrate", person |-> u])
    /\ UNCHANGED <<rows, made, used, again, left>>

\* Mutant: the PN session is copied and not deleted.
MigrationCopies(t) ==
    LET u == op[t].person
    IN  /\ op[t].kind = "migrate"
        /\ rows' = [rows EXCEPT ![LID(u)] = IF rows[PN(u)] = NoSession THEN @
                                            ELSE rows[PN(u)]]
        /\ left' = left \ {u}
        /\ Return(t, [kind |-> "migrated", person |-> u])
        /\ UNCHANGED <<migrated, made, used, again>>

\* Mutant: a conflict with a LID session ends the migration.
MigrationGivesWay(t) ==
    LET u == op[t].person
    IN  /\ op[t].kind = "migrate"
        /\ rows' = IF rows[LID(u)] # NoSession THEN rows
                   ELSE [rows EXCEPT ![PN(u)] = NoSession, ![LID(u)] = rows[PN(u)]]
        /\ left' = left \ {u}
        /\ Return(t, [kind |-> "migrated", person |-> u])
        /\ UNCHANGED <<migrated, made, used, again>>

(* The PN session replaces a LID session that exists already.              *)
MigrationCommits(t) ==
    LET u == op[t].person
    IN  /\ op[t].kind = "migrate"
        /\ rows' = [rows EXCEPT ![PN(u)]  = NoSession,
                                ![LID(u)] = IF rows[PN(u)] = NoSession THEN @
                                            ELSE rows[PN(u)]]
        /\ left' = left \ {u}
        /\ Return(t, [kind |-> "migrated", person |-> u])
        /\ UNCHANGED <<migrated, made, used, again>>

MigrationFails(t) ==
    /\ op[t].kind = "migrate"
    /\ left' = left \cup {op[t].person}
    /\ Return(t, [kind |-> "error"])
    /\ UNCHANGED <<rows, migrated, made, used, again>>

-----------------------------------------------------------------------------
(* DeleteSession and DeleteAllSessions of one person's PN or LID.          *)
DeleteSession(a) ==
    /\ rows[a] # NoSession
    /\ rows' = [rows EXCEPT ![a] = NoSession]
    /\ ret' = NoReply
    /\ UNCHANGED <<migrated, op, made, used, again, left>>

(* The process ends and starts again.                                      *)
Restart ==
    /\ migrated' = {}
    /\ op' = [t \in Threads |-> Idle]
    /\ ret' = NoReply
    /\ left' = {}
    /\ UNCHANGED <<rows, made, used, again>>

Work(t) ==
    \/ \E A \in (SUBSET Address) \ {{}} : WithCachedSessions(t, A)
    \/ WithoutCache(t)
    \/ \E a \in Address : LoadSession(t, a)
    \/ Establish(t) \/ Encrypt(t)
    \/ PutCachedSessions(t) \/ Send(t) \/ Leave(t)
    \/ \E u \in Persons : MigratePNToLID(t, u)
    \/ MigrationCommits(t) \/ MigrationFails(t)

(* t has a copy of the session at a: in its cache or at libsignal.         *)
Holds(t, a) ==
    /\ op[t].kind = "work"
    /\ op[t].cache[a] # Absent \/ (op[t].hand # Nothing /\ op[t].hand.addr = a)

(* t changes a session in the table while another goroutine has a copy.    *)
Mixing(t) ==
    {a[1] : a \in {a \in Address : /\ rows'[a] # rows[a]
                                  /\ \E s \in Threads \ {t} : Holds(s, a)}}

Next ==
    \/ \E t \in Threads : Work(t) /\ mixed' = mixed \cup Mixing(t)
    \/ (\E a \in Address : DeleteSession(a)) /\ UNCHANGED mixed
    \/ Restart /\ UNCHANGED mixed

Spec == Init /\ [][Next]_vars

-----------------------------------------------------------------------------
(* Every variable has a value of its type.                                 *)
TypeOK ==
    /\ rows \in [Address -> Record]
    /\ migrated \subseteq Persons
    /\ \A t \in Threads :
          /\ op[t].kind \in {"idle", "work", "migrate"}
          /\ op[t].kind = "work" =>
                /\ op[t].outbox \cup op[t].ready \subseteq Session
                /\ \A a \in Address : op[t].cache[a] # Absent =>
                      op[t].cached /\ op[t].cache[a].rec \in Record
    /\ made \in 0 .. MaxMade
    /\ used \subseteq Session /\ again \subseteq Session
    /\ mixed \subseteq Persons /\ left \subseteq Persons

-----------------------------------------------------------------------------
(* Safety.                                                                 *)

(* No message is encrypted with the state another one was sent with, over  *)
(* caches, failed flushes and restarts, unless a session of the person was *)
(* written while another goroutine had a copy of it, from which neither    *)
(* the cache nor the store protects: what is sent was stored before        *)
(* (PutCachedSessions), and what is loaded is what was stored last.        *)
StatesAreUsedOnce == \A s \in again : s.who \in mixed

(* With the same exception a session is never at two addresses: a flush    *)
(* does not bring back under the PN what the migration moved to the LID.   *)
OneAddressPerSession ==
    \A a, b \in Address :
        rows[a] # NoSession /\ rows[b] # NoSession /\ rows[a].id = rows[b].id
            => a = b \/ a[1] \in mixed

(* Types, and sessions that are at one address.                            *)
SessionInv == TypeOK /\ OneAddressPerSession

(* MigratePNToLID returns nil only if no session is left under the PN:     *)
(* except while another goroutine is still migrating it, and, for the      *)
(* cache of migrated PNs is filled before the transaction and not emptied, *)
(* after a migration of this process failed or a PN session was stored.    *)
MigratedMeansMoved ==
    ret.kind = "migrated" =>
        \/ rows[PN(ret.person)] = NoSession
        \/ ret.person \in left
        \/ \E t \in Threads : op[t].kind = "migrate" /\ op[t].person = ret.person

(* No stored session is ever replaced by an older state of it, wherever it *)
(* moves, with the same exception (the flush of a context, the migration): *)
(* part of what ImplementsRatchet says of a step.                          *)
StoredSessionsAdvance ==
    [][\A a, b \in Address :
          rows[a] # NoSession /\ rows'[b] # NoSession /\ rows[a].id = rows'[b].id
              => rows'[b].state >= rows[a].state \/ rows[a].who \in mixed']_vars

(* The rows as a set: where a session is stored does not matter.           *)
Stored == {rows[a] : a \in Address} \ {NoSession}

Promise == INSTANCE Ratchet WITH stored <- Stored

(* Addresses, session caches, their flushes, migration and restarts do not *)
(* show: to its callers the store is a set of counters that go up, each    *)
(* stored before what was encrypted with the previous value is sent.       *)
ImplementsRatchet == Promise!Spec
=============================================================================
