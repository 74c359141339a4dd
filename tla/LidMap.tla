------------------------------- MODULE LidMap -------------------------------
(***************************************************************************)
(* CachedLIDMap (src/store/sqlstore/lidmap.go): the table lid_map, the two *)
(* caches in front of it and lidCacheLock, used by several goroutines of   *)
(* one process that may crash and start again.                             *)
(*                                                                         *)
(* A step is what runs without another goroutine being able to see it:     *)
(* a section under RLock, a section under Lock that does one query, one    *)
(* put of a transaction.  Only transactions keep lidCacheLock across       *)
(* steps, so that they can fail, or the process crash, between two puts.   *)
(***************************************************************************)
EXTENDS Naturals, Sequences

CONSTANTS
    Lids,       \* user parts of LIDs
    Pns,        \* user parts of phone-number JIDs
    NoUser,     \* the empty string: a negative cache entry, an empty JID
    Absent,     \* the key is not in the cache
    Threads,    \* goroutines that call the store
    NoThread,   \* holder of a free lock
    Batches     \* arguments of PutManyLIDMappings that are explored

Users == Lids \cup Pns

\* `valid' is FALSE for a mapping whose JIDs are on other servers.
Mapping == [lid : Lids, pn : Pns, valid : BOOLEAN]

ASSUME UsersAssumption ==
    /\ Lids \cap Pns = {}
    /\ NoUser \notin Users
    /\ Absent \notin Users
    /\ Absent # NoUser
    /\ NoThread \notin Threads

ASSUME BatchesAssumption == Batches \subseteq Seq(Mapping)

VARIABLES
    rows,          \* lid_map as committed: a set of <<lid, pn>>
    work,          \* lid_map as the open transaction sees it
    cache,         \* pnToLIDCache and lidToPNCache (their keys are disjoint)
    cacheFilled,
    lidCacheLock,  \* the goroutine whose transaction holds the lock
    op,            \* what each goroutine is doing
    ret,           \* what the call that returned in the last step returned
    poisoned       \* history: a transaction of this process was rolled back
                   \* after it had changed the cache

vars == <<rows, work, cache, cacheFilled, lidCacheLock, op, ret, poisoned>>

-----------------------------------------------------------------------------
(* Data: rows, answers and cache contents.                                 *)

Linked(R, u, v) == <<u, v>> \in R \/ <<v, u>> \in R

(* a is what a lookup of u in the rows R finds.                            *)
IsAnswer(R, u, a) ==
    IF a = NoUser THEN \A v \in Users : ~Linked(R, u, v)
                  ELSE a \in Users /\ Linked(R, u, a)

\* Mutant: nothing is deleted before the upsert.
DeleteNothing(R, l, p) == R

(* deleteExistingLIDMappingQuery, then putLIDMappingQuery.                 *)
DeleteExisting(R, l, p) == {r \in R : ~(r[1] # l /\ r[2] = p)}
\* Mutant: the columns are swapped in the upsert.
UpsertSwapped(R, l, p) == {r \in R : r[1] # l} \cup {<<p, l>>}

Upsert(R, l, p)         == {r \in R : r[1] # l} \cup {<<l, p>>}
PutRow(R, l, p)         == Upsert(DeleteExisting(R, l, p), l, p)

(* scanManyLids: both caches take over the rows R.                         *)
Absorb(c, R) ==
    [u \in Users |-> IF \E v \in Users : Linked(R, u, v)
                     THEN CHOOSE v \in Users : Linked(R, u, v)
                     ELSE c[u]]

(* getLIDMapping: the answer of a query, stored in both directions.        *)
CacheAnswer(c, u, a) ==
    [v \in Users |-> IF v = u THEN a ELSE IF v = a THEN u ELSE c[v]]

\* Mutant: the entries of the former partners stay.
CacheKeepsPartners(c, l, p) ==
    [u \in Users |-> IF u = l THEN p ELSE IF u = p THEN l ELSE c[u]]

(* unlockedPutLIDMapping: store both directions and drop the entries of    *)
(* the former partners, if they still point back.                          *)
CacheAfterPut(c, l, p) ==
    [u \in Users |->
        IF u = l THEN p
        ELSE IF u = p THEN l
        ELSE IF \/ u = c[l] /\ c[u] = l
                \/ u = c[p] /\ c[u] = p THEN Absent
        ELSE c[u]]

(* DeduplicateUnsortedOverwrite keeps the first of equal mappings.         *)
FirstOfItsKind(b, i) == \A j \in DOMAIN b : j < i => b[j] # b[i]

\* Mutant: a PN that has some LID in the cache is taken for stored.
WantedIfUnknown(c, b) ==
    {i \in DOMAIN b : b[i].valid /\ c[b[i].pn] \notin Lids /\ FirstOfItsKind(b, i)}

(* The indices of b that PutManyLIDMappings does not filter out: valid,    *)
(* not what the cache holds already, not a repetition of an earlier one.   *)
Wanted(c, b) ==
    {i \in DOMAIN b : /\ b[i].valid
                      /\ c[b[i].pn] # b[i].lid
                      /\ FirstOfItsKind(b, i)}

-----------------------------------------------------------------------------
(* Control: operations under way and replies.                              *)

Idle         == [kind |-> "idle"]
Miss(u)      == [kind |-> "miss", user |-> u]
MissMany(S, M, H, R) ==   \* asked for S, M missing, H hits, rows R back then
    [kind |-> "missMany", asked |-> S, missing |-> M, hits |-> H, then |-> R]
Txn(b, D, T) ==           \* batch b, indices D put, indices T still to put
    [kind |-> "txn", batch |-> b, done |-> D, todo |-> T]

NoReply           == [kind |-> "none"]
ErrorReply        == [kind |-> "error"]
FillReply         == [kind |-> "filled"]
UserReply(u, a)   == [kind |-> "user", user |-> u, answer |-> a]
ManyReply(S, F, R) == [kind |-> "many", asked |-> S, found |-> F, then |-> R]
PutReply(b)       == [kind |-> "put", batch |-> b]

LockFree == lidCacheLock = NoThread

Return(t, r) == op' = [op EXCEPT ![t] = Idle] /\ ret' = r
Become(t, o) == op' = [op EXCEPT ![t] = o] /\ ret' = NoReply

EmptyCache == [u \in Users |-> Absent]

OneToOne(R) == \A r, s \in R : (r[1] = s[1]) <=> (r[2] = s[2])

Init ==
    /\ rows \in {R \in SUBSET (Lids \X Pns) : OneToOne(R)}
    /\ work = rows
    /\ cache = EmptyCache
    /\ cacheFilled = FALSE
    /\ lidCacheLock = NoThread
    /\ op = [t \in Threads |-> Idle]
    /\ ret = NoReply
    /\ poisoned = FALSE

-----------------------------------------------------------------------------
(* GetLIDForPN and GetPNForLID (getLIDMapping with the caches swapped).    *)

LookupCached(t, u) ==
    /\ op[t].kind = "idle"
    /\ LockFree
    /\ cache[u] # Absent \/ cacheFilled
    /\ Return(t, UserReply(u, IF cache[u] = Absent THEN NoUser ELSE cache[u]))
    /\ UNCHANGED <<rows, work, cache, cacheFilled, lidCacheLock, poisoned>>

LookupMisses(t, u) ==
    /\ op[t].kind = "idle"
    /\ LockFree
    /\ cache[u] = Absent
    /\ ~cacheFilled
    /\ Become(t, Miss(u))
    /\ UNCHANGED <<rows, work, cache, cacheFilled, lidCacheLock, poisoned>>

(* The second half, under Lock: other goroutines ran in between.           *)
QueryMapping(t) ==
    /\ op[t].kind = "miss"
    /\ LockFree
    /\ \E a \in Users \cup {NoUser} :
          /\ IsAnswer(rows, op[t].user, a)
          /\ cache' = CacheAnswer(cache, op[t].user, a)
          /\ Return(t, UserReply(op[t].user, a))
    /\ UNCHANGED <<rows, work, cacheFilled, lidCacheLock, poisoned>>

QueryMappingFails(t) ==
    /\ op[t].kind = "miss"
    /\ LockFree
    /\ Return(t, ErrorReply)
    /\ UNCHANGED <<rows, work, cache, cacheFilled, lidCacheLock, poisoned>>

-----------------------------------------------------------------------------
(* GetManyLIDsForPNs.                                                      *)

LookupMany(t, S) ==
    LET hits    == {<<cache[p], p>> : p \in {p \in S : cache[p] \in Lids}}
        missing == {p \in S : cache[p] \notin Lids /\ ~cacheFilled}
    IN  /\ op[t].kind = "idle"
        /\ LockFree
        /\ IF missing = {} THEN Return(t, ManyReply(S, hits, rows))
                           ELSE Become(t, MissMany(S, missing, hits, rows))
        /\ UNCHANGED <<rows, work, cache, cacheFilled, lidCacheLock, poisoned>>

QueryMany(t) ==
    LET fetched == {r \in rows : r[2] \in op[t].missing}
    IN  /\ op[t].kind = "missMany"
        /\ LockFree
        /\ cache' = Absorb(cache, fetched)
        /\ Return(t, ManyReply(op[t].asked, op[t].hits \cup fetched, op[t].then))
        /\ UNCHANGED <<rows, work, cacheFilled, lidCacheLock, poisoned>>

(* The query fails, perhaps after some of its rows were scanned.           *)
QueryManyFails(t) ==
    /\ op[t].kind = "missMany"
    /\ LockFree
    /\ \E R \in SUBSET {r \in rows : r[2] \in op[t].missing} :
          cache' = Absorb(cache, R)
    /\ Return(t, ErrorReply)
    /\ UNCHANGED <<rows, work, cacheFilled, lidCacheLock, poisoned>>

-----------------------------------------------------------------------------
(* FillCache.                                                              *)

FillCache(t) ==
    /\ op[t].kind = "idle"
    /\ LockFree
    /\ cache' = Absorb(cache, rows)
    /\ cacheFilled' = TRUE
    /\ Return(t, FillReply)
    /\ UNCHANGED <<rows, work, lidCacheLock, poisoned>>

\* Mutant: the cache counts as filled although the query failed.
FillCacheFailsFilled(t) ==
    /\ op[t].kind = "idle"
    /\ LockFree
    /\ \E R \in SUBSET rows : cache' = Absorb(cache, R)
    /\ cacheFilled' = TRUE
    /\ Return(t, ErrorReply)
    /\ UNCHANGED <<rows, work, lidCacheLock, poisoned>>

FillCacheFails(t) ==
    /\ op[t].kind = "idle"
    /\ LockFree
    /\ \E R \in SUBSET rows : cache' = Absorb(cache, R)
    /\ cacheFilled' = FALSE
    /\ Return(t, ErrorReply)
    /\ UNCHANGED <<rows, work, lidCacheLock, poisoned>>

-----------------------------------------------------------------------------
(* PutLIDMapping and PutManyLIDMappings: filter, then one transaction.     *)

StartPut(t, b) ==
    /\ op[t].kind = "idle"
    /\ LockFree
    /\ IF Wanted(cache, b) = {}
       THEN Return(t, PutReply(b)) /\ UNCHANGED lidCacheLock
       ELSE Become(t, Txn(b, {}, Wanted(cache, b))) /\ lidCacheLock' = t
    /\ UNCHANGED <<rows, work, cache, cacheFilled, poisoned>>

PutLIDMapping(t, l, p) ==
    StartPut(t, <<[lid |-> l, pn |-> p, valid |-> TRUE]>>)

PutManyLIDMappings(t, b) == StartPut(t, b)

(* unlockedPutLIDMapping of the next mapping, inside the transaction.      *)
PutOne(t) ==
    /\ op[t].kind = "txn"
    /\ \E i \in op[t].todo :
          LET m == op[t].batch[i]
          IN  /\ \A j \in op[t].todo : i <= j
              /\ work' = PutRow(work, m.lid, m.pn)
              /\ cache' = CacheAfterPut(cache, m.lid, m.pn)
              /\ Become(t, Txn(op[t].batch, op[t].done \cup {i},
                               op[t].todo \ {i}))
    /\ UNCHANGED <<rows, cacheFilled, lidCacheLock, poisoned>>

\* Mutant: the lock is not released.
CommitKeepsLock(t) ==
    /\ op[t].kind = "txn"
    /\ op[t].todo = {}
    /\ rows' = work
    /\ Return(t, PutReply(op[t].batch))
    /\ UNCHANGED <<work, cache, cacheFilled, lidCacheLock, poisoned>>

Commit(t) ==
    /\ op[t].kind = "txn"
    /\ op[t].todo = {}
    /\ rows' = work
    /\ lidCacheLock' = NoThread
    /\ Return(t, PutReply(op[t].batch))
    /\ UNCHANGED <<work, cache, cacheFilled, poisoned>>

\* Mutant: the puts are not in a transaction, so they stay.
RollbackKeepsPuts(t) ==
    /\ op[t].kind = "txn"
    /\ rows' = work
    /\ lidCacheLock' = NoThread
    /\ Return(t, ErrorReply)
    /\ poisoned' = (poisoned \/ op[t].done # {})
    /\ UNCHANGED <<work, cache, cacheFilled>>

(* BEGIN, a query or COMMIT fails: the table is rolled back, the cache is  *)
(* not.                                                                    *)
Rollback(t) ==
    /\ op[t].kind = "txn"
    /\ work' = rows
    /\ lidCacheLock' = NoThread
    /\ Return(t, ErrorReply)
    /\ poisoned' = (poisoned \/ op[t].done # {})
    /\ UNCHANGED <<rows, cache, cacheFilled>>

-----------------------------------------------------------------------------
(* The process ends at any moment and is started again: the transaction is *)
(* lost with everything NewCachedLIDMap starts from nothing.               *)
Restart ==
    /\ work' = rows
    /\ cache' = EmptyCache
    /\ cacheFilled' = FALSE
    /\ lidCacheLock' = NoThread
    /\ op' = [t \in Threads |-> Idle]
    /\ ret' = NoReply
    /\ poisoned' = FALSE
    /\ UNCHANGED rows

Continue(t) == QueryMapping(t) \/ QueryMany(t) \/ PutOne(t) \/ Commit(t)
Fail(t)     == QueryMappingFails(t) \/ QueryManyFails(t) \/ Rollback(t)
Call(t)     == \/ \E u \in Users : LookupCached(t, u) \/ LookupMisses(t, u)
               \/ \E S \in (SUBSET Pns) \ {{}} : LookupMany(t, S)
               \/ FillCache(t)
               \/ FillCacheFails(t)
               \/ \E l \in Lids, p \in Pns : PutLIDMapping(t, l, p)
               \/ \E b \in Batches : PutManyLIDMappings(t, b)

Next == (\E t \in Threads : Call(t) \/ Continue(t) \/ Fail(t)) \/ Restart

Spec == Init /\ [][Next]_vars

(* A goroutine inside the store keeps running, and sync.RWMutex lets every *)
(* goroutine that waits for it in in the end: hence strong fairness.       *)
Fairness == \A t \in Threads : SF_vars(Continue(t))

-----------------------------------------------------------------------------
(* Types.                                                                  *)

Rows   == SUBSET (Lids \X Pns)
Caches == [Users -> Users \cup {NoUser, Absent}]
Puts   == Batches \cup {<<[lid |-> l, pn |-> p, valid |-> TRUE]>> :
                           l \in Lids, p \in Pns}

Ops ==
    [kind : {"idle"}]
    \cup [kind : {"miss"}, user : Users]
    \cup [kind : {"missMany"}, asked : SUBSET Pns, missing : SUBSET Pns,
          hits : Rows, then : Rows]
    \cup UNION {[kind : {"txn"}, batch : {b},
                 done : SUBSET DOMAIN b, todo : SUBSET DOMAIN b] : b \in Puts}

Replies ==
    [kind : {"none", "error", "filled"}]
    \cup [kind : {"user"}, user : Users, answer : Users \cup {NoUser}]
    \cup [kind : {"many"}, asked : SUBSET Pns, found : Rows, then : Rows]
    \cup [kind : {"put"}, batch : Puts]

(* Every variable has a value of its type; the negative entry and the      *)
(* absent key never leak into the table, nor a PN into the LID column.     *)
TypeOK ==
    /\ rows \in Rows
    /\ work \in Rows
    /\ cache \in Caches
    /\ cacheFilled \in BOOLEAN
    /\ lidCacheLock \in Threads \cup {NoThread}
    /\ op \in [Threads -> Ops]
    /\ ret \in Replies
    /\ poisoned \in BOOLEAN

-----------------------------------------------------------------------------
(* Safety.                                                                 *)

(* The table never breaks PRIMARY KEY (lid) or UNIQUE (pn), not even       *)
(* inside a transaction: no put can fail on a constraint (schema of        *)
(* lid_map; the delete and the upsert of unlockedPutLIDMapping).           *)
TablesAreOneToOne == OneToOne(rows) /\ OneToOne(work)

Coherent(c, R) == \A u \in Users : c[u] = Absent \/ IsAnswer(R, u, c[u])
Paired(c)      == \A u \in Users : c[u] \in Users => c[c[u]] = u
Complete(c, R) == \A u, v \in Users : Linked(R, u, v) => c[u] # Absent

(* Unless a transaction failed half way, both caches say what the open     *)
(* transaction (or the table) says, agree with each other in both          *)
(* directions, and a filled cache lacks no mapping: the premise of every   *)
(* early return in lidmap.go (lines 96, 152, 204 and 224).                 *)
CachesMatchTable ==
    poisoned \/ /\ Coherent(cache, work)
                /\ Paired(cache)
                /\ cacheFilled => Complete(cache, work)

(* A lookup that returns answers from the committed table, whatever ran    *)
(* between its RUnlock and its Lock.                                       *)
LookupsAreCurrent ==
    ret.kind = "user" /\ ~poisoned => IsAnswer(rows, ret.user, ret.answer)

(* GetManyLIDsForPNs, which reads in two sections: each mapping returned   *)
(* is in the table now or was when the call began, and no PN that has a    *)
(* mapping both then and now is left out.                                  *)
ManyLookupsAreCurrent ==
    ret.kind = "many" /\ ~poisoned =>
        /\ ret.found \subseteq rows \cup ret.then
        /\ \A r \in rows, s \in ret.then :
              r[2] \in ret.asked /\ s[2] = r[2] => \E f \in ret.found : f[2] = r[2]

(* A mapping of an acknowledged batch which no other mapping of the batch  *)
(* contradicts is in the table, also when the cache filter skipped it.     *)
(* (Its repetitions are left out here as the code leaves them out.)        *)
Uncontested(b, i) ==
    /\ b[i].valid
    /\ FirstOfItsKind(b, i)
    /\ \A j \in DOMAIN b :
          b[j].valid => ((b[j].lid = b[i].lid) <=> (b[j].pn = b[i].pn))

AckedPutIsStored ==
    ret.kind = "put" =>
        \A i \in DOMAIN ret.batch :
            Uncontested(ret.batch, i) => <<ret.batch[i].lid, ret.batch[i].pn>> \in rows

AckedPutIsStoredUnlessPoisoned == ~poisoned => AckedPutIsStored

(* Unless a transaction failed half way, callers are told what the table   *)
(* says: by single lookups, by lookups in two sections, and by puts.       *)
RepliesMatchTable ==
    LookupsAreCurrent /\ ManyLookupsAreCurrent /\ AckedPutIsStoredUnlessPoisoned

-----------------------------------------------------------------------------
(* The table, and whether the cache can be trusted, behave as LidTable     *)
(* says: batches are applied whole, in order, and nothing else writes.     *)
Table == INSTANCE LidTable WITH
            Batches <- Puts, table <- rows, trusted <- ~poisoned

ImplementsTable == Table!Spec

-----------------------------------------------------------------------------
(* What makes the properties above inductive (LidMapProofs).               *)

(* Only the transaction of the goroutine that holds the lock may make the  *)
(* table differ from what is committed (DoTxn runs under lidCacheLock).    *)
LockInv ==
    /\ LockFree => work = rows
    /\ \A t \in Threads : op[t].kind = "txn" <=> lidCacheLock = t

(* Half way through a batch the open table is the old one with the         *)
(* mappings put so far, and what was filtered out did not matter.          *)
TxnInv ==
    \A t \in Threads : op[t].kind = "txn" =>
        LET b == op[t].batch
        IN  /\ \A i \in op[t].done, j \in op[t].todo : i < j
            /\ \A i \in op[t].done \cup op[t].todo : b[i].valid
            /\ work = Table!PutAll(rows, b, op[t].done)
            /\ ~poisoned => (DOMAIN b) \ (op[t].done \cup op[t].todo)
                               \subseteq Table!Redundant(rows, b)

(* The hits of a suspended GetManyLIDsForPNs were in the table, and cover  *)
(* every PN it does not count as missing.                                  *)
ManyInv ==
    \A t \in Threads : op[t].kind = "missMany" =>
        /\ ~poisoned => op[t].hits \subseteq op[t].then
        /\ \A p \in op[t].asked \ op[t].missing : \E h \in op[t].hits : h[2] = p

(* The inductive invariant: it holds after every step of the store, and it *)
(* contains the properties that callers rely on.                           *)
IInv ==
    /\ TypeOK
    /\ TablesAreOneToOne
    /\ LockInv
    /\ CachesMatchTable
    /\ TxnInv
    /\ ManyInv
    /\ LookupsAreCurrent
    /\ ManyLookupsAreCurrent
    /\ AckedPutIsStoredUnlessPoisoned

-----------------------------------------------------------------------------
(* Every call returns, whoever else uses the lock and whatever fails.      *)
EveryCallReturns ==
    \A t \in Threads : (op[t].kind # "idle") ~> (op[t].kind = "idle")
=============================================================================
