------------------------------ MODULE Contacts ------------------------------
(***************************************************************************)
(* The contact store (src/store/sqlstore/store.go, lines 583-815): rows of *)
(* the table contacts, the contact cache and contactCacheLock.             *)
(*                                                                         *)
(* The calls for one contact and GetAllContacts hold the lock from their   *)
(* query to their end.  The bulk puts commit without the lock and take it  *)
(* only to invalidate the cache, so that a commit may come between the     *)
(* query and the end of another goroutine's call.  GetContact copies the   *)
(* cache entry after it has let the lock go, in a data race with the puts  *)
(* of that contact: what its caller gets may be a mixture, and no property *)
(* is about it.                                                            *)
(*                                                                         *)
(* A query or transaction that fails before it changes anything is a       *)
(* stuttering step and has no action here.                                 *)
(***************************************************************************)
EXTENDS Naturals

CONSTANTS
    Users,       \* JIDs of contacts
    NoText,      \* the empty string, and a NULL column
    Texts,       \* the other values of a column
    Absent,      \* no cache entry
    Threads,     \* goroutines that call the store
    NoThread,    \* holder of a free lock
    Names,       \* bound: <<first, full>> pairs that are put
    Phones       \* bound: redacted phones that are put

\* The redacted phones come from the server and are not empty.
ASSUME ContactsAssumption ==
    /\ NoText \notin Texts /\ NoThread \notin Threads
    /\ Names \subseteq (Texts \cup {NoText}) \X (Texts \cup {NoText})
    /\ Phones \subseteq Texts

Fields  == {"push", "business"}
Value   == Texts \cup {NoText}
Columns == {"first", "full", "push", "business", "phone"}

(* A contact without a row has nothing but empty columns.                  *)
Contact == {c \in [found : BOOLEAN, first : Value, full : Value,
                   push : Value, business : Value, phone : Value] :
              c.found \/ \A f \in Columns : c[f] = NoText}

VARIABLES
    rows,      \* the table contacts; found is FALSE where there is no row
    cache,     \* contactCache
    lock,      \* contactCacheLock
    op,        \* what each goroutine is doing
    ret,       \* what the call that returned in the last step returned
    reported   \* history: the names last reported to the callers

vars == <<rows, cache, lock, op, ret, reported>>

NoContact ==
    [found |-> FALSE, first |-> NoText, full |-> NoText,
     push |-> NoText, business |-> NoText, phone |-> NoText]

Idle    == [kind |-> "idle"]
NoReply == [kind |-> "none"]

Return(t, r) == op' = [op EXCEPT ![t] = Idle] /\ ret' = r
Become(t, o) == op' = [op EXCEPT ![t] = o] /\ ret' = NoReply

Init ==
    /\ rows = [u \in Users |-> NoContact]
    /\ cache = [u \in Users |-> Absent]
    /\ lock = NoThread
    /\ op = [t \in Threads |-> Idle]
    /\ ret = NoReply
    /\ reported = [u \in Users |-> [f \in Fields |-> NoText]]

-----------------------------------------------------------------------------
(* getContact, under the lock: the cached contact, or else the row.  It is *)
(* in the cache when the call ends, whether the rest of it fails or not.   *)

\* Mutant: the lock is only taken to read the cache, not over the query.
LookupUnlocked(t, u, call) ==
    /\ op[t].kind = "idle"
    /\ lock = NoThread
    /\ Become(t, [kind |-> "one", user |-> u, call |-> call,
                  info |-> IF cache[u] = Absent THEN rows[u] ELSE cache[u]])
    /\ UNCHANGED <<rows, cache, lock, reported>>

Lookup(t, u, call) ==
    /\ op[t].kind = "idle"
    /\ lock = NoThread
    /\ lock' = t
    /\ Become(t, [kind |-> "one", user |-> u, call |-> call,
                  info |-> IF cache[u] = Absent THEN rows[u] ELSE cache[u]])
    /\ UNCHANGED <<rows, cache, reported>>

GetContact(t, u)           == Lookup(t, u, [name |-> "get"])
PutField(t, u, f, v)       == Lookup(t, u, [name |-> "field", field |-> f, value |-> v])
PutContactName(t, u, a, b) == Lookup(t, u, [name |-> "names", first |-> a, full |-> b])

At(t, name) == op[t].kind = "one" /\ op[t].call.name = name

(* The call of t ends, leaving its contact in the cache.                   *)
Unlock(t, r) ==
    /\ cache' = [cache EXCEPT ![op[t].user] = op[t].info]
    /\ lock' = NoThread
    /\ Return(t, r)
    /\ UNCHANGED rows

GetContactEnds(t) ==
    /\ At(t, "get")
    /\ Unlock(t, [kind |-> "contact"])
    /\ UNCHANGED reported

(* What a put makes of a row, and of the contact that was looked up.       *)
WithField(c, f, v) == [c EXCEPT ![f] = v, !.found = TRUE]
WithNames(c, a, b) == [c EXCEPT !.first = a, !.full = b, !.found = TRUE]

(* The Exec of PutPushName, PutBusinessName and PutContactName succeeds.   *)
Execute(t, row, info, reply) ==
    /\ rows' = [rows EXCEPT ![op[t].user] = row]
    /\ Become(t, [op[t] EXCEPT !.info = info,
                               !.call = [name |-> "end", reply |-> reply]])
    /\ UNCHANGED <<cache, lock, reported>>

FieldReply(t) ==
    [kind |-> "changed", user |-> op[t].user, field |-> op[t].call.field,
     previous |-> op[t].info[op[t].call.field], now |-> op[t].call.value]

\* Mutant: Found is not set.
PutFieldUnfound(t) ==
    LET f == op[t].call.field
        v == op[t].call.value
    IN  /\ At(t, "field")
        /\ op[t].info[f] # v
        /\ Execute(t, [rows[op[t].user] EXCEPT ![f] = v], [op[t].info EXCEPT ![f] = v],
                   FieldReply(t))

PutFieldExecutes(t) ==
    LET f == op[t].call.field
        v == op[t].call.value
    IN  /\ At(t, "field")
        /\ op[t].info[f] # v
        /\ Execute(t, WithField(rows[op[t].user], f, v), WithField(op[t].info, f, v),
                   FieldReply(t))

NamesReply(t) ==
    [kind |-> "named", user |-> op[t].user,
     args |-> <<op[t].call.first, op[t].call.full>>]

\* Mutant: only the full name is compared.
SameFullName(info, call) == info.full = call.full

SameNames(info, call) == info.first = call.first /\ info.full = call.full

PutContactNameExecutes(t) ==
    LET a == op[t].call.first
        b == op[t].call.full
    IN  /\ At(t, "names")
        /\ ~SameNames(op[t].info, op[t].call)
        /\ Execute(t, WithNames(rows[op[t].user], a, b), WithNames(op[t].info, a, b),
                   NamesReply(t))

\* Mutant: the cached contact is left as it was.
PutEndsUncached(t) ==
    LET r == op[t].call.reply
    IN  /\ At(t, "end")
        /\ lock' = NoThread
        /\ Return(t, r)
        /\ reported' = IF r.kind = "changed"
                       THEN [reported EXCEPT ![r.user][r.field] = r.now]
                       ELSE reported
        /\ UNCHANGED <<rows, cache>>

PutEnds(t) ==
    LET r == op[t].call.reply
    IN  /\ At(t, "end")
        /\ Unlock(t, r)
        /\ reported' = IF r.kind = "changed"
                       THEN [reported EXCEPT ![r.user][r.field] = r.now]
                       ELSE reported

(* What is cached is what is put: no query, and nothing to report.         *)
PutFieldSkips(t) ==
    /\ At(t, "field")
    /\ op[t].info[op[t].call.field] = op[t].call.value
    /\ Unlock(t, [kind |-> "unchanged"])
    /\ UNCHANGED reported

PutContactNameSkips(t) ==
    /\ At(t, "names")
    /\ SameNames(op[t].info, op[t].call)
    /\ Unlock(t, NamesReply(t))
    /\ UNCHANGED reported

(* The Exec of a put fails: the contact looked up stays cached.            *)
ExecFails(t) ==
    /\ \/ At(t, "field") /\ op[t].info[op[t].call.field] # op[t].call.value
       \/ At(t, "names") /\ ~SameNames(op[t].info, op[t].call)
    /\ Unlock(t, [kind |-> "error"])
    /\ UNCHANGED reported

-----------------------------------------------------------------------------
(* GetAllContacts: one query, then every row replaces the cache entry; an  *)
(* error may stop it half way.                                             *)

QueryAll(t) ==
    /\ op[t].kind = "idle"
    /\ lock = NoThread
    /\ lock' = t
    /\ Become(t, [kind |-> "all", rows |-> rows])
    /\ UNCHANGED <<rows, cache, reported>>

(* The cache becomes `new', and the call of t ends.                        *)
Replace(t, new, r) ==
    /\ cache' = new
    /\ lock' = NoThread
    /\ Return(t, r)
    /\ UNCHANGED <<rows, reported>>

GetAllContacts(t) ==
    /\ op[t].kind = "all"
    /\ \E U \in SUBSET {u \in Users : op[t].rows[u].found}, kind \in {"error", "all"} :
          /\ kind = "all" => \A u \in Users : op[t].rows[u].found => u \in U
          /\ Replace(t, [u \in Users |-> IF u \in U THEN op[t].rows[u] ELSE cache[u]],
                     [kind |-> kind])

-----------------------------------------------------------------------------
(* PutAllContactNames and PutManyRedactedPhones: a transaction of upserts  *)
(* (after duplicates were dropped), then the invalidation.                 *)

CommitNames(t, batch) ==
    /\ op[t].kind = "idle"
    /\ rows' = [u \in Users |->
                   IF u \in DOMAIN batch
                   THEN WithNames(rows[u], batch[u][1], batch[u][2])
                   ELSE rows[u]]
    /\ Become(t, [kind |-> "committedNames", batch |-> batch])
    /\ UNCHANGED <<cache, lock, reported>>

\* Mutant: the bulk put leaves the cache alone.
ClearNothing(t) ==
    /\ op[t].kind = "committedNames"
    /\ lock = NoThread
    /\ Replace(t, cache, [kind |-> "bulk"])

(* "Just clear the cache": every entry goes.                               *)
ClearCache(t) ==
    /\ op[t].kind = "committedNames"
    /\ lock = NoThread
    /\ Replace(t, [u \in Users |-> Absent], [kind |-> "bulk"])

CommitPhones(t, batch) ==
    /\ op[t].kind = "idle"
    /\ rows' = [u \in Users |->
                   IF u \in DOMAIN batch
                   THEN [rows[u] EXCEPT !.phone = batch[u], !.found = TRUE]
                   ELSE rows[u]]
    /\ Become(t, [kind |-> "committedPhones", batch |-> batch])
    /\ UNCHANGED <<cache, lock, reported>>

(* An entry that has the phone already is kept.                            *)
Outdated(u, batch) ==
    u \in DOMAIN batch /\ cache[u] # Absent /\ cache[u].phone # batch[u]

DropOutdated(t) ==
    /\ op[t].kind = "committedPhones"
    /\ lock = NoThread
    /\ Replace(t, [u \in Users |-> IF Outdated(u, op[t].batch) THEN Absent ELSE cache[u]],
               [kind |-> "bulk"])

-----------------------------------------------------------------------------
(* The process ends and starts again.                                      *)
Restart ==
    /\ cache' = [u \in Users |-> Absent]
    /\ lock' = NoThread
    /\ op' = [t \in Threads |-> Idle]
    /\ ret' = NoReply
    /\ reported' = [u \in Users |-> [f \in Fields |-> rows[u][f]]]
    /\ UNCHANGED rows

Batches(V) == UNION {[U -> V] : U \in (SUBSET Users) \ {{}}}

Call(t) ==
    \/ \E u \in Users :
          \/ GetContact(t, u)
          \/ \E f \in Fields, v \in Value : PutField(t, u, f, v)
          \/ \E n \in Names : PutContactName(t, u, n[1], n[2])
    \/ QueryAll(t)
    \/ \E b \in Batches(Names) : CommitNames(t, b)
    \/ \E b \in Batches(Phones) : CommitPhones(t, b)

Finish(t) == \/ GetContactEnds(t)
             \/ PutFieldExecutes(t) \/ PutContactNameExecutes(t) \/ PutEnds(t)
             \/ PutFieldSkips(t) \/ PutContactNameSkips(t)
             \/ GetAllContacts(t) \/ ClearCache(t) \/ DropOutdated(t)

Next == (\E t \in Threads : Call(t) \/ Finish(t) \/ ExecFails(t)) \/ Restart

Spec == Init /\ [][Next]_vars

-----------------------------------------------------------------------------
(* Every variable has a value of its type; what is cached as not found has *)
(* no names or phone.                                                      *)
TypeOK ==
    /\ rows \in [Users -> Contact]
    /\ \A u \in Users : cache[u] = Absent \/ cache[u] \in Contact
    /\ lock \in Threads \cup {NoThread}
    /\ \A t \in Threads :
          op[t].kind \in {"idle", "one", "all", "committedNames", "committedPhones"}
    /\ reported \in [Users -> [Fields -> Value]]

-----------------------------------------------------------------------------
(* Safety.                                                                 *)

\* A bulk put that has committed and has not invalidated the cache yet.
NamesPending(u) ==
    \E t \in Threads : op[t].kind = "committedNames" /\ u \in DOMAIN op[t].batch

PhonePending(u, phone) ==
    \E t \in Threads : /\ op[t].kind = "committedPhones"
                       /\ u \in DOMAIN op[t].batch
                       /\ op[t].batch[u] # phone

\* A put that has executed and has not changed the cache entry yet: it holds
\* the lock.
Executed(u) == \E t \in Threads : At(t, "end") /\ op[t].user = u

(* What a cached (or looked up) contact may differ in from its row: what a *)
(* bulk put that is still to invalidate it has changed, and nothing else.  *)
Current(u, info) ==
    /\ \A f \in Fields : info[f] = rows[u][f]
    /\ \/ <<info.first, info.full>> = <<rows[u].first, rows[u].full>>
       \/ NamesPending(u)
    /\ info.phone = rows[u].phone \/ PhonePending(u, info.phone)
    /\ info.found = rows[u].found \/ NamesPending(u) \/ PhonePending(u, info.phone)

(* What is cached, or was looked up under the lock, never stays stale      *)
(* beyond the bulk put that made it so, whatever commits between a query   *)
(* and the caching of its result, and although PutManyRedactedPhones keeps *)
(* entries: no call that begins after a bulk put has returned works with   *)
(* the names or phones from before it (getContact, both bulk puts).        *)
StaleOnlyWhilePending ==
    /\ \A u \in Users : cache[u] # Absent => Executed(u) \/ Current(u, cache[u])
    /\ \A t \in Threads : op[t].kind = "one" => Current(op[t].user, op[t].info)

(* Types, and a cache that is stale only while it has to be.               *)
CacheInv == TypeOK /\ StaleOnlyWhilePending

(* PutContactName has stored the names when it returns, also if the cache  *)
(* made it skip the query, unless a bulk put of that contact is under way. *)
AckedNamesAreStored ==
    ret.kind = "named" =>
        \/ <<rows[ret.user].first, rows[ret.user].full>> = ret.args
        \/ NamesPending(ret.user)

(* The interface (store/store.go:105) has the full name before the first   *)
(* name: what a caller who goes by it stores.                              *)
StoredAsTheInterfaceSays ==
    ret.kind = "named" =>
        <<rows[ret.user].full, rows[ret.user].first>> = ret.args

(* Until the process restarts, the changes PutPushName and PutBusinessName *)
(* report form a chain, over failures and invalidations: each starts from  *)
(* what the last one ended with, so that no change is reported twice or    *)
(* missed (the bool and the previous name they return).                    *)
ReportsFormAChain ==
    [][ret'.kind = "changed" =>
          /\ ret'.previous = reported[ret'.user][ret'.field]
          /\ ret'.now # ret'.previous]_vars

=============================================================================
