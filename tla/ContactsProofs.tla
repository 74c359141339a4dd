--------------------------- MODULE ContactsProofs ---------------------------
(***************************************************************************)
(* Theorems about Contacts, for any contacts, texts, goroutines and        *)
(* batches: the cache is stale only while a bulk put is still to           *)
(* invalidate it, names are stored when PutContactName returns, and the    *)
(* changes that are reported form a chain.                                 *)
(***************************************************************************)
EXTENDS Contacts, TLAPS

-----------------------------------------------------------------------------
(* The inductive invariant, in named parts.                                *)

Replies ==
    [kind : {"changed"}, user : Users, field : Fields, previous : Value, now : Value]
    \cup [kind : {"named"}, user : Users, args : Value \X Value]

Calls ==
    [name : {"get"}]
    \cup [name : {"field"}, field : Fields, value : Value]
    \cup [name : {"names"}, first : Value, full : Value]
    \cup [name : {"end"}, reply : Replies]

Ops ==
    [kind : {"idle"}]
    \cup [kind : {"one"}, user : Users, call : Calls, info : Contact]
    \cup [kind : {"all"}, rows : [Users -> Contact]]
    \cup [kind : {"committedNames"}, batch : Batches(Names)]
    \cup [kind : {"committedPhones"}, batch : Batches(Phones)]

Types ==
    /\ rows \in [Users -> Contact]
    /\ cache \in [Users -> Contact \cup {Absent}]
    /\ lock \in Threads \cup {NoThread}
    /\ op \in [Threads -> Ops]
    /\ reported \in [Users -> [Fields -> Value]]

\* The calls for one contact and GetAllContacts hold the lock, and only they.
LockInv == \A t \in Threads : op[t].kind \in {"one", "all"} <=> lock = t

\* What GetAllContacts has read is as current as what is cached.
SnapshotIsCurrent ==
    \A t \in Threads : op[t].kind = "all" => \A u \in Users : Current(u, op[t].rows[u])

\* What a put that has executed is going to return.
ReplyIsRight ==
    \A t \in Threads : At(t, "end") =>
        LET r == op[t].call.reply
        IN  /\ r.user = op[t].user
            /\ r.kind = "named" => r.args = <<op[t].info.first, op[t].info.full>>
            /\ r.kind = "changed" => /\ r.previous = reported[r.user][r.field]
                                     /\ r.now = op[t].info[r.field]
                                     /\ r.now # r.previous

\* The names last reported are those of the row, except for the one that a
\* put has executed and is going to report.
ReportedIsStored ==
    \A u \in Users, f \in Fields :
        \/ reported[u][f] = rows[u][f]
        \/ \E t \in Threads : /\ At(t, "end") /\ op[t].user = u
                              /\ op[t].call.reply.kind = "changed"
                              /\ op[t].call.reply.field = f

IInv == /\ Types /\ LockInv /\ StaleOnlyWhilePending /\ SnapshotIsCurrent
        /\ ReplyIsRight /\ ReportedIsStored /\ AckedNamesAreStored
-----------------------------------------------------------------------------
(* What the operators return.                                              *)

ContactRecord == [found : BOOLEAN, first : Value, full : Value,
                  push : Value, business : Value, phone : Value]

\* A put of one field leaves a contact with that field, and the other columns.
LEMMA FieldPut ==
    ASSUME NEW c \in Contact, NEW f \in Fields, NEW v \in Value
    PROVE  /\ WithField(c, f, v) \in Contact
           /\ WithField(c, f, v).found /\ WithField(c, f, v)[f] = v
           /\ \A g \in Columns \ {f} : WithField(c, f, v)[g] = c[g]
<1>1. c \in ContactRecord
  BY DEF Contact, ContactRecord
<1>2. WithField(c, f, v) \in ContactRecord
  BY <1>1 DEF WithField, ContactRecord, Fields
<1>3. WithField(c, f, v).found /\ WithField(c, f, v)[f] = v
  BY <1>1 DEF WithField, ContactRecord, Fields
<1>4. WithField(c, f, v) \in Contact
  BY <1>2, <1>3 DEF Contact, ContactRecord
<1>5. \A g \in Columns \ {f} : WithField(c, f, v)[g] = c[g]
  BY <1>1 DEF WithField, ContactRecord, Columns
<1> QED BY <1>3, <1>4, <1>5

LEMMA NamesPut ==
    ASSUME NEW c \in Contact, NEW a \in Value, NEW b \in Value
    PROVE  LET d == WithNames(c, a, b)
           IN  /\ d \in Contact /\ d.found /\ d.first = a /\ d.full = b
               /\ d.push = c.push /\ d.business = c.business /\ d.phone = c.phone
<1>1. c \in ContactRecord
  BY DEF Contact, ContactRecord
<1>2. WithNames(c, a, b) \in ContactRecord
  BY <1>1 DEF WithNames, ContactRecord
<1> QED BY <1>1, <1>2 DEF WithNames, Contact, ContactRecord

LEMMA PhonePut ==
    ASSUME NEW c \in Contact, NEW p \in Value
    PROVE  LET d == [c EXCEPT !.phone = p, !.found = TRUE]
           IN  /\ d \in Contact /\ d.found /\ d.phone = p
               /\ d.first = c.first /\ d.full = c.full
               /\ d.push = c.push /\ d.business = c.business
<1>1. c \in ContactRecord
  BY DEF Contact, ContactRecord
<1>2. [c EXCEPT !.phone = p, !.found = TRUE] \in ContactRecord
  BY <1>1 DEF ContactRecord
<1> QED BY <1>1, <1>2 DEF Contact, ContactRecord

\* What a goroutine at a put or lookup has.
LEMMA OneOp ==
    ASSUME NEW o \in Ops, o.kind = "one"
    PROVE  /\ o \in [kind : {"one"}, user : Users, call : Calls, info : Contact]
           /\ o.user \in Users /\ o.call \in Calls /\ o.info \in Contact
BY DEF Ops

LEMMA OpKinds ==
    ASSUME NEW o \in Ops
    PROVE  /\ o.kind \in {"idle", "one", "all", "committedNames", "committedPhones"}
           /\ o.kind = "all" => o.rows \in [Users -> Contact]
           /\ o.kind = "committedNames" => o.batch \in Batches(Names)
           /\ o.kind = "committedPhones" => o.batch \in Batches(Phones)
BY DEF Ops

LEMMA CallKinds ==
    ASSUME NEW c \in Calls
    PROVE  /\ c.name = "field" => c.field \in Fields /\ c.value \in Value
           /\ c.name = "names" => c.first \in Value /\ c.full \in Value
           /\ c.name = "end" => c.reply \in Replies
BY DEF Calls

LEMMA BatchOf ==
    ASSUME NEW V, NEW b \in Batches(V)
    PROVE  DOMAIN b \subseteq Users /\ \A u \in DOMAIN b : b[u] \in V
BY DEF Batches

LEMMA InitInv == Init => IInv
<1> SUFFICES ASSUME Init PROVE IInv
  OBVIOUS
<1> USE DEF Init
<1>1. NoContact \in Contact /\ NoContact \in ContactRecord
  BY DEF NoContact, Contact, ContactRecord, Value, Columns
<1>2. Types
  BY <1>1 DEF Types, Ops, Idle, Value
<1>3. LockInv
  BY ContactsAssumption DEF LockInv, Idle
<1>4. StaleOnlyWhilePending /\ SnapshotIsCurrent /\ ReplyIsRight /\ AckedNamesAreStored
  BY DEF StaleOnlyWhilePending, SnapshotIsCurrent, ReplyIsRight, AckedNamesAreStored, At,
         Idle, NoReply
<1>5. ReportedIsStored
  BY DEF ReportedIsStored, NoContact, Fields
<1> QED BY <1>2, <1>3, <1>4, <1>5 DEF IInv

-----------------------------------------------------------------------------
(* What the steps have in common.                                          *)

\* While the lock is free nobody works with a contact.
LEMMA FreeLock ==
    ASSUME Types, LockInv, lock = NoThread
    PROVE  \A t \in Threads : op[t].kind \notin {"one", "all"}
BY ContactsAssumption DEF LockInv

\* Only one goroutine works with a contact.
LEMMA OneHolder ==
    ASSUME Types, LockInv, NEW t \in Threads, op[t].kind \in {"one", "all"}
    PROVE  lock = t /\ \A s \in Threads \ {t} : op[s].kind \notin {"one", "all"}
BY DEF LockInv

\* A step of a goroutine that has no bulk put under way leaves every bulk put
\* under way as it is.
LEMMA PendingStays ==
    ASSUME Types, NEW t \in Threads, NEW o, op' = [op EXCEPT ![t] = o],
           op[t].kind \notin {"committedNames", "committedPhones"}
    PROVE  /\ \A u \in Users : NamesPending(u) => NamesPending(u)'
           /\ \A u \in Users, p \in Value : PhonePending(u, p) => PhonePending(u, p)'
BY DEF Types, NamesPending, PhonePending

\* Then what was current stays so where the row is unchanged.
LEMMA CurrentStays ==
    ASSUME Types, NEW t \in Threads, NEW o, op' = [op EXCEPT ![t] = o],
           op[t].kind \notin {"committedNames", "committedPhones"},
           NEW u \in Users, NEW info \in Contact, rows'[u] = rows[u], Current(u, info)
    PROVE  Current(u, info)'
<1>1. info.phone \in Value
  BY DEF Contact
<1> QED
  BY <1>1, PendingStays DEF Current

LEMMA RowIsCurrent ==
    ASSUME Types, NEW u \in Users
    PROVE  Current(u, rows[u])
BY DEF Current

-----------------------------------------------------------------------------
(* Every step keeps the invariant: the queries under the lock.             *)

LEMMA LookupStep ==
    ASSUME IInv, NEW t \in Threads, NEW u \in Users,
           NEW call \in Calls, call.name # "end", Lookup(t, u, call)
    PROVE  IInv'
<1> DEFINE info == IF cache[u] = Absent THEN rows[u] ELSE cache[u]
           o    == [kind |-> "one", user |-> u, call |-> call, info |-> info]
<1>1. /\ op[t].kind = "idle" /\ lock = NoThread /\ lock' = t
      /\ op' = [op EXCEPT ![t] = o] /\ ret' = NoReply
      /\ UNCHANGED <<rows, cache, reported>>
  BY DEF Lookup, Become
<1>2. Types /\ LockInv
  BY DEF IInv
<1>3. info \in Contact /\ Current(u, info)
  <2>1. rows[u] \in Contact /\ (cache[u] # Absent => cache[u] \in Contact)
    BY <1>2 DEF Types
  <2>2. ~Executed(u)
    BY <1>1, <1>2, FreeLock DEF Executed, At
  <2> QED
    BY <2>1, <2>2, <1>2, RowIsCurrent DEF IInv, StaleOnlyWhilePending
<1> HIDE DEF info
<1>4. o \in Ops
  BY <1>3 DEF Ops
<1>5. /\ op'[t] = o
      /\ \A s \in Threads \ {t} : op'[s] = op[s] /\ op[s].kind \notin {"one", "all"}
  BY <1>1, <1>2, FreeLock DEF Types
<1> HIDE DEF o
<1>6. o.kind = "one" /\ o.user = u /\ o.info = info /\ o.call = call
  BY DEF o
<1>7. Types'
  BY <1>1, <1>2, <1>4 DEF Types
<1>8. LockInv'
  BY <1>1, <1>5, <1>6 DEF LockInv
<1>9. \A v \in Users, i \in Contact : Current(v, i) => Current(v, i)'
  BY <1>1, <1>2, CurrentStays
<1>10. StaleOnlyWhilePending'
  <2>1. (\A v \in Users : cache[v] # Absent => Current(v, cache[v]))'
    <3>1. \A v \in Users : ~Executed(v)
      BY <1>1, <1>2, FreeLock DEF Executed, At
    <3> QED
      BY <1>1, <1>2, <1>9, <3>1 DEF IInv, StaleOnlyWhilePending, Types
  <2>2. (\A s \in Threads : op[s].kind = "one" => Current(op[s].user, op[s].info))'
    BY <1>3, <1>5, <1>6, <1>9
  <2> QED
    BY <2>1, <2>2 DEF StaleOnlyWhilePending
<1>11. SnapshotIsCurrent'
  BY <1>5, <1>6 DEF SnapshotIsCurrent
<1>12. \A s \in Threads : ~At(s, "end") /\ ~At(s, "end")'
  BY <1>1, <1>5, <1>6, <1>2, FreeLock DEF At
<1>13. ReplyIsRight' /\ ReportedIsStored'
  BY <1>1, <1>12 DEF IInv, ReplyIsRight, ReportedIsStored
<1>14. AckedNamesAreStored'
  BY <1>1 DEF AckedNamesAreStored, NoReply
<1> QED
  BY <1>7, <1>8, <1>10, <1>11, <1>13, <1>14 DEF IInv

-----------------------------------------------------------------------------
(* The ends of the calls for one contact.                                  *)

LEMMA UnlockKeeps ==
    ASSUME IInv, NEW t \in Threads, NEW r, op[t].kind = "one", Unlock(t, r)
    PROVE  /\ cache' \in [Users -> Contact \cup {Absent}] /\ op' \in [Threads -> Ops]
           /\ lock' = NoThread /\ ret' = r /\ rows' = rows
           /\ LockInv' /\ StaleOnlyWhilePending' /\ SnapshotIsCurrent'
           /\ \A s \in Threads : ~At(s, "end")'
           /\ \A v \in Users, i \in Contact : Current(v, i) => Current(v, i)'
<1>1. /\ cache' = [cache EXCEPT ![op[t].user] = op[t].info] /\ lock' = NoThread
      /\ op' = [op EXCEPT ![t] = Idle] /\ ret' = r /\ rows' = rows
  BY DEF Unlock, Return
<1>2. Types /\ LockInv
  BY DEF IInv
<1>3. op[t].user \in Users /\ op[t].info \in Contact /\ Current(op[t].user, op[t].info)
  BY <1>2, OneOp DEF Types, IInv, StaleOnlyWhilePending
<1>4. Idle \in Ops /\ Idle.kind = "idle"
  BY DEF Idle, Ops
<1>5. /\ op'[t] = Idle
      /\ \A s \in Threads \ {t} : op'[s] = op[s] /\ op[s].kind \notin {"one", "all"}
  BY <1>1, <1>2, OneHolder DEF Types
<1>6. /\ cache' \in [Users -> Contact \cup {Absent}] /\ op' \in [Threads -> Ops]
      /\ cache'[op[t].user] = op[t].info
      /\ \A v \in Users \ {op[t].user} : cache'[v] = cache[v]
  BY <1>1, <1>2, <1>3, <1>4 DEF Types
<1>7. LockInv'
  BY <1>1, <1>4, <1>5, ContactsAssumption DEF LockInv
<1>8. \A v \in Users, i \in Contact : Current(v, i) => Current(v, i)'
  BY <1>1, <1>2, CurrentStays
<1>9. \A s \in Threads : ~At(s, "end")'
  BY <1>4, <1>5 DEF At
<1>10. StaleOnlyWhilePending'
  <2>1. (\A v \in Users : cache[v] # Absent => Current(v, cache[v]))'
    <3>1. \A v \in Users \ {op[t].user} : ~Executed(v)
      BY <1>5 DEF Executed, At
    <3>2. \A v \in Users \ {op[t].user} : cache[v] # Absent => Current(v, cache[v])
      BY <3>1 DEF IInv, StaleOnlyWhilePending
    <3>3. \A v \in Users \ {op[t].user} : cache[v] # Absent => cache[v] \in Contact
      BY <1>2 DEF Types
    <3> QED
      BY <1>3, <1>6, <1>8, <3>2, <3>3
  <2>2. (\A s \in Threads : op[s].kind = "one" => Current(op[s].user, op[s].info))'
    BY <1>4, <1>5
  <2> QED
    BY <2>1, <2>2 DEF StaleOnlyWhilePending
<1>11. SnapshotIsCurrent'
  BY <1>4, <1>5 DEF SnapshotIsCurrent
<1> QED
  BY <1>1, <1>6, <1>7, <1>8, <1>9, <1>10, <1>11

\* No reply is waiting while another call works with its contact.
LEMMA AllReported ==
    ASSUME IInv, \A s \in Threads : ~At(s, "end")
    PROVE  \A u \in Users, f \in Fields : reported[u][f] = rows[u][f]
BY DEF IInv, ReportedIsStored

LEMMA EndsStep ==
    ASSUME IInv, NEW t \in Threads,
           \/ GetContactEnds(t) \/ PutFieldSkips(t) \/ PutContactNameSkips(t) \/ ExecFails(t)
    PROVE  IInv'
<1>1. /\ op[t].kind = "one" /\ op[t].call.name # "end"
      /\ UNCHANGED reported
      /\ \E r : Unlock(t, r) /\ (r.kind = "named" => PutContactNameSkips(t) /\ r = NamesReply(t))
  BY DEF GetContactEnds, PutFieldSkips, PutContactNameSkips, ExecFails, At
<1>2. PICK r : Unlock(t, r) /\ (r.kind = "named" => PutContactNameSkips(t) /\ r = NamesReply(t))
  BY <1>1
<1>3. Types /\ LockInv
  BY DEF IInv
<1>4. \A s \in Threads : ~At(s, "end")
  BY <1>1, <1>3, OneHolder DEF At
<1>5. /\ cache' \in [Users -> Contact \cup {Absent}] /\ op' \in [Threads -> Ops]
      /\ lock' = NoThread /\ ret' = r /\ rows' = rows
      /\ LockInv' /\ StaleOnlyWhilePending' /\ SnapshotIsCurrent'
      /\ \A s \in Threads : ~At(s, "end")'
      /\ \A v \in Users, i \in Contact : Current(v, i) => Current(v, i)'
  BY <1>1, <1>2, UnlockKeeps
<1>6. Types'
  BY <1>1, <1>3, <1>5 DEF Types
<1>7. ReplyIsRight'
  BY <1>5 DEF ReplyIsRight
<1>8. ReportedIsStored'
  BY <1>1, <1>4, <1>5, AllReported DEF ReportedIsStored
<1>9. AckedNamesAreStored'
  <2> SUFFICES ASSUME r.kind = "named"
               PROVE  AckedNamesAreStored'
    BY <1>5 DEF AckedNamesAreStored
  <2>1. /\ r.user = op[t].user /\ r.args = <<op[t].info.first, op[t].info.full>>
    BY <1>2 DEF NamesReply, PutContactNameSkips, SameNames
  <2>2. op[t].user \in Users /\ op[t].info \in Contact /\ Current(op[t].user, op[t].info)
    BY <1>1, <1>3, OneOp DEF Types, IInv, StaleOnlyWhilePending
  <2>3. PICK v \in Users, i \in Contact : v = op[t].user /\ i = op[t].info
    BY <2>2
  <2>4. Current(v, i)'
    BY <1>5, <2>2, <2>3
  <2> QED
    BY <1>5, <2>1, <2>3, <2>4 DEF AckedNamesAreStored, Current
<1> QED
  BY <1>3, <1>5, <1>6, <1>7, <1>8, <1>9 DEF IInv

LEMMA PutEndsStep ==
    ASSUME IInv, NEW t \in Threads, PutEnds(t)
    PROVE  IInv'
<1> DEFINE r == op[t].call.reply
<1>1. /\ op[t].kind = "one" /\ op[t].call.name = "end" /\ Unlock(t, r)
      /\ reported' = IF r.kind = "changed"
                     THEN [reported EXCEPT ![r.user][r.field] = r.now] ELSE reported
  BY DEF PutEnds, At
<1>2. Types /\ LockInv
  BY DEF IInv
<1>3. PICK u \in Users, i \in Contact : u = op[t].user /\ i = op[t].info
  BY <1>1, <1>2, OneOp DEF Types
<1>4. r \in Replies
  BY <1>1, <1>2, OneOp, CallKinds DEF Types
<1>5. /\ cache' \in [Users -> Contact \cup {Absent}] /\ op' \in [Threads -> Ops]
      /\ lock' = NoThread /\ ret' = r /\ rows' = rows
      /\ LockInv' /\ StaleOnlyWhilePending' /\ SnapshotIsCurrent'
      /\ \A s \in Threads : ~At(s, "end")'
      /\ \A v \in Users, j \in Contact : Current(v, j) => Current(v, j)'
  BY <1>1, UnlockKeeps
<1>6. /\ r.user = u
      /\ r.kind = "named" => r.args = <<i.first, i.full>>
      /\ r.kind = "changed" => r.now = i[r.field]
  BY <1>1, <1>3 DEF IInv, ReplyIsRight, At
<1>7. Current(u, i) /\ Current(u, i)'
  BY <1>1, <1>3, <1>5 DEF IInv, StaleOnlyWhilePending
<1>8. /\ r.kind = "changed" => r.field \in Fields /\ r.now \in Value
  BY <1>4 DEF Replies
<1>9. reported' \in [Users -> [Fields -> Value]]
  BY <1>1, <1>2, <1>6, <1>8 DEF Types
<1>10. ReportedIsStored'
  <2>1. \A v \in Users, f \in Fields :
            reported[v][f] = rows[v][f] \/ (v = u /\ r.kind = "changed" /\ f = r.field)
    <3>1. \A s \in Threads : At(s, "end") => s = t
      BY <1>1, <1>2, OneHolder DEF At
    <3> QED
      BY <3>1, <1>3 DEF IInv, ReportedIsStored
  <2>2. r.kind = "changed" => r.now = rows[u][r.field]
    BY <1>6, <1>7, <1>8 DEF Current
  <2>3. \A v \in Users, f \in Fields : reported'[v][f] = rows[v][f]
    BY <1>1, <1>2, <1>6, <1>8, <2>1, <2>2 DEF Types
  <2> QED
    BY <1>5, <2>3 DEF ReportedIsStored
<1>11. AckedNamesAreStored'
  BY <1>5, <1>6, <1>7 DEF AckedNamesAreStored, Current
<1> QED
  BY <1>2, <1>5, <1>9, <1>10, <1>11 DEF IInv, Types, ReplyIsRight

-----------------------------------------------------------------------------
(* A put executes: its contact may differ from its cache entry until the   *)
(* call ends.                                                              *)

LEMMA ExecuteStep ==
    ASSUME IInv, NEW t \in Threads, op[t].kind = "one", op[t].call.name # "end",
           NEW row \in Contact, NEW info \in Contact, NEW reply \in Replies,
           Execute(t, row, info, reply),
           info.found = row.found,
           \A f \in Fields : info[f] = row[f],
           <<info.first, info.full>> = <<row.first, row.full>> \/ NamesPending(op[t].user),
           info.phone = row.phone \/ PhonePending(op[t].user, info.phone),
           reply.user = op[t].user,
           reply.kind = "named" => reply.args = <<info.first, info.full>>,
           reply.kind = "changed" => /\ reply.previous = rows[op[t].user][reply.field]
                                     /\ reply.now = info[reply.field]
                                     /\ reply.now # reply.previous,
           \A f \in Fields : \/ row[f] = rows[op[t].user][f]
                             \/ reply.kind = "changed" /\ f = reply.field
    PROVE  IInv'
<1> DEFINE call == [name |-> "end", reply |-> reply]
           o == [op[t] EXCEPT !.info = info, !.call = call]
<1>1. Types /\ LockInv
  BY DEF IInv
<1>2. PICK u \in Users : u = op[t].user
  BY <1>1, OneOp DEF Types
<1>3. /\ op[t] \in [kind : {"one"}, user : Users, call : Calls, info : Contact]
  BY <1>1, OneOp DEF Types
<1>4. call \in Calls /\ call.name = "end" /\ call.reply = reply
  BY DEF Calls
<1> HIDE DEF call
<1>5. o \in Ops /\ o.kind = "one" /\ o.user = u /\ o.info = info /\ o.call = call
  <2>1. o \in [kind : {"one"}, user : Users, call : Calls, info : Contact]
    BY <1>3, <1>4
  <2> QED
    BY <1>2, <1>3, <2>1 DEF Ops
<1>6. /\ rows' = [rows EXCEPT ![u] = row]
      /\ op' = [op EXCEPT ![t] = o] /\ ret' = NoReply
      /\ UNCHANGED <<cache, lock, reported>>
  BY <1>2 DEF Execute, Become, call
<1> HIDE DEF o
<1>7. /\ rows'[u] = row /\ \A v \in Users \ {u} : rows'[v] = rows[v]
      /\ op'[t] = o /\ \A s \in Threads \ {t} : op'[s] = op[s]
  BY <1>1, <1>6 DEF Types
<1>8. lock = t /\ \A s \in Threads \ {t} : op[s].kind \notin {"one", "all"}
  BY <1>1, OneHolder
<1>9. Types'
  BY <1>1, <1>5, <1>6 DEF Types
<1>10. LockInv'
  BY <1>5, <1>6, <1>7, <1>8 DEF LockInv
<1>11. Current(u, info)'
  BY <1>1, <1>2, <1>6, <1>7, PendingStays DEF Current, Contact
<1>12. \A v \in Users \ {u}, i \in Contact : Current(v, i) => Current(v, i)'
  BY <1>1, <1>6, <1>7, CurrentStays
<1>13. \A s \in Threads : ~At(s, "end")
  BY <1>8 DEF At
<1>14. At(t, "end")' /\ op'[t].user = u /\ \A s \in Threads \ {t} : ~At(s, "end")'
  BY <1>4, <1>5, <1>7, <1>8 DEF At
<1>15. StaleOnlyWhilePending'
  <2>1. Executed(u)'
    BY <1>14 DEF Executed
  <2>2. (\A v \in Users : cache[v] # Absent => Executed(v) \/ Current(v, cache[v]))'
    <3>1. \A v \in Users \ {u} : cache[v] # Absent => cache[v] \in Contact /\ Current(v, cache[v])
      BY <1>1, <1>13 DEF IInv, StaleOnlyWhilePending, Executed, Types
    <3> QED
      BY <1>6, <1>12, <2>1, <3>1
  <2>3. (\A s \in Threads : op[s].kind = "one" => Current(op[s].user, op[s].info))'
    BY <1>5, <1>7, <1>8, <1>11
  <2> QED
    BY <2>2, <2>3 DEF StaleOnlyWhilePending
<1>16. SnapshotIsCurrent'
  BY <1>5, <1>7, <1>8 DEF SnapshotIsCurrent
<1>17. \A v \in Users, f \in Fields : reported[v][f] = rows[v][f]
  BY <1>13, AllReported
<1>18. ReplyIsRight'
  BY <1>2, <1>4, <1>5, <1>6, <1>7, <1>14, <1>17 DEF ReplyIsRight, Replies
<1>19. ReportedIsStored'
  BY <1>2, <1>4, <1>5, <1>6, <1>7, <1>14, <1>17 DEF ReportedIsStored
<1>20. AckedNamesAreStored'
  BY <1>6 DEF AckedNamesAreStored, NoReply
<1> QED
  BY <1>9, <1>10, <1>15, <1>16, <1>18, <1>19, <1>20 DEF IInv

LEMMA PutExecutesStep ==
    ASSUME IInv, NEW t \in Threads, PutFieldExecutes(t) \/ PutContactNameExecutes(t)
    PROVE  IInv'
<1>1. op[t].kind = "one" /\ Types
  BY DEF PutFieldExecutes, PutContactNameExecutes, At, IInv
<1>2. /\ op[t].user \in Users /\ op[t].call \in Calls /\ op[t].info \in Contact
      /\ rows[op[t].user] \in Contact
  BY <1>1, OneOp DEF Types
<1>3. Current(op[t].user, op[t].info)
  BY <1>1 DEF IInv, StaleOnlyWhilePending
<1>4. CASE PutFieldExecutes(t)
  <2> DEFINE f == op[t].call.field
             v == op[t].call.value
             row == WithField(rows[op[t].user], f, v)
             info == WithField(op[t].info, f, v)
  <2>1. /\ op[t].call.name = "field" /\ op[t].info[f] # v
        /\ Execute(t, row, info, FieldReply(t))
    BY <1>4 DEF PutFieldExecutes, At
  <2>2. f \in Fields /\ v \in Value
    BY <1>2, <2>1, CallKinds
  <2>3. /\ row \in Contact /\ row.found /\ row[f] = v
        /\ \A g \in Columns \ {f} : row[g] = rows[op[t].user][g]
    BY <1>2, <2>2, FieldPut
  <2>4. /\ info \in Contact /\ info.found /\ info[f] = v
        /\ \A g \in Columns \ {f} : info[g] = op[t].info[g]
    BY <1>2, <2>2, FieldPut
  <2>5. op[t].info[f] \in Value /\ op[t].info[f] = rows[op[t].user][f]
    BY <1>2, <1>3, <2>2 DEF Contact, Current, Fields
  <2>6. /\ FieldReply(t) \in Replies /\ FieldReply(t).user = op[t].user
        /\ FieldReply(t).kind = "changed" /\ FieldReply(t).field = f
        /\ FieldReply(t).now = v /\ FieldReply(t).previous = op[t].info[f]
    BY <1>2, <2>2, <2>5 DEF FieldReply, Replies
  <2>7. "first" \in Columns \ {f} /\ "full" \in Columns \ {f} /\ "phone" \in Columns \ {f}
        /\ Fields \subseteq Columns
    BY <2>2 DEF Columns, Fields
  <2> HIDE DEF row, info, f, v
  <2>8. info.found = row.found
    BY <2>3, <2>4 DEF Contact
  <2>9. \A g \in Fields : info[g] = row[g]
    BY <1>3, <2>3, <2>4, <2>7 DEF Current
  <2>10. /\ <<info.first, info.full>> = <<row.first, row.full>> \/ NamesPending(op[t].user)
         /\ info.phone = row.phone \/ PhonePending(op[t].user, info.phone)
    BY <1>3, <2>3, <2>4, <2>7 DEF Current
  <2>11. \A g \in Fields : row[g] = rows[op[t].user][g] \/ g = FieldReply(t).field
    BY <2>3, <2>6, <2>7
  <2>12. PICK y \in Replies, d \in Contact, i \in Contact :
             y = FieldReply(t) /\ d = row /\ i = info
    BY <2>3, <2>4, <2>6
  <2>13. /\ op[t].call.name # "end" /\ Execute(t, d, i, y)
         /\ i.found = d.found /\ \A g \in Fields : i[g] = d[g]
         /\ <<i.first, i.full>> = <<d.first, d.full>> \/ NamesPending(op[t].user)
         /\ i.phone = d.phone \/ PhonePending(op[t].user, i.phone)
    BY <2>1, <2>8, <2>9, <2>10, <2>12
  <2>14. /\ y.user = op[t].user /\ y.kind # "named"
         /\ y.previous = rows[op[t].user][y.field] /\ y.now = i[y.field]
         /\ y.now # y.previous
         /\ \A g \in Fields : \/ d[g] = rows[op[t].user][g]
                              \/ y.kind = "changed" /\ g = y.field
    BY <2>1, <2>4, <2>5, <2>6, <2>11, <2>12
  <2> QED
    BY <1>1, <2>13, <2>14, ExecuteStep
<1>5. CASE PutContactNameExecutes(t)
  <2> DEFINE a == op[t].call.first
             b == op[t].call.full
             row == WithNames(rows[op[t].user], a, b)
             info == WithNames(op[t].info, a, b)
  <2>1. op[t].call.name = "names" /\ Execute(t, row, info, NamesReply(t))
    BY <1>5 DEF PutContactNameExecutes, At
  <2>2. a \in Value /\ b \in Value
    BY <1>2, <2>1, CallKinds
  <2>3. /\ row \in Contact /\ row.found /\ row.first = a /\ row.full = b
        /\ row.push = rows[op[t].user].push /\ row.business = rows[op[t].user].business
        /\ row.phone = rows[op[t].user].phone
    BY <1>2, <2>2, NamesPut
  <2>4. /\ info \in Contact /\ info.found /\ info.first = a /\ info.full = b
        /\ info.push = op[t].info.push /\ info.business = op[t].info.business
        /\ info.phone = op[t].info.phone
    BY <1>2, <2>2, NamesPut
  <2>5. /\ NamesReply(t) \in Replies /\ NamesReply(t).user = op[t].user
        /\ NamesReply(t).kind = "named" /\ NamesReply(t).args = <<a, b>>
    BY <1>2, <2>2 DEF NamesReply, Replies
  <2> HIDE DEF row, info, a, b
  <2>6. info.found = row.found
    BY <2>3, <2>4 DEF Contact
  <2>7. \A g \in Fields : info[g] = row[g] /\ row[g] = rows[op[t].user][g]
    BY <1>3, <2>3, <2>4 DEF Current, Fields
  <2>8. info.phone = row.phone \/ PhonePending(op[t].user, info.phone)
    BY <1>3, <2>3, <2>4 DEF Current
  <2>9. PICK y \in Replies, d \in Contact, i \in Contact :
            y = NamesReply(t) /\ d = row /\ i = info
    BY <2>3, <2>4, <2>5
  <2>10. /\ op[t].call.name # "end" /\ Execute(t, d, i, y)
         /\ i.found = d.found /\ \A g \in Fields : i[g] = d[g]
         /\ <<i.first, i.full>> = <<d.first, d.full>>
         /\ i.phone = d.phone \/ PhonePending(op[t].user, i.phone)
         /\ y.user = op[t].user /\ y.kind = "named" /\ y.args = <<i.first, i.full>>
         /\ \A g \in Fields : d[g] = rows[op[t].user][g]
    BY <2>1, <2>3, <2>4, <2>5, <2>6, <2>7, <2>8, <2>9
  <2> QED
    BY <1>1, <2>10, ExecuteStep
<1> QED
  BY <1>4, <1>5

-----------------------------------------------------------------------------
(* GetAllContacts.                                                         *)

LEMMA QueryAllStep ==
    ASSUME IInv, NEW t \in Threads, QueryAll(t)
    PROVE  IInv'
<1> DEFINE o == [kind |-> "all", rows |-> rows]
<1>1. /\ op[t].kind = "idle" /\ lock = NoThread /\ lock' = t
      /\ op' = [op EXCEPT ![t] = o] /\ ret' = NoReply
      /\ UNCHANGED <<rows, cache, reported>>
  BY DEF QueryAll, Become
<1>2. Types /\ LockInv
  BY DEF IInv
<1>3. o \in Ops /\ o.kind = "all" /\ o.rows = rows
  BY <1>2 DEF Ops, Types
<1> HIDE DEF o
<1>4. /\ op'[t] = o
      /\ \A s \in Threads \ {t} : op'[s] = op[s] /\ op[s].kind \notin {"one", "all"}
  BY <1>1, <1>2, FreeLock DEF Types
<1>5. Types'
  BY <1>1, <1>2, <1>3 DEF Types
<1>6. LockInv'
  BY <1>1, <1>3, <1>4 DEF LockInv
<1>7. \A v \in Users, i \in Contact : Current(v, i) => Current(v, i)'
  BY <1>1, <1>2, CurrentStays
<1>8. \A s \in Threads : ~At(s, "end") /\ ~At(s, "end")'
  BY <1>1, <1>2, <1>3, <1>4, FreeLock DEF At
<1>9. StaleOnlyWhilePending'
  <2>1. \A v \in Users : cache[v] # Absent => cache[v] \in Contact /\ Current(v, cache[v])
    BY <1>2, <1>8 DEF IInv, StaleOnlyWhilePending, Executed, Types
  <2> QED
    BY <1>1, <1>3, <1>4, <1>7, <2>1 DEF StaleOnlyWhilePending
<1>10. SnapshotIsCurrent'
  <2>1. (\A u \in Users : Current(u, rows[u]))'
    BY DEF Current
  <2> QED
    BY <1>1, <1>3, <1>4, <2>1 DEF SnapshotIsCurrent
<1>11. ReplyIsRight' /\ ReportedIsStored'
  BY <1>1, <1>8 DEF IInv, ReplyIsRight, ReportedIsStored
<1>12. AckedNamesAreStored'
  BY <1>1 DEF AckedNamesAreStored, NoReply
<1> QED
  BY <1>5, <1>6, <1>9, <1>10, <1>11, <1>12 DEF IInv

\* A call without a contact of its own ends, and the cache becomes `new': the
\* entries it leaves have to be current.
LEMMA ReplaceStep ==
    ASSUME IInv, NEW t \in Threads, NEW new, NEW r, Replace(t, new, r),
           op[t].kind # "one", lock = NoThread \/ op[t].kind = "all",
           r.kind # "named", new \in [Users -> Contact \cup {Absent}],
           (\A v \in Users : new[v] # Absent => Current(v, new[v]))'
    PROVE  IInv'
<1>1. /\ cache' = new /\ lock' = NoThread /\ op' = [op EXCEPT ![t] = Idle] /\ ret' = r
      /\ UNCHANGED <<rows, reported>>
  BY DEF Replace, Return
<1>2. Types /\ LockInv
  BY DEF IInv
<1>3. Idle \in Ops /\ Idle.kind = "idle"
  BY DEF Idle, Ops
<1>4. /\ op'[t] = Idle
      /\ \A s \in Threads \ {t} : op'[s] = op[s] /\ op[s].kind \notin {"one", "all"}
  BY <1>1, <1>2, FreeLock, OneHolder DEF Types
<1>5. Types'
  BY <1>1, <1>2, <1>3 DEF Types
<1>6. LockInv'
  BY <1>1, <1>3, <1>4, ContactsAssumption DEF LockInv
<1>7. \A s \in Threads : ~At(s, "end") /\ ~At(s, "end")'
  BY <1>3, <1>4 DEF At
<1>8. StaleOnlyWhilePending' /\ SnapshotIsCurrent'
  BY <1>1, <1>3, <1>4 DEF StaleOnlyWhilePending, SnapshotIsCurrent
<1>9. ReplyIsRight' /\ ReportedIsStored'
  BY <1>1, <1>7 DEF IInv, ReplyIsRight, ReportedIsStored
<1>10. AckedNamesAreStored'
  BY <1>1 DEF AckedNamesAreStored
<1> QED
  BY <1>5, <1>6, <1>8, <1>9, <1>10 DEF IInv

LEMMA GetAllContactsStep ==
    ASSUME IInv, NEW t \in Threads, GetAllContacts(t)
    PROVE  IInv'
<1>1. op[t].kind = "all"
  BY DEF GetAllContacts
<1>2. PICK U \in SUBSET Users, kind \in {"error", "all"} :
          Replace(t, [u \in Users |-> IF u \in U THEN op[t].rows[u] ELSE cache[u]],
                  [kind |-> kind])
  BY DEF GetAllContacts
<1>3. Types /\ LockInv
  BY DEF IInv
<1>4. op[t].rows \in [Users -> Contact] /\ \A u \in Users : Current(u, op[t].rows[u])
  BY <1>1, <1>3, OpKinds DEF Types, IInv, SnapshotIsCurrent
<1>5. \A s \in Threads : ~At(s, "end")
  BY <1>1, <1>3, OneHolder DEF At
<1>6. \A u \in Users : cache[u] # Absent => cache[u] \in Contact /\ Current(u, cache[u])
  BY <1>3, <1>5 DEF IInv, StaleOnlyWhilePending, Executed, Types
<1>7. PICK new \in [Users -> Contact \cup {Absent}] :
          /\ new = [u \in Users |-> IF u \in U THEN op[t].rows[u] ELSE cache[u]]
          /\ \A u \in Users : new[u] # Absent => new[u] \in Contact /\ Current(u, new[u])
  <2> DEFINE n == [u \in Users |-> IF u \in U THEN op[t].rows[u] ELSE cache[u]]
  <2>1. n \in [Users -> Contact \cup {Absent}]
    BY <1>3, <1>4 DEF Types
  <2>2. \A u \in Users : n[u] # Absent => n[u] \in Contact /\ Current(u, n[u])
    BY <1>4, <1>6
  <2> QED
    BY <2>1, <2>2
<1>8. rows' = rows /\ op' = [op EXCEPT ![t] = Idle]
  BY <1>2 DEF Replace, Return
<1>9. (\A u \in Users : new[u] # Absent => Current(u, new[u]))'
  BY <1>1, <1>3, <1>7, <1>8, CurrentStays
<1>10. PICK r : r = [kind |-> kind] /\ r.kind # "named"
  BY <1>2
<1> QED
  BY <1>1, <1>2, <1>7, <1>9, <1>10, ReplaceStep

-----------------------------------------------------------------------------
(* The bulk puts.                                                          *)

\* A commit changes no push or business name; whatever it makes stale waits
\* for its invalidation.
LEMMA CommitStep ==
    ASSUME IInv, NEW t \in Threads, NEW o \in Ops, op[t].kind = "idle",
           o.kind \in {"committedNames", "committedPhones"},
           op' = [op EXCEPT ![t] = o], ret' = NoReply, UNCHANGED <<cache, lock, reported>>,
           rows' \in [Users -> Contact],
           \A u \in Users, f \in Fields : rows'[u][f] = rows[u][f],
           \A u \in Users, i \in Contact : Current(u, i) => Current(u, i)'
    PROVE  IInv'
<1>1. Types /\ LockInv
  BY DEF IInv
<1>2. op'[t] = o /\ \A s \in Threads \ {t} : op'[s] = op[s]
  BY <1>1 DEF Types
<1>3. Types'
  BY <1>1 DEF Types
<1>4. LockInv'
  BY <1>1, <1>2 DEF LockInv
<1>5. \A s \in Threads : At(s, "end") <=> s # t /\ At(s, "end")'
  BY <1>2 DEF At
<1>6. StaleOnlyWhilePending'
  <2>1. \A u \in Users : Executed(u) => Executed(u)'
    BY <1>2, <1>5 DEF Executed
  <2>2. (\A u \in Users : cache[u] # Absent => Executed(u) \/ Current(u, cache[u]))'
    BY <1>1, <2>1 DEF IInv, StaleOnlyWhilePending, Types
  <2>3. \A s \in Threads \ {t} : op[s].kind = "one" =>
            op[s].user \in Users /\ op[s].info \in Contact /\ Current(op[s].user, op[s].info)
    BY <1>1, OneOp DEF IInv, StaleOnlyWhilePending, Types
  <2>4. (\A s \in Threads : op[s].kind = "one" => Current(op[s].user, op[s].info))'
    BY <1>2, <2>3
  <2> QED
    BY <2>2, <2>4 DEF StaleOnlyWhilePending
<1>7. SnapshotIsCurrent'
  <2>1. \A s \in Threads \ {t} : op[s].kind = "all" =>
            \A u \in Users : op[s].rows[u] \in Contact /\ Current(u, op[s].rows[u])
    BY <1>1, OpKinds DEF IInv, SnapshotIsCurrent, Types
  <2> QED
    BY <1>2, <2>1 DEF SnapshotIsCurrent
<1>8. ReplyIsRight'
  BY <1>2, <1>5 DEF IInv, ReplyIsRight, At
<1>9. ReportedIsStored'
  BY <1>2, <1>5 DEF IInv, ReportedIsStored, At
<1>10. AckedNamesAreStored'
  BY DEF AckedNamesAreStored, NoReply
<1> QED
  BY <1>3, <1>4, <1>6, <1>7, <1>8, <1>9, <1>10 DEF IInv

LEMMA CommitNamesStep ==
    ASSUME IInv, NEW t \in Threads, NEW batch \in Batches(Names), CommitNames(t, batch)
    PROVE  IInv'
<1> DEFINE o == [kind |-> "committedNames", batch |-> batch]
<1>1. /\ op[t].kind = "idle"
      /\ rows' = [u \in Users |->
                     IF u \in DOMAIN batch
                     THEN WithNames(rows[u], batch[u][1], batch[u][2]) ELSE rows[u]]
      /\ op' = [op EXCEPT ![t] = o] /\ ret' = NoReply /\ UNCHANGED <<cache, lock, reported>>
  BY DEF CommitNames, Become
<1>2. Types
  BY DEF IInv
<1>3. o \in Ops /\ o.kind = "committedNames" /\ o.batch = batch
  BY DEF Ops
<1> HIDE DEF o
<1>4. \A u \in DOMAIN batch : u \in Users /\ batch[u][1] \in Value /\ batch[u][2] \in Value
  BY BatchOf, ContactsAssumption DEF Value
<1>5. \A u \in DOMAIN batch :
          LET d == WithNames(rows[u], batch[u][1], batch[u][2])
          IN  /\ d \in Contact /\ d.push = rows[u].push /\ d.business = rows[u].business
              /\ d.phone = rows[u].phone
  BY <1>2, <1>4, NamesPut DEF Types
<1>6. \A u \in Users : /\ rows'[u] \in Contact /\ rows'[u].push = rows[u].push
                       /\ rows'[u].business = rows[u].business
                       /\ rows'[u].phone = rows[u].phone
                       /\ u \notin DOMAIN batch => rows'[u] = rows[u]
  BY <1>1, <1>2, <1>5 DEF Types
<1>7. rows' \in [Users -> Contact]
  BY <1>1, <1>6
<1>8. \A u \in Users, f \in Fields : rows'[u][f] = rows[u][f]
  BY <1>6 DEF Fields
<1>9. \A u \in DOMAIN batch : NamesPending(u)'
  BY <1>1, <1>2, <1>3 DEF NamesPending, Types
<1>10. \A u \in Users, i \in Contact : Current(u, i) => Current(u, i)'
  <2> SUFFICES ASSUME NEW u \in Users, NEW i \in Contact, Current(u, i)
               PROVE  Current(u, i)'
    OBVIOUS
  <2>1. CASE u \notin DOMAIN batch
    BY <1>1, <1>2, <1>6, <2>1, CurrentStays
  <2>2. CASE u \in DOMAIN batch
    <3>1. PhonePending(u, i.phone) => PhonePending(u, i.phone)'
      BY <1>1, <1>2, PendingStays DEF Contact
    <3> QED
      BY <1>6, <1>8, <1>9, <2>2, <3>1 DEF Current
  <2> QED
    BY <2>1, <2>2
<1> QED
  BY <1>1, <1>3, <1>7, <1>8, <1>10, CommitStep

LEMMA CommitPhonesStep ==
    ASSUME IInv, NEW t \in Threads, NEW batch \in Batches(Phones), CommitPhones(t, batch)
    PROVE  IInv'
<1> DEFINE o == [kind |-> "committedPhones", batch |-> batch]
<1>1. /\ op[t].kind = "idle"
      /\ rows' = [u \in Users |->
                     IF u \in DOMAIN batch
                     THEN [rows[u] EXCEPT !.phone = batch[u], !.found = TRUE] ELSE rows[u]]
      /\ op' = [op EXCEPT ![t] = o] /\ ret' = NoReply /\ UNCHANGED <<cache, lock, reported>>
  BY DEF CommitPhones, Become
<1>2. Types
  BY DEF IInv
<1>3. o \in Ops /\ o.kind = "committedPhones" /\ o.batch = batch
  BY DEF Ops
<1> HIDE DEF o
<1>4. \A u \in DOMAIN batch : u \in Users /\ batch[u] \in Texts
  BY BatchOf, ContactsAssumption
<1>5. \A u \in DOMAIN batch :
          LET d == [rows[u] EXCEPT !.phone = batch[u], !.found = TRUE]
          IN  /\ d \in Contact /\ d.found /\ d.phone = batch[u]
              /\ d.first = rows[u].first /\ d.full = rows[u].full
              /\ d.push = rows[u].push /\ d.business = rows[u].business
  BY <1>2, <1>4, PhonePut DEF Types, Value
<1>6. \A u \in Users : /\ rows'[u] \in Contact /\ rows'[u].push = rows[u].push
                       /\ rows'[u].business = rows[u].business
                       /\ rows'[u].first = rows[u].first /\ rows'[u].full = rows[u].full
                       /\ u \in DOMAIN batch => rows'[u].found /\ rows'[u].phone = batch[u]
                       /\ u \notin DOMAIN batch => rows'[u] = rows[u]
  BY <1>1, <1>2, <1>5 DEF Types
<1>7. rows' \in [Users -> Contact]
  BY <1>1, <1>6
<1>8. \A u \in Users, f \in Fields : rows'[u][f] = rows[u][f]
  BY <1>6 DEF Fields
<1>9. \A u \in DOMAIN batch, p \in Value : p # batch[u] => PhonePending(u, p)'
  BY <1>1, <1>2, <1>3 DEF PhonePending, Types
<1>10. \A u \in Users, i \in Contact : Current(u, i) => Current(u, i)'
  <2> SUFFICES ASSUME NEW u \in Users, NEW i \in Contact, Current(u, i)
               PROVE  Current(u, i)'
    OBVIOUS
  <2>1. CASE u \notin DOMAIN batch
    BY <1>1, <1>2, <1>6, <2>1, CurrentStays
  <2>2. CASE u \in DOMAIN batch
    <3>1. NamesPending(u) => NamesPending(u)'
      BY <1>1, <1>2, PendingStays
    <3>2. i.phone \in Value
      BY DEF Contact
    <3>3. i.phone = rows'[u].phone \/ PhonePending(u, i.phone)'
      BY <1>6, <1>9, <2>2, <3>2
    <3>4. i.found = rows'[u].found \/ PhonePending(u, i.phone)'
      <4>1. CASE i.found
        BY <1>6, <2>2, <4>1 DEF Contact
      <4>2. CASE ~i.found
        <5>1. i.phone = NoText
          BY <4>2 DEF Contact, Columns
        <5> QED
          BY <1>4, <1>9, <2>2, <3>2, <5>1, ContactsAssumption
      <4> QED
        BY <4>1, <4>2
    <3> QED
      BY <1>6, <1>8, <3>1, <3>3, <3>4 DEF Current
  <2> QED
    BY <2>1, <2>2
<1> QED
  BY <1>1, <1>3, <1>7, <1>8, <1>10, CommitStep

LEMMA ClearCacheStep ==
    ASSUME IInv, NEW t \in Threads, ClearCache(t)
    PROVE  IInv'
<1>1. PICK new, r : /\ new = [u \in Users |-> Absent] /\ r = [kind |-> "bulk"]
                    /\ Replace(t, new, r)
  BY DEF ClearCache
<1>2. /\ op[t].kind # "one" /\ lock = NoThread /\ r.kind # "named"
      /\ new \in [Users -> Contact \cup {Absent}]
  BY <1>1 DEF ClearCache
<1>3. (\A u \in Users : new[u] # Absent => Current(u, new[u]))'
  BY <1>1
<1> QED
  BY <1>1, <1>2, <1>3, ReplaceStep

\* An entry that is kept has the phone of the batch, so that it does not wait
\* for this invalidation.
LEMMA DropOutdatedStep ==
    ASSUME IInv, NEW t \in Threads, DropOutdated(t)
    PROVE  IInv'
<1> DEFINE b == op[t].batch
<1>1. PICK new, r : /\ new = [u \in Users |-> IF Outdated(u, b) THEN Absent ELSE cache[u]]
                    /\ r = [kind |-> "bulk"] /\ Replace(t, new, r)
  BY DEF DropOutdated
<1>2. Types /\ LockInv
  BY DEF IInv
<1>3. /\ op[t].kind = "committedPhones" /\ lock = NoThread /\ r.kind # "named"
      /\ new \in [Users -> Contact \cup {Absent}]
  BY <1>1, <1>2 DEF DropOutdated, Types
<1>4. rows' = rows /\ op' = [op EXCEPT ![t] = Idle]
  BY <1>1 DEF Replace, Return
<1>5. \A s \in Threads \ {t} : op'[s] = op[s]
  BY <1>2, <1>4 DEF Types
<1>6. \A u \in Users : NamesPending(u) => NamesPending(u)'
  BY <1>3, <1>5 DEF NamesPending
<1>7. \A u \in Users, p \in Value :
          PhonePending(u, p) => PhonePending(u, p)' \/ (u \in DOMAIN b /\ b[u] # p)
  BY <1>5 DEF PhonePending
<1>8. \A u \in Users : new[u] # Absent =>
          /\ new[u] \in Contact /\ Current(u, new[u])
          /\ ~(u \in DOMAIN b /\ b[u] # new[u].phone)
  <2>1. \A u \in Users : ~Executed(u)
    BY <1>2, <1>3, FreeLock DEF Executed, At
  <2> QED
    BY <1>1, <1>2, <2>1 DEF Outdated, IInv, StaleOnlyWhilePending, Types
<1>9. (\A u \in Users : new[u] # Absent => Current(u, new[u]))'
  <2> SUFFICES ASSUME NEW u \in Users, new[u] # Absent
               PROVE  Current(u, new[u])'
    OBVIOUS
  <2>1. new[u].phone \in Value
    BY <1>8 DEF Contact
  <2> QED
    BY <1>4, <1>6, <1>7, <1>8, <2>1 DEF Current
<1> QED
  BY <1>1, <1>3, <1>9, ReplaceStep

LEMMA RestartStep ==
    ASSUME IInv, Restart
    PROVE  IInv'
<1> USE DEF Restart
<1>1. Types
  BY DEF IInv
<1>2. \A u \in Users, f \in Fields : rows[u][f] \in Value
  BY <1>1 DEF Types, Contact, Fields
<1>3. Types'
  BY <1>1, <1>2 DEF Types, Ops, Idle
<1>4. LockInv'
  BY ContactsAssumption DEF LockInv, Idle
<1>5. StaleOnlyWhilePending' /\ SnapshotIsCurrent' /\ ReplyIsRight' /\ AckedNamesAreStored'
  BY DEF StaleOnlyWhilePending, SnapshotIsCurrent, ReplyIsRight, AckedNamesAreStored, At,
         Idle, NoReply
<1>6. ReportedIsStored'
  BY DEF ReportedIsStored
<1> QED
  BY <1>3, <1>4, <1>5, <1>6 DEF IInv

LEMMA StutterStep == IInv /\ UNCHANGED vars => IInv'
BY DEF IInv, Types, LockInv, StaleOnlyWhilePending, SnapshotIsCurrent, ReplyIsRight,
       ReportedIsStored, AckedNamesAreStored, Current, NamesPending, PhonePending, Executed,
       At, vars

LEMMA CallStep ==
    ASSUME IInv, NEW t \in Threads, Call(t)
    PROVE  IInv'
<1>1. ASSUME NEW u \in Users, GetContact(t, u)
      PROVE  IInv'
  BY <1>1, LookupStep DEF GetContact, Calls
<1>2. ASSUME NEW u \in Users, NEW f \in Fields, NEW v \in Value, PutField(t, u, f, v)
      PROVE  IInv'
  BY <1>2, LookupStep DEF PutField, Calls
<1>3. ASSUME NEW u \in Users, NEW n \in Names, PutContactName(t, u, n[1], n[2])
      PROVE  IInv'
  <2>1. n[1] \in Value /\ n[2] \in Value
    BY ContactsAssumption DEF Value
  <2> QED
    BY <1>3, <2>1, LookupStep DEF PutContactName, Calls
<1> QED
  BY <1>1, <1>2, <1>3, QueryAllStep, CommitNamesStep, CommitPhonesStep DEF Call

LEMMA InvStep == IInv /\ [Next]_vars => IInv'
<1> SUFFICES ASSUME IInv, [Next]_vars
             PROVE  IInv'
  OBVIOUS
<1>1. ASSUME NEW t \in Threads, Finish(t) \/ ExecFails(t)
      PROVE  IInv'
  BY <1>1, EndsStep, PutExecutesStep, PutEndsStep, GetAllContactsStep, ClearCacheStep,
     DropOutdatedStep DEF Finish
<1> QED
  BY <1>1, CallStep, RestartStep, StutterStep DEF Next

-----------------------------------------------------------------------------
(* The theorems.                                                           *)

(* The invariant holds in every state.                                     *)
THEOREM InductiveInvariant == Spec => []IInv
  BY InitInv, InvStep, PTL DEF Spec

(* What is cached or was looked up differs from the table only in what a   *)
(* bulk put under way is still to invalidate (getContact, both bulk puts). *)
THEOREM CacheIsCurrent == Spec => []CacheInv
<1>1. IInv => CacheInv
  <2>1. Types => TypeOK
    <3> SUFFICES ASSUME Types PROVE TypeOK
      OBVIOUS
    <3>1. \A t \in Threads :
              op[t].kind \in {"idle", "one", "all", "committedNames", "committedPhones"}
      BY OpKinds DEF Types
    <3> QED
      BY <3>1 DEF Types, TypeOK
  <2> QED
    BY <2>1 DEF IInv, CacheInv
<1> QED
  BY <1>1, InductiveInvariant, PTL

(* Names that PutContactName has acknowledged are stored, whether it found *)
(* them in the cache or executed, except under a bulk put of the contact.  *)
THEOREM NamesAreStored == Spec => []AckedNamesAreStored
<1>1. IInv => AckedNamesAreStored
  BY DEF IInv
<1> QED
  BY <1>1, InductiveInvariant, PTL

(* A change that PutPushName or PutBusinessName reports starts from what   *)
(* was last reported for that contact, and is a change.                    *)
THEOREM ReportsChain == Spec => ReportsFormAChain
<1>1. IInv /\ [Next]_vars =>
        [ret'.kind = "changed" =>
            /\ ret'.previous = reported[ret'.user][ret'.field]
            /\ ret'.now # ret'.previous]_vars
  <2> SUFFICES ASSUME IInv, Next, ret'.kind = "changed"
               PROVE  /\ ret'.previous = reported[ret'.user][ret'.field]
                      /\ ret'.now # ret'.previous
    OBVIOUS
  <2>1. PICK t \in Threads : PutEnds(t)
    <3>1. ASSUME NEW t \in Threads, Call(t)
          PROVE  ret' = NoReply
      <4>1. ASSUME NEW o, Become(t, o)
            PROVE  ret' = NoReply
        BY <4>1 DEF Become
      <4>2. ASSUME NEW u, NEW call, Lookup(t, u, call)
            PROVE  ret' = NoReply
        BY <4>1, <4>2 DEF Lookup
      <4> QED
        BY <3>1, <4>1, <4>2 DEF Call, GetContact, PutField, PutContactName, QueryAll,
                                CommitNames, CommitPhones
    <3>2. ASSUME NEW t \in Threads, Finish(t) \/ ExecFails(t)
          PROVE  PutEnds(t)
      BY <3>2 DEF Finish, GetContactEnds, PutFieldExecutes, PutContactNameExecutes,
                  PutFieldSkips, PutContactNameSkips, GetAllContacts, ClearCache,
                  DropOutdated, ExecFails, Execute, Unlock, Replace, Become, Return,
                  NoReply, NamesReply
    <3> QED
      BY <3>1, <3>2 DEF Next, Restart, NoReply
  <2> QED
    BY <2>1 DEF PutEnds, Unlock, Return, IInv, ReplyIsRight
<1> QED
  BY <1>1, InductiveInvariant, PTL DEF Spec, ReportsFormAChain

=============================================================================
