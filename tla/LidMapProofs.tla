---------------------------- MODULE LidMapProofs ----------------------------
(* Proofs about LidMap: see the theorems at the end of the module.         *)
EXTENDS LidMap, TLAPS

-----------------------------------------------------------------------------
(* Rows.                                                                   *)

(* One put leaves the rows that share neither column, and adds its own.    *)
LEMMA PutRowIs ==
    ASSUME NEW R \in Rows, NEW l \in Lids, NEW p \in Pns
    PROVE  PutRow(R, l, p) = {r \in R : r[1] # l /\ r[2] # p} \cup {<<l, p>>}
BY DEF PutRow, Upsert, DeleteExisting

(* A put of a LID and a PN leaves a table of LIDs and PNs                  *)
(* (putLIDMappingQuery).                                                   *)
LEMMA PutRowType ==
    ASSUME NEW R \in Rows, NEW l \in Lids, NEW p \in Pns
    PROVE  PutRow(R, l, p) \in Rows
BY PutRowIs DEF Rows

(* A put keeps both columns unique.                                        *)
LEMMA PutRowOneToOne ==
    ASSUME NEW R \in Rows, NEW l \in Lids, NEW p \in Pns, OneToOne(R)
    PROVE  OneToOne(PutRow(R, l, p))
BY PutRowIs DEF OneToOne, Rows

(* A batch is a sequence of mappings.                                      *)
LEMMA PutsType ==
    ASSUME NEW b \in Puts
    PROVE  b \in Seq(Mapping) /\ DOMAIN b \subseteq Nat
           /\ \A i \in DOMAIN b : b[i] \in Mapping
<1>1. \A l \in Lids, p \in Pns :
         <<[lid |-> l, pn |-> p, valid |-> TRUE]>> \in Seq(Mapping)
  BY DEF Mapping
<1>2. CASE b \in Batches
  <2>1. b \in Seq(Mapping)
    BY <1>2, BatchesAssumption
  <2> QED BY <2>1
<1>3. CASE b \notin Batches
  <2>1. PICK l \in Lids, p \in Pns : b = <<[lid |-> l, pn |-> p, valid |-> TRUE]>>
    BY <1>3 DEF Puts
  <2>2. b \in Seq(Mapping)
    BY <1>1, <2>1
  <2> QED BY <2>2
<1> QED BY <1>2, <1>3

(* PutAll, one mapping at a time.                                          *)
LEMMA PutNothing ==
    ASSUME NEW R, NEW b
    PROVE  Table!PutAll(R, b, {}) = R
BY DEF Table!PutAll

(* Putting one more mapping after those at K is what unlockedPutLIDMapping *)
(* does to the table, so a batch put mapping by mapping is PutAll.         *)
LEMMA PutNext ==
    ASSUME NEW R \in Rows, NEW b \in Puts, NEW K \in SUBSET DOMAIN b,
           NEW i \in DOMAIN b, \A k \in K : k < i
    PROVE  Table!PutAll(R, b, K \cup {i}) =
              PutRow(Table!PutAll(R, b, K), b[i].lid, b[i].pn)
<1> DEFINE Row(k) == <<b[k].lid, b[k].pn>>
           Apart(k, r) == (b[k].lid = r[1]) <=> (b[k].pn = r[2])
           P(L) == {r \in R : \A k \in L : Apart(k, r)}
                   \cup {Row(k) : k \in {k \in L : \A j \in L :
                                            j > k => Apart(j, Row(k))}}
<1>1. \A L : Table!PutAll(R, b, L) = P(L)
  BY DEF Table!PutAll, Table!Conflict, Table!RowOf
<1>2. b[i].lid \in Lids /\ b[i].pn \in Pns /\ i \in Nat /\ K \subseteq Nat
  BY PutsType DEF Mapping
<1>3. P(K) \in Rows
  BY PutsType DEF Mapping, Rows
<1>4. PutRow(P(K), b[i].lid, b[i].pn) =
         {r \in P(K) : r[1] # b[i].lid /\ r[2] # b[i].pn} \cup {Row(i)}
  BY <1>2, <1>3, PutRowIs
<1>5. \A L, r : r \in P(L) <=>
         \/ r \in R /\ \A k \in L : Apart(k, r)
         \/ \E k \in L : r = Row(k) /\ \A j \in L : j > k => Apart(j, Row(k))
  OBVIOUS
<1>6. \A k \in K : ~(k > i) /\ i > k
  BY <1>2
<1>7. \A r : Apart(i, r) <=> \/ r[1] = b[i].lid /\ r[2] = b[i].pn
                             \/ r[1] # b[i].lid /\ r[2] # b[i].pn
  OBVIOUS
<1>8. \A r \in R : r = Row(i) <=> r[1] = b[i].lid /\ r[2] = b[i].pn
  BY DEF Rows
<1>9. \A k \in K : Row(k) = Row(i) <=> Row(k)[1] = b[i].lid /\ Row(k)[2] = b[i].pn
  OBVIOUS
<1>10. Row(i) \in P(K \cup {i})
  <2>1. ~(i > i)
    BY <1>2
  <2> QED BY <1>5, <1>6, <2>1
<1> HIDE DEF P, Apart, Row
<1>11. ASSUME NEW r \in P(K \cup {i})
       PROVE  r = Row(i) \/ (r \in P(K) /\ r[1] # b[i].lid /\ r[2] # b[i].pn)
  <2>1. CASE r \in R /\ \A k \in K \cup {i} : Apart(k, r)
    BY <2>1, <1>5, <1>7, <1>8
  <2>2. CASE \E k \in K \cup {i} :
                r = Row(k) /\ \A j \in K \cup {i} : j > k => Apart(j, Row(k))
    BY <2>2, <1>5, <1>6, <1>7, <1>9
  <2> QED BY <2>1, <2>2, <1>5
<1>12. ASSUME NEW r \in P(K), r[1] # b[i].lid, r[2] # b[i].pn
       PROVE  r \in P(K \cup {i})
  <2>1. Apart(i, r)
    BY <1>12, <1>7
  <2>2. CASE r \in R /\ \A k \in K : Apart(k, r)
    BY <2>1, <2>2, <1>5
  <2>3. CASE \E k \in K : r = Row(k) /\ \A j \in K : j > k => Apart(j, Row(k))
    BY <2>1, <2>3, <1>5
  <2> QED BY <2>2, <2>3, <1>5
<1>13. P(K \cup {i}) = {r \in P(K) : r[1] # b[i].lid /\ r[2] # b[i].pn} \cup {Row(i)}
  BY <1>10, <1>11, <1>12
<1>14. Table!PutAll(R, b, K) = P(K) /\ Table!PutAll(R, b, K \cup {i}) = P(K \cup {i})
  BY <1>1
<1>15. PutRow(Table!PutAll(R, b, K), b[i].lid, b[i].pn) = P(K \cup {i})
  <2>1. PutRow(P(K), b[i].lid, b[i].pn) = P(K \cup {i})
    BY <1>4, <1>13
  <2> QED BY <2>1, <1>14
<1> QED BY <1>14, <1>15

(* Rows as links between users.                                            *)
LEMMA LinkedUsers ==
    ASSUME NEW R \in Rows, NEW u, NEW v, Linked(R, u, v)
    PROVE  u \in Users /\ v \in Users /\ u # v /\ Linked(R, v, u)
BY UsersAssumption DEF Linked, Rows, Users

(* In a one-to-one table a user has one partner at most.                   *)
LEMMA LinkIsUnique ==
    ASSUME NEW R \in Rows, OneToOne(R), NEW u, NEW v, NEW w,
           Linked(R, u, v), Linked(R, u, w)
    PROVE  v = w
<1>1. CASE <<u, v>> \in R /\ <<u, w>> \in R
  BY <1>1 DEF OneToOne
<1>2. CASE <<v, u>> \in R /\ <<w, u>> \in R
  BY <1>2 DEF OneToOne
<1>3. ~(<<u, v>> \in R /\ <<w, u>> \in R) /\ ~(<<v, u>> \in R /\ <<u, w>> \in R)
  BY UsersAssumption DEF Rows
<1> QED BY <1>1, <1>2, <1>3 DEF Linked

(* The links after a put: the new one, and the old ones that touch neither *)
(* of its users.                                                           *)
LEMMA LinkedAfterPut ==
    ASSUME NEW R \in Rows, NEW l \in Lids, NEW p \in Pns, NEW u, NEW v
    PROVE  Linked(PutRow(R, l, p), u, v) <=>
              \/ u = l /\ v = p
              \/ u = p /\ v = l
              \/ Linked(R, u, v) /\ u \notin {l, p} /\ v \notin {l, p}
<1>1. \A x, y : <<x, y>> \in PutRow(R, l, p) <=>
                  (x = l /\ y = p) \/ (<<x, y>> \in R /\ x # l /\ y # p)
  BY PutRowIs
<1>2. \A x, y : <<x, y>> \in R => x \in Lids /\ y \in Pns
  BY DEF Rows
<1>3. \A x, y : <<x, y>> \in R /\ x # l /\ y # p <=>
                  <<x, y>> \in R /\ x \notin {l, p} /\ y \notin {l, p}
  BY <1>2, UsersAssumption
<1> QED BY <1>1, <1>3 DEF Linked

-----------------------------------------------------------------------------
(* Caches.                                                                 *)

(* Whatever the store does to its caches, they stay functions from users   *)
(* to users, the negative entry or nothing.                                *)
LEMMA CacheTypes ==
    ASSUME NEW c \in Caches, NEW R \in Rows
    PROVE  /\ Absorb(c, R) \in Caches
           /\ \A u \in Users, a \in Users \cup {NoUser} : CacheAnswer(c, u, a) \in Caches
           /\ \A l \in Lids, p \in Pns : CacheAfterPut(c, l, p) \in Caches
<1>1. \A u \in Users : (\E v \in Users : Linked(R, u, v)) =>
                          (CHOOSE v \in Users : Linked(R, u, v)) \in Users
  OBVIOUS
<1>2. Absorb(c, R) \in Caches
  BY <1>1 DEF Absorb, Caches
<1>3. \A u \in Users, a \in Users \cup {NoUser} : CacheAnswer(c, u, a) \in Caches
  BY DEF CacheAnswer, Caches
<1>4. \A l \in Lids, p \in Pns : CacheAfterPut(c, l, p) \in Caches
  BY DEF CacheAfterPut, Caches, Users
<1> QED BY <1>2, <1>3, <1>4

(* What CachesMatchTable says of a cache c over rows R.                    *)
Matches(c, filled, R) ==
    Coherent(c, R) /\ Paired(c) /\ (filled => Complete(c, R))

(* Taking over some of the rows keeps a matching cache matching, and       *)
(* taking over all of them makes it complete (scanManyLids).               *)
LEMMA AbsorbMatches ==
    ASSUME NEW c \in Caches, NEW R \in Rows, OneToOne(R),
           NEW filled \in BOOLEAN, Matches(c, filled, R),
           NEW S \in SUBSET R
    PROVE  /\ Matches(Absorb(c, S), filled, R)
           /\ S = R => Complete(Absorb(c, S), R)
<1> DEFINE d == Absorb(c, S)
<1>0. S \in Rows /\ \A u, v : Linked(S, u, v) => Linked(R, u, v)
  BY DEF Rows, Linked
<1>1. \A u, v \in Users : Linked(S, u, v) => d[u] = v
  <2> SUFFICES ASSUME NEW u \in Users, NEW v \in Users, Linked(S, u, v)
               PROVE  d[u] = v
    OBVIOUS
  <2>1. d[u] = CHOOSE w \in Users : Linked(S, u, w)
    BY DEF Absorb
  <2>2. Linked(S, u, CHOOSE w \in Users : Linked(S, u, w))
    OBVIOUS
  <2> QED BY <2>1, <2>2, <1>0, LinkIsUnique
<1>2. \A u \in Users : (\A v \in Users : ~Linked(S, u, v)) => d[u] = c[u]
  BY DEF Absorb
<1>3. Coherent(d, R)
  <2> SUFFICES ASSUME NEW u \in Users PROVE d[u] = Absent \/ IsAnswer(R, u, d[u])
    BY DEF Coherent
  <2>1. CASE \E v \in Users : Linked(S, u, v)
    BY <2>1, <1>0, <1>1, UsersAssumption DEF IsAnswer
  <2>2. CASE \A v \in Users : ~Linked(S, u, v)
    BY <2>2, <1>2 DEF Matches, Coherent
  <2> QED BY <2>1, <2>2
<1>4. Paired(d)
  <2> SUFFICES ASSUME NEW u \in Users, d[u] \in Users PROVE d[d[u]] = u
    BY DEF Paired
  <2>1. Linked(R, u, d[u])
    BY <1>3, UsersAssumption DEF Coherent, IsAnswer
  <2>2. CASE \E v \in Users : Linked(S, u, v)
    BY <2>2, <1>0, <1>1, LinkedUsers
  <2>3. CASE \A v \in Users : ~Linked(S, u, v)
    <3>1. \A v \in Users : ~Linked(S, d[u], v)
      BY <2>1, <2>3, <1>0, LinkedUsers, LinkIsUnique
    <3> QED BY <2>3, <3>1, <1>2 DEF Matches, Paired
  <2> QED BY <2>2, <2>3
<1>5. filled => Complete(d, R)
  <2> SUFFICES ASSUME filled, NEW u \in Users, NEW v \in Users, Linked(R, u, v)
               PROVE  d[u] # Absent
    BY DEF Complete
  <2>1. c[u] # Absent
    BY DEF Matches, Complete
  <2> QED BY <2>1, <1>1, <1>2, UsersAssumption
<1>6. S = R => Complete(d, R)
  BY <1>1, UsersAssumption DEF Complete
<1> QED BY <1>3, <1>4, <1>5, <1>6 DEF Matches

(* Storing the answer of a query keeps a matching cache matching           *)
(* (getLIDMapping, also when the key was cached in the meantime).          *)
LEMMA AnswerMatches ==
    ASSUME NEW c \in Caches, NEW R \in Rows, OneToOne(R),
           NEW filled \in BOOLEAN, Matches(c, filled, R),
           NEW u \in Users, NEW a \in Users \cup {NoUser}, IsAnswer(R, u, a)
    PROVE  Matches(CacheAnswer(c, u, a), filled, R)
<1> DEFINE d == CacheAnswer(c, u, a)
<1>1. \A v \in Users : d[v] = IF v = u THEN a ELSE IF v = a THEN u ELSE c[v]
  BY DEF CacheAnswer
<1>2. a \in Users => Linked(R, u, a) /\ Linked(R, a, u) /\ a # u
  BY LinkedUsers, UsersAssumption DEF IsAnswer
<1>3. Coherent(d, R)
  BY <1>1, <1>2, UsersAssumption DEF Matches, Coherent, IsAnswer
<1>4. Paired(d)
  <2> SUFFICES ASSUME NEW v \in Users, d[v] \in Users PROVE d[d[v]] = v
    BY DEF Paired
  <2>1. CASE v = u \/ v = a
    BY <2>1, <1>1, <1>2, UsersAssumption
  <2>2. CASE v # u /\ v # a
    <3>1. d[v] = c[v] /\ c[c[v]] = v
      BY <2>2, <1>1 DEF Matches, Paired
    <3>2. Linked(R, v, c[v]) /\ Linked(R, c[v], v)
      BY <3>1, UsersAssumption, LinkedUsers DEF Matches, Coherent, IsAnswer
    <3>3. c[v] # a
      BY <3>2, <2>2, <1>2, <3>1, LinkIsUnique
    <3>4. c[v] # u
      BY <3>1, <3>2, <2>2, <1>2, LinkIsUnique, UsersAssumption DEF IsAnswer
    <3> QED BY <3>1, <3>3, <3>4, <1>1
  <2> QED BY <2>1, <2>2
<1>5. filled => Complete(d, R)
  BY <1>1, UsersAssumption DEF Matches, Complete
<1> QED BY <1>3, <1>4, <1>5 DEF Matches

(* unlockedPutLIDMapping: table and cache change alike.                    *)
LEMMA PutMatches ==
    ASSUME NEW c \in Caches, NEW R \in Rows, OneToOne(R),
           NEW filled \in BOOLEAN, Matches(c, filled, R),
           NEW l \in Lids, NEW p \in Pns
    PROVE  Matches(CacheAfterPut(c, l, p), filled, PutRow(R, l, p))
<1> DEFINE d == CacheAfterPut(c, l, p)
           Q == PutRow(R, l, p)
           Dropped(u) == (u = c[l] /\ c[u] = l) \/ (u = c[p] /\ c[u] = p)
<1>1. l \in Users /\ p \in Users /\ l # p
  BY UsersAssumption DEF Users
<1>2. d[l] = p /\ d[p] = l
  BY <1>1 DEF CacheAfterPut
<1>3. \A u \in Users : u \notin {l, p} =>
         d[u] = IF Dropped(u) THEN Absent ELSE c[u]
  BY DEF CacheAfterPut
<1>4. ASSUME NEW u \in Users, u \notin {l, p}, d[u] # Absent
      PROVE  d[u] = c[u] /\ c[u] \notin {l, p}
  <2>1. d[u] = c[u] /\ ~Dropped(u)
    BY <1>3, <1>4
  <2>2. c[u] \in Users => c[c[u]] = u
    BY DEF Matches, Paired
  <2> QED BY <2>1, <2>2, <1>1
<1>5. Coherent(d, Q)
  <2> SUFFICES ASSUME NEW u \in Users, d[u] # Absent PROVE IsAnswer(Q, u, d[u])
    BY DEF Coherent
  <2>1. CASE u \in {l, p}
    BY <2>1, <1>1, <1>2, LinkedAfterPut, UsersAssumption DEF IsAnswer
  <2>2. CASE u \notin {l, p}
    <3>1. d[u] = c[u] /\ c[u] \notin {l, p} /\ IsAnswer(R, u, c[u])
      BY <2>2, <1>4 DEF Matches, Coherent
    <3>2. \A v : Linked(Q, u, v) <=> Linked(R, u, v) /\ v \notin {l, p}
      BY <2>2, LinkedAfterPut
    <3> QED BY <3>1, <3>2 DEF IsAnswer
  <2> QED BY <2>1, <2>2
<1>6. Paired(d)
  <2> SUFFICES ASSUME NEW u \in Users, d[u] \in Users PROVE d[d[u]] = u
    BY DEF Paired
  <2>1. CASE u \in {l, p}
    BY <2>1, <1>2
  <2>2. CASE u \notin {l, p}
    <3>1. d[u] = c[u] /\ c[u] \notin {l, p} /\ c[c[u]] = u
      BY <2>2, <1>4, UsersAssumption DEF Matches, Paired
    <3>2. ~Dropped(c[u])
      BY <3>1, <2>2
    <3> QED BY <3>1, <3>2, <1>3
  <2> QED BY <2>1, <2>2
<1>7. filled => Complete(d, Q)
  <2> SUFFICES ASSUME filled, NEW u \in Users, NEW v \in Users, Linked(Q, u, v)
               PROVE  d[u] # Absent
    BY DEF Complete
  <2>1. CASE u \in {l, p}
    BY <2>1, <1>1, <1>2, UsersAssumption
  <2>2. CASE u \notin {l, p}
    <3>1. Linked(R, u, v) /\ v \notin {l, p}
      BY <2>2, LinkedAfterPut
    <3>2. c[u] # Absent
      BY <3>1 DEF Matches, Complete
    <3>3. c[u] = v
      BY <3>1, <3>2, LinkIsUnique, UsersAssumption DEF Matches, Coherent, IsAnswer
    <3>4. ~Dropped(u)
      BY <3>1, <3>3
    <3> QED BY <2>2, <3>2, <3>4, <1>3
  <2> QED BY <2>1, <2>2
<1> QED BY <1>5, <1>6, <1>7 DEF Matches

-----------------------------------------------------------------------------
(* Type correctness.                                                       *)

(* What a transaction has put and has still to put are mappings of its     *)
(* batch.                                                                  *)
LEMMA TxnType ==
    ASSUME NEW o \in Ops, o.kind = "txn"
    PROVE  /\ o.batch \in Puts
           /\ o.done \in SUBSET DOMAIN o.batch
           /\ o.todo \in SUBSET DOMAIN o.batch
BY DEF Ops

(* The record of a transaction is one of the operations under way.         *)
LEMMA TxnIsOp ==
    ASSUME NEW b \in Puts, NEW D \in SUBSET DOMAIN b, NEW T \in SUBSET DOMAIN b
    PROVE  Txn(b, D, T) \in Ops
BY DEF Txn, Ops

(* NewCachedLIDMap starts with values of the right types.                  *)
LEMMA TypeInit == Init => TypeOK
<1> SUFFICES ASSUME Init PROVE TypeOK
  OBVIOUS
<1>1. rows \in Rows /\ work \in Rows
  BY DEF Init, Rows
<1>2. cache \in Caches
  BY DEF Init, EmptyCache, Caches
<1>3. op \in [Threads -> Ops] /\ ret \in Replies
  BY DEF Init, Idle, Ops, NoReply, Replies
<1> QED BY <1>1, <1>2, <1>3 DEF Init, TypeOK

(* Every step, taken apart: a put of one mapping is a put of a batch.      *)
LEMMA Steps ==
    ASSUME [Next]_vars
    PROVE  \/ \E t \in Threads :
                \/ \E u \in Users : LookupCached(t, u) \/ LookupMisses(t, u)
                \/ \E S \in SUBSET Pns : LookupMany(t, S)
                \/ \E b \in Puts : StartPut(t, b)
                \/ QueryMapping(t) \/ QueryMappingFails(t)
                \/ QueryMany(t) \/ QueryManyFails(t)
                \/ FillCache(t) \/ FillCacheFails(t)
                \/ PutOne(t) \/ Commit(t) \/ Rollback(t)
           \/ Restart
           \/ UNCHANGED vars
<1>1. ASSUME NEW t \in Threads, NEW l \in Lids, NEW p \in Pns, PutLIDMapping(t, l, p)
      PROVE  \E b \in Puts : StartPut(t, b)
  BY <1>1 DEF PutLIDMapping, Puts
<1>2. ASSUME NEW t \in Threads, NEW b \in Batches, PutManyLIDMappings(t, b)
      PROVE  \E c \in Puts : StartPut(t, c)
  BY <1>2 DEF PutManyLIDMappings, Puts
<1> QED BY <1>1, <1>2 DEF Next, Call, Continue, Fail

(* No operation, failure or restart gives a variable a value of another    *)
(* type.                                                                   *)
LEMMA TypeStep == TypeOK /\ [Next]_vars => TypeOK'
<1> SUFFICES ASSUME TypeOK, [Next]_vars PROVE TypeOK'
  OBVIOUS
<1> USE DEF TypeOK
<1>1. ASSUME NEW t \in Threads, NEW u \in Users, LookupCached(t, u)
      PROVE  TypeOK'
  <2>1. (IF cache[u] = Absent THEN NoUser ELSE cache[u]) \in Users \cup {NoUser}
    BY DEF Caches
  <2>2. op' \in [Threads -> Ops]
    BY <1>1 DEF LookupCached, Return, Idle, Ops
  <2>3. ret' \in Replies
    BY <1>1, <2>1 DEF LookupCached, Return, UserReply, Replies
  <2> QED BY <1>1, <2>2, <2>3 DEF LookupCached
<1>2. ASSUME NEW t \in Threads, NEW u \in Users, LookupMisses(t, u)
      PROVE  TypeOK'
  BY <1>2 DEF LookupMisses, Become, Miss, NoReply, Ops, Replies
<1>3. ASSUME NEW t \in Threads, NEW S \in SUBSET Pns, LookupMany(t, S)
      PROVE  TypeOK'
  <2> DEFINE hits    == {<<cache[p], p>> : p \in {p \in S : cache[p] \in Lids}}
             missing == {p \in S : cache[p] \notin Lids /\ ~cacheFilled}
  <2>1. hits \in Rows /\ missing \in SUBSET Pns
    BY DEF Rows
  <2>2. ManyReply(S, hits, rows) \in Replies
    BY <2>1 DEF ManyReply, Replies
  <2>3. MissMany(S, missing, hits, rows) \in Ops
    BY <2>1 DEF MissMany, Ops
  <2>4. Idle \in Ops /\ NoReply \in Replies
    BY DEF Idle, Ops, NoReply, Replies
  <2> HIDE DEF hits, missing
  <2>5. op' \in [Threads -> Ops] /\ ret' \in Replies
    BY <1>3, <2>2, <2>3, <2>4 DEF LookupMany, Return, Become, hits, missing
  <2> QED BY <1>3, <2>5 DEF LookupMany
<1>4. ASSUME NEW t \in Threads, QueryMapping(t) PROVE TypeOK'
  <2>1. PICK a \in Users \cup {NoUser} :
           /\ cache' = CacheAnswer(cache, op[t].user, a)
           /\ Return(t, UserReply(op[t].user, a))
    BY <1>4 DEF QueryMapping
  <2>2. op[t].user \in Users
    BY <1>4 DEF QueryMapping, Ops
  <2>3. cache' \in Caches
    BY <2>1, <2>2, CacheTypes
  <2>4. op' \in [Threads -> Ops] /\ ret' \in Replies
    BY <2>1, <2>2 DEF Return, UserReply, Idle, Ops, Replies
  <2> QED BY <1>4, <2>3, <2>4 DEF QueryMapping
<1>5. ASSUME NEW t \in Threads, QueryMappingFails(t) PROVE TypeOK'
  BY <1>5 DEF QueryMappingFails, Return, ErrorReply, Idle, Ops, Replies
<1>6. ASSUME NEW t \in Threads, QueryMany(t) PROVE TypeOK'
  <2> DEFINE fetched == {r \in rows : r[2] \in op[t].missing}
  <2>1. /\ op[t].asked \in SUBSET Pns /\ op[t].hits \in Rows
        /\ op[t].then \in Rows /\ fetched \in Rows
    BY <1>6 DEF QueryMany, Ops, Rows
  <2>2. op[t].hits \cup fetched \in Rows
    BY <2>1 DEF Rows
  <2> HIDE DEF fetched
  <2>3. cache' \in Caches
    BY <1>6, <2>1, CacheTypes DEF QueryMany, fetched
  <2>4. op' \in [Threads -> Ops] /\ ret' \in Replies
    BY <1>6, <2>1, <2>2
       DEF QueryMany, Return, ManyReply, Idle, Ops, Replies, fetched
  <2> QED BY <1>6, <2>3, <2>4 DEF QueryMany
<1>7. ASSUME NEW t \in Threads, QueryManyFails(t) PROVE TypeOK'
  <2>1. PICK R \in SUBSET {r \in rows : r[2] \in op[t].missing} :
           cache' = Absorb(cache, R)
    BY <1>7 DEF QueryManyFails
  <2>2. cache' \in Caches
    BY <2>1, CacheTypes DEF Rows
  <2> QED
    BY <1>7, <2>2 DEF QueryManyFails, Return, ErrorReply, Idle, Ops, Replies
<1>8. ASSUME NEW t \in Threads, FillCache(t) PROVE TypeOK'
  BY <1>8, CacheTypes DEF FillCache, Return, FillReply, Idle, Ops, Replies
<1>9. ASSUME NEW t \in Threads, FillCacheFails(t) PROVE TypeOK'
  <2>1. PICK R \in SUBSET rows : cache' = Absorb(cache, R)
    BY <1>9 DEF FillCacheFails
  <2>2. cache' \in Caches
    BY <2>1, CacheTypes DEF Rows
  <2> QED
    BY <1>9, <2>2 DEF FillCacheFails, Return, ErrorReply, Idle, Ops, Replies
<1>10. ASSUME NEW t \in Threads, NEW b \in Puts, StartPut(t, b) PROVE TypeOK'
  <2>1. Txn(b, {}, Wanted(cache, b)) \in Ops
    BY TxnIsOp DEF Wanted
  <2>2. PutReply(b) \in Replies /\ NoReply \in Replies /\ Idle \in Ops
    BY DEF PutReply, NoReply, Replies, Idle, Ops
  <2>3. op' \in [Threads -> Ops] /\ ret' \in Replies
    BY <1>10, <2>1, <2>2 DEF StartPut, Return, Become
  <2> QED BY <1>10, <2>3 DEF StartPut
<1>11. ASSUME NEW t \in Threads, PutOne(t) PROVE TypeOK'
  <2> DEFINE o == op[t]
  <2>1. /\ o.batch \in Puts
        /\ o.done \in SUBSET DOMAIN o.batch
        /\ o.todo \in SUBSET DOMAIN o.batch
    BY <1>11, TxnType DEF PutOne
  <2>2. PICK i \in o.todo :
           /\ work' = PutRow(work, o.batch[i].lid, o.batch[i].pn)
           /\ cache' = CacheAfterPut(cache, o.batch[i].lid, o.batch[i].pn)
           /\ Become(t, Txn(o.batch, o.done \cup {i}, o.todo \ {i}))
    BY <1>11 DEF PutOne
  <2>3. i \in DOMAIN o.batch
    BY <2>1
  <2>4. o.batch[i].lid \in Lids /\ o.batch[i].pn \in Pns
    BY <2>1, <2>3, PutsType DEF Mapping
  <2>5. work' \in Rows /\ cache' \in Caches
    BY <2>2, <2>4, PutRowType, CacheTypes
  <2>6. Txn(o.batch, o.done \cup {i}, o.todo \ {i}) \in Ops
    BY <2>1, TxnIsOp
  <2>7. op' \in [Threads -> Ops] /\ ret' \in Replies
    BY <2>2, <2>6 DEF Become, NoReply, Replies
  <2> QED BY <1>11, <2>5, <2>7 DEF PutOne
<1>12. ASSUME NEW t \in Threads, Commit(t) PROVE TypeOK'
  BY <1>12 DEF Commit, Return, PutReply, Idle, Ops, Replies
<1>13. ASSUME NEW t \in Threads, Rollback(t) PROVE TypeOK'
  BY <1>13 DEF Rollback, Return, ErrorReply, Idle, Ops, Replies
<1>14. CASE Restart
  BY <1>14 DEF Restart, EmptyCache, Caches, Idle, Ops, NoReply, Replies
<1>15. CASE UNCHANGED vars
  BY <1>15 DEF vars
<1> QED
  BY <1>1, <1>2, <1>3, <1>4, <1>5, <1>6, <1>7, <1>8, <1>9, <1>10, <1>11,
     <1>12, <1>13, <1>14, <1>15, Steps

-----------------------------------------------------------------------------
(* The lock and the table.                                                 *)

(* A transaction and only a transaction holds lidCacheLock, and the open   *)
(* table differs from the committed one only meanwhile.                    *)
LEMMA LockStep == TypeOK /\ LockInv /\ [Next]_vars => LockInv'
<1> SUFFICES ASSUME TypeOK, LockInv, [Next]_vars PROVE LockInv'
  OBVIOUS
<1> USE DEF TypeOK, LockInv, LockFree
<1>1. ASSUME NEW t \in Threads, NEW u \in Users,
             LookupCached(t, u) \/ LookupMisses(t, u)
      PROVE  LockInv'
  BY <1>1, UsersAssumption
     DEF LookupCached, LookupMisses, Return, Become, Idle, Miss
<1>2. ASSUME NEW t \in Threads, NEW S \in SUBSET Pns, LookupMany(t, S)
      PROVE  LockInv'
  BY <1>2, UsersAssumption DEF LookupMany, Return, Become, Idle, MissMany
<1>3. ASSUME NEW t \in Threads,
             \/ QueryMapping(t) \/ QueryMappingFails(t)
             \/ QueryMany(t) \/ QueryManyFails(t)
             \/ FillCache(t) \/ FillCacheFails(t)
      PROVE  LockInv'
  BY <1>3, UsersAssumption
     DEF QueryMapping, QueryMappingFails, QueryMany, QueryManyFails,
         FillCache, FillCacheFails, Return, Idle
<1>4. ASSUME NEW t \in Threads, NEW b \in Puts, StartPut(t, b) PROVE LockInv'
  BY <1>4, UsersAssumption DEF StartPut, Return, Become, Idle, Txn
<1>5. ASSUME NEW t \in Threads, PutOne(t) PROVE LockInv'
  BY <1>5, UsersAssumption DEF PutOne, Become, Txn
<1>6. ASSUME NEW t \in Threads, Commit(t) \/ Rollback(t) PROVE LockInv'
  BY <1>6, UsersAssumption DEF Commit, Rollback, Return, Idle
<1>7. CASE Restart
  BY <1>7, UsersAssumption DEF Restart, Idle
<1>8. CASE UNCHANGED vars
  BY <1>8 DEF vars
<1> QED BY <1>1, <1>2, <1>3, <1>4, <1>5, <1>6, <1>7, <1>8, Steps

(* A mapping that PutOne puts.                                             *)
LEMMA PutOneStep ==
    ASSUME TypeOK, NEW t \in Threads, PutOne(t)
    PROVE  \E i \in op[t].todo :
              LET m == op[t].batch[i]
              IN  /\ i \in DOMAIN op[t].batch
                  /\ \A j \in op[t].todo : i <= j
                  /\ m.lid \in Lids /\ m.pn \in Pns
                  /\ work' = PutRow(work, m.lid, m.pn)
                  /\ cache' = CacheAfterPut(cache, m.lid, m.pn)
                  /\ op' = [op EXCEPT ![t] = Txn(op[t].batch, op[t].done \cup {i},
                                                 op[t].todo \ {i})]
<1>1. op[t].batch \in Puts /\ op[t].todo \in SUBSET DOMAIN op[t].batch
  BY TxnType DEF PutOne, TypeOK
<1>2. \A i \in op[t].todo : op[t].batch[i] \in Mapping
  BY <1>1, PutsType
<1> QED BY <1>1, <1>2 DEF PutOne, Become, Mapping

(* No step makes a LID or a PN occur in two rows of lid_map.               *)
LEMMA OneToOneStep ==
    TypeOK /\ TablesAreOneToOne /\ [Next]_vars => TablesAreOneToOne'
<1> SUFFICES ASSUME TypeOK, TablesAreOneToOne, [Next]_vars
             PROVE  TablesAreOneToOne'
  OBVIOUS
<1>1. ASSUME NEW t \in Threads, PutOne(t) PROVE TablesAreOneToOne'
  <2>1. rows' = rows /\ \E l \in Lids, p \in Pns : work' = PutRow(work, l, p)
    BY <1>1, PutOneStep DEF PutOne
  <2> QED BY <2>1, PutRowOneToOne DEF TypeOK, TablesAreOneToOne
<1>2. ASSUME NEW t \in Threads, Commit(t) \/ Rollback(t)
      PROVE  TablesAreOneToOne'
  BY <1>2 DEF Commit, Rollback, TablesAreOneToOne
<1>3. CASE Restart
  BY <1>3 DEF Restart, TablesAreOneToOne
<1>4. CASE UNCHANGED <<rows, work>>
  BY <1>4 DEF TablesAreOneToOne
<1> QED
  BY <1>1, <1>2, <1>3, <1>4, Steps
     DEF LookupCached, LookupMisses, LookupMany, StartPut, QueryMapping,
         QueryMappingFails, QueryMany, QueryManyFails, FillCache,
         FillCacheFails, vars

-----------------------------------------------------------------------------
(* The caches.                                                             *)

(* Empty caches agree with any table.                                      *)
LEMMA CacheInit == Init => CachesMatchTable
BY UsersAssumption
   DEF Init, EmptyCache, CachesMatchTable, Coherent, Paired

(* No step makes a cache disagree with the table, except a rollback, which *)
(* sets poisoned.                                                          *)
LEMMA CacheStep ==
    /\ TypeOK /\ TablesAreOneToOne /\ LockInv /\ TxnInv /\ CachesMatchTable
    /\ [Next]_vars
    => CachesMatchTable'
<1> SUFFICES ASSUME TypeOK, TablesAreOneToOne, LockInv, TxnInv,
                    CachesMatchTable, [Next]_vars
             PROVE  CachesMatchTable'
  OBVIOUS
<1>0. CachesMatchTable <=> poisoned \/ Matches(cache, cacheFilled, work)
  BY DEF CachesMatchTable, Matches
<1>00. CachesMatchTable' <=> poisoned' \/ Matches(cache', cacheFilled', work')
  BY DEF CachesMatchTable, Matches
<1>1. ASSUME NEW t \in Threads, QueryMapping(t) PROVE CachesMatchTable'
  <2>1. op[t].user \in Users /\ work = rows
    BY <1>1 DEF QueryMapping, TypeOK, Ops, LockInv
  <2>2. PICK a \in Users \cup {NoUser} :
           /\ IsAnswer(rows, op[t].user, a)
           /\ cache' = CacheAnswer(cache, op[t].user, a)
    BY <1>1 DEF QueryMapping
  <2> QED
    BY <1>1, <1>0, <1>00, <2>1, <2>2, AnswerMatches
       DEF QueryMapping, TypeOK, TablesAreOneToOne
<1>2. ASSUME NEW t \in Threads, QueryMany(t) \/ QueryManyFails(t)
      PROVE  CachesMatchTable'
  <2>1. work = rows
    BY <1>2 DEF QueryMany, QueryManyFails, LockInv
  <2>2. PICK S \in SUBSET work : cache' = Absorb(cache, S)
    BY <1>2, <2>1 DEF QueryMany, QueryManyFails
  <2> QED
    BY <1>2, <1>0, <1>00, <2>2, AbsorbMatches
       DEF QueryMany, QueryManyFails, TypeOK, TablesAreOneToOne
<1>3. ASSUME NEW t \in Threads, FillCache(t) \/ FillCacheFails(t)
      PROVE  CachesMatchTable'
  <2>1. work = rows
    BY <1>3 DEF FillCache, FillCacheFails, LockInv
  <2>2. PICK S \in SUBSET work : /\ cache' = Absorb(cache, S)
                                 /\ cacheFilled' => S = work
    BY <1>3, <2>1 DEF FillCache, FillCacheFails
  <2>3. ~poisoned => /\ Coherent(cache', work) /\ Paired(cache')
                     /\ S = work => Complete(cache', work)
    BY <1>0, <2>2, AbsorbMatches DEF TypeOK, TablesAreOneToOne, Matches
  <2> QED
    BY <1>3, <1>00, <2>2, <2>3 DEF FillCache, FillCacheFails, Matches
<1>4. ASSUME NEW t \in Threads, PutOne(t) PROVE CachesMatchTable'
  <2>1. PICK l \in Lids, p \in Pns :
           /\ work' = PutRow(work, l, p)
           /\ cache' = CacheAfterPut(cache, l, p)
    BY <1>4, PutOneStep
  <2> QED
    BY <1>4, <1>0, <1>00, <2>1, PutMatches
       DEF PutOne, TypeOK, TablesAreOneToOne
<1>5. ASSUME NEW t \in Threads, Rollback(t) PROVE CachesMatchTable'
  <2>1. CASE poisoned \/ op[t].done # {}
    BY <1>5, <2>1, <1>00 DEF Rollback
  <2>2. CASE ~poisoned /\ op[t].done = {}
    <3>1. work = rows
      <4>1. work = Table!PutAll(rows, op[t].batch, op[t].done)
        BY <1>5 DEF Rollback, TxnInv
      <4> QED BY <4>1, <2>2, PutNothing
    <3> QED BY <1>5, <1>0, <1>00, <3>1 DEF Rollback
  <2> QED BY <2>1, <2>2
<1>6. CASE Restart
  <2>1. Matches(EmptyCache, FALSE, rows)
    BY UsersAssumption DEF EmptyCache, Matches, Coherent, Paired
  <2> QED BY <1>6, <1>00, <2>1 DEF Restart
<1>7. CASE UNCHANGED <<cache, cacheFilled, work, poisoned>>
  BY <1>7, <1>0, <1>00
<1> QED
  BY <1>1, <1>2, <1>3, <1>4, <1>5, <1>6, <1>7, Steps
     DEF LookupCached, LookupMisses, LookupMany, StartPut, QueryMappingFails,
         Commit, vars

-----------------------------------------------------------------------------
(* Transactions.                                                           *)

(* What a matching cache lets PutManyLIDMappings filter out was there.     *)
LEMMA FilteredIsRedundant ==
    ASSUME NEW c \in Caches, NEW R \in Rows, Coherent(c, R), NEW b \in Puts
    PROVE  (DOMAIN b) \ Wanted(c, b) \subseteq Table!Redundant(R, b)
<1> SUFFICES ASSUME NEW i \in DOMAIN b, i \notin Wanted(c, b), b[i].valid,
                    FirstOfItsKind(b, i)
             PROVE  i \in Table!Redundant(R, b)
  BY DEF Table!Redundant, FirstOfItsKind
<1>1. b[i].lid \in Lids /\ b[i].pn \in Pns
  BY PutsType DEF Mapping
<1>2. c[b[i].pn] = b[i].lid
  BY DEF Wanted
<1>3. Linked(R, b[i].pn, b[i].lid)
  BY <1>1, <1>2, UsersAssumption DEF Coherent, IsAnswer, Users
<1>4. <<b[i].lid, b[i].pn>> \in R
  BY <1>1, <1>3, UsersAssumption DEF Linked, Rows
<1> QED BY <1>4 DEF Table!Redundant, Table!RowOf

(* At first there is no transaction.                                       *)
LEMMA TxnInit == Init => TxnInv
BY DEF Init, Idle, TxnInv

(* Every step of a transaction, and of the goroutines that wait for it,    *)
(* keeps the open table equal to the old one with the mappings put so far. *)
LEMMA TxnStep ==
    /\ TypeOK /\ LockInv /\ TxnInv /\ CachesMatchTable
    /\ [Next]_vars
    => TxnInv'
<1> SUFFICES ASSUME TypeOK, LockInv, TxnInv, CachesMatchTable, [Next]_vars
             PROVE  TxnInv'
  OBVIOUS
<1> DEFINE
      Good(o, W, R, bad) ==
        /\ \A i \in o.done, j \in o.todo : i < j
        /\ \A i \in o.done \cup o.todo : o.batch[i].valid
        /\ W = Table!PutAll(R, o.batch, o.done)
        /\ ~bad => (DOMAIN o.batch) \ (o.done \cup o.todo)
                      \subseteq Table!Redundant(R, o.batch)
<1>a. \A t \in Threads : op[t].kind = "txn" => Good(op[t], work, rows, poisoned)
  BY DEF TxnInv
<1>b. (\A t \in Threads : op'[t].kind = "txn" =>
                             Good(op'[t], work', rows', poisoned')) => TxnInv'
  BY DEF TxnInv
<1>c. ASSUME \A t \in Threads : op'[t].kind = "txn" => op'[t] = op[t],
             UNCHANGED <<work, rows, poisoned>>
      PROVE  TxnInv'
  BY <1>c, <1>a, <1>b
<1> HIDE DEF Good
<1>1. ASSUME NEW t \in Threads, NEW b \in Puts, StartPut(t, b) PROVE TxnInv'
  <2>1. CASE Wanted(cache, b) = {}
    BY <1>1, <2>1, <1>c DEF StartPut, Return, Idle, TypeOK
  <2>2. CASE Wanted(cache, b) # {}
    <3> DEFINE o == Txn(b, {}, Wanted(cache, b))
    <3>1. op' = [op EXCEPT ![t] = o] /\ UNCHANGED <<work, rows, poisoned>>
      BY <1>1, <2>2 DEF StartPut, Become
    <3>2. \A s \in Threads : op[s].kind # "txn"
      BY <1>1, UsersAssumption DEF StartPut, LockFree, LockInv
    <3>3. work = rows
      BY <1>1 DEF StartPut, LockInv
    <3>4. ~poisoned => (DOMAIN b) \ Wanted(cache, b) \subseteq Table!Redundant(rows, b)
      BY <3>3, FilteredIsRedundant DEF CachesMatchTable, TypeOK
    <3>5. o.batch = b /\ o.done = {} /\ o.todo = Wanted(cache, b)
      BY DEF Txn
    <3> HIDE DEF o
    <3>6. \A i \in o.done \cup o.todo : o.batch[i].valid
      BY <3>5 DEF Wanted
    <3>7. work = Table!PutAll(rows, o.batch, o.done)
      BY <3>3, <3>5, PutNothing
    <3>8. Good(o, work, rows, poisoned)
      BY <3>4, <3>5, <3>6, <3>7 DEF Good
    <3> QED BY <3>1, <3>2, <3>8, <1>b DEF TypeOK
  <2> QED BY <2>1, <2>2
<1>2. ASSUME NEW t \in Threads, PutOne(t) PROVE TxnInv'
  <2>1. PICK i \in op[t].todo :
           LET m == op[t].batch[i]
           IN  /\ i \in DOMAIN op[t].batch
               /\ \A j \in op[t].todo : i <= j
               /\ work' = PutRow(work, m.lid, m.pn)
               /\ op' = [op EXCEPT ![t] = Txn(op[t].batch, op[t].done \cup {i},
                                              op[t].todo \ {i})]
    BY <1>2, PutOneStep
  <2> DEFINE o == op[t]
             n == Txn(o.batch, o.done \cup {i}, o.todo \ {i})
  <2>2. /\ o.batch \in Puts
        /\ o.done \in SUBSET DOMAIN o.batch
        /\ o.todo \in SUBSET DOMAIN o.batch
        /\ DOMAIN o.batch \subseteq Nat
    BY <1>2, TxnType, PutsType DEF PutOne, TypeOK
  <2>3. Good(o, work, rows, poisoned)
    BY <1>2, <1>a DEF PutOne
  <2>4. n.batch = o.batch /\ n.done = o.done \cup {i} /\ n.todo = o.todo \ {i}
    BY DEF Txn
  <2>5. \A j \in n.done, k \in n.todo : j < k
    <3>1. \A k \in o.todo \ {i} : i < k
      BY <2>1, <2>2
    <3> QED BY <3>1, <2>3, <2>4 DEF Good
  <2>6. work' = Table!PutAll(rows, o.batch, o.done \cup {i})
    <3>1. \A k \in o.done : k < i
      BY <2>3 DEF Good
    <3> QED BY <2>1, <2>2, <2>3, <3>1, PutNext DEF Good, TypeOK
  <2>7. UNCHANGED <<rows, poisoned>>
    BY <1>2 DEF PutOne
  <2>8. n.done \cup n.todo = o.done \cup o.todo
    BY <2>1, <2>4
  <2>9. Good(n, work', rows', poisoned')
    BY <2>3, <2>4, <2>5, <2>6, <2>7, <2>8 DEF Good
  <2>10. \A s \in Threads : s # t => op'[s].kind # "txn"
    BY <1>2, <2>1 DEF PutOne, LockInv, TypeOK
  <2>11. op'[t] = n
    BY <2>1 DEF TypeOK
  <2> QED BY <2>9, <2>10, <2>11, <1>b
<1>3. ASSUME NEW t \in Threads, Commit(t) \/ Rollback(t) PROVE TxnInv'
  <2>1. \A s \in Threads : op'[s].kind # "txn"
    BY <1>3 DEF Commit, Rollback, Return, Idle, LockInv, TypeOK
  <2> QED BY <2>1, <1>b
<1>4. CASE Restart
  BY <1>4, <1>b DEF Restart, Idle
<1>5. CASE UNCHANGED vars
  BY <1>5, <1>c DEF vars
<1>6. ASSUME NEW t \in Threads, NEW u \in Users,
             LookupCached(t, u) \/ LookupMisses(t, u)
      PROVE  TxnInv'
  BY <1>6, <1>c DEF LookupCached, LookupMisses, Return, Become, Idle, Miss, TypeOK
<1>7. ASSUME NEW t \in Threads, NEW S \in SUBSET Pns, LookupMany(t, S)
      PROVE  TxnInv'
  BY <1>7, <1>c DEF LookupMany, Return, Become, Idle, MissMany, TypeOK
<1>8. ASSUME NEW t \in Threads,
             \/ QueryMapping(t) \/ QueryMappingFails(t)
             \/ QueryMany(t) \/ QueryManyFails(t)
             \/ FillCache(t) \/ FillCacheFails(t)
      PROVE  TxnInv'
  <2>1. \A s \in Threads : op'[s].kind = "txn" => op'[s] = op[s]
    BY <1>8 DEF QueryMapping, QueryMappingFails, QueryMany, QueryManyFails,
                FillCache, FillCacheFails, Return, Idle, TypeOK
  <2>2. UNCHANGED <<work, rows, poisoned>>
    BY <1>8 DEF QueryMapping, QueryMappingFails, QueryMany, QueryManyFails,
                FillCache, FillCacheFails
  <2> QED BY <2>1, <2>2, <1>c
<1> QED BY <1>1, <1>2, <1>3, <1>4, <1>5, <1>6, <1>7, <1>8, Steps

-----------------------------------------------------------------------------
(* Suspended GetManyLIDsForPNs.                                            *)

(* At first no GetManyLIDsForPNs is suspended.                             *)
LEMMA ManyInit == Init => ManyInv
BY DEF Init, Idle, ManyInv

(* What the first half of GetManyLIDsForPNs finds in a matching cache.     *)
LEMMA HitsAreRows ==
    ASSUME NEW c \in Caches, NEW R \in Rows, Coherent(c, R),
           NEW p \in Pns, c[p] \in Lids
    PROVE  <<c[p], p>> \in R
<1>1. p \in Users /\ c[p] \in Users
  BY DEF Users
<1>2. Linked(R, p, c[p])
  BY <1>1, UsersAssumption DEF Coherent, IsAnswer
<1> QED BY <1>2, UsersAssumption DEF Linked, Rows

(* The hits of a suspended GetManyLIDsForPNs are not touched by other      *)
(* goroutines, and come from a matching cache.                             *)
LEMMA ManyStep ==
    /\ TypeOK /\ LockInv /\ ManyInv /\ CachesMatchTable
    /\ [Next]_vars
    => ManyInv'
<1> SUFFICES ASSUME TypeOK, LockInv, ManyInv, CachesMatchTable, [Next]_vars
             PROVE  ManyInv'
  OBVIOUS
<1>a. ASSUME \A t \in Threads : op'[t].kind = "missMany" => op'[t] = op[t],
             poisoned => poisoned'
      PROVE  ManyInv'
  BY <1>a DEF ManyInv
<1>1. ASSUME NEW t \in Threads, NEW S \in SUBSET Pns, LookupMany(t, S)
      PROVE  ManyInv'
  <2> DEFINE hits    == {<<cache[p], p>> : p \in {p \in S : cache[p] \in Lids}}
             missing == {p \in S : cache[p] \notin Lids /\ ~cacheFilled}
  <2>1. CASE missing = {}
    BY <1>1, <2>1, <1>a DEF LookupMany, Return, Idle, TypeOK
  <2>2. CASE missing # {}
    <3>1. op' = [op EXCEPT ![t] = MissMany(S, missing, hits, rows)]
          /\ UNCHANGED poisoned
      BY <1>1, <2>2 DEF LookupMany, Become
    <3>2. work = rows
      BY <1>1 DEF LookupMany, LockInv
    <3>3. ~poisoned => hits \subseteq rows
      BY <3>2, HitsAreRows DEF CachesMatchTable, TypeOK
    <3>4. \A p \in S \ missing : \E h \in hits : h[2] = p
      <4> SUFFICES ASSUME NEW p \in S \ missing PROVE \E h \in hits : h[2] = p
        OBVIOUS
      <4>1. ~cacheFilled
        BY <2>2
      <4>2. <<cache[p], p>> \in hits
        BY <4>1
      <4> QED BY <4>2
    <3> HIDE DEF hits, missing
    <3>5. op'[t].asked = S /\ op'[t].missing = missing
          /\ op'[t].hits = hits /\ op'[t].then = rows
      BY <3>1 DEF MissMany, TypeOK
    <3>6. \A s \in Threads : s # t => op'[s] = op[s]
      BY <3>1 DEF TypeOK
    <3> QED BY <3>1, <3>3, <3>4, <3>5, <3>6 DEF ManyInv
  <2> QED BY <2>1, <2>2
<1>2. ASSUME NEW t \in Threads, NEW u \in Users,
             LookupCached(t, u) \/ LookupMisses(t, u)
      PROVE  ManyInv'
  BY <1>2, <1>a DEF LookupCached, LookupMisses, Return, Become, Idle, Miss, TypeOK
<1>3. ASSUME NEW t \in Threads,
             \/ QueryMapping(t) \/ QueryMappingFails(t)
             \/ QueryMany(t) \/ QueryManyFails(t)
             \/ FillCache(t) \/ FillCacheFails(t)
             \/ Commit(t) \/ Rollback(t)
      PROVE  ManyInv'
  <2>1. \A s \in Threads : op'[s].kind = "missMany" => op'[s] = op[s]
    BY <1>3 DEF QueryMapping, QueryMappingFails, QueryMany, QueryManyFails,
                FillCache, FillCacheFails, Commit, Rollback, Return, Idle, TypeOK
  <2>2. poisoned => poisoned'
    BY <1>3 DEF QueryMapping, QueryMappingFails, QueryMany, QueryManyFails,
                FillCache, FillCacheFails, Commit, Rollback
  <2> QED BY <2>1, <2>2, <1>a
<1>4. ASSUME NEW t \in Threads, NEW b \in Puts, StartPut(t, b) PROVE ManyInv'
  BY <1>4, <1>a DEF StartPut, Return, Become, Idle, Txn, TypeOK
<1>5. ASSUME NEW t \in Threads, PutOne(t) PROVE ManyInv'
  BY <1>5, <1>a DEF PutOne, Become, Txn, TypeOK
<1>6. CASE Restart
  BY <1>6 DEF Restart, Idle, ManyInv
<1>7. CASE UNCHANGED vars
  BY <1>7, <1>a DEF vars
<1> QED BY <1>1, <1>2, <1>3, <1>4, <1>5, <1>6, <1>7, Steps

-----------------------------------------------------------------------------
(* Replies.                                                                *)

(* The actions that answer a call; every other one leaves a reply that     *)
(* none of the properties is about.                                        *)
Silent == ret'.kind \in {"none", "error", "filled"}

(* Only these steps make a call return an answer.                          *)
LEMMA AnsweringSteps ==
    ASSUME [Next]_vars
    PROVE  \/ \E t \in Threads, u \in Users : LookupCached(t, u)
           \/ \E t \in Threads, S \in SUBSET Pns : LookupMany(t, S)
           \/ \E t \in Threads, b \in Puts : StartPut(t, b)
           \/ \E t \in Threads : QueryMapping(t) \/ QueryMany(t) \/ Commit(t)
           \/ UNCHANGED vars
           \/ Silent
<1> USE DEF Silent, Return, Become
<1>1. ASSUME NEW t \in Threads, NEW u \in Users, LookupMisses(t, u) PROVE Silent
  BY <1>1 DEF LookupMisses, NoReply
<1>2. ASSUME NEW t \in Threads, FillCache(t) PROVE Silent
  BY <1>2 DEF FillCache, FillReply
<1>3. ASSUME NEW t \in Threads, PutOne(t) PROVE Silent
  BY <1>3 DEF PutOne, NoReply
<1>4. ASSUME NEW t \in Threads, QueryMappingFails(t) PROVE Silent
  BY <1>4 DEF QueryMappingFails, ErrorReply
<1>5. ASSUME NEW t \in Threads, QueryManyFails(t) PROVE Silent
  BY <1>5 DEF QueryManyFails, ErrorReply
<1>6. ASSUME NEW t \in Threads, FillCacheFails(t) PROVE Silent
  BY <1>6 DEF FillCacheFails, ErrorReply
<1>7. ASSUME NEW t \in Threads, Rollback(t) PROVE Silent
  BY <1>7 DEF Rollback, ErrorReply
<1>8. ASSUME Restart PROVE Silent
  BY <1>8 DEF Restart, NoReply
<1> HIDE DEF Silent
<1> QED BY <1>1, <1>2, <1>3, <1>4, <1>5, <1>6, <1>7, <1>8, Steps

(* What the answering actions leave in ret.                                *)
LEMMA ReplyKinds ==
    ASSUME NEW t \in Threads
    PROVE  /\ \A u \in Users : LookupCached(t, u) => ret'.kind = "user"
           /\ \A S \in SUBSET Pns : LookupMany(t, S) => ret'.kind \in {"many", "none"}
           /\ \A b \in Puts : StartPut(t, b) => ret'.kind \in {"put", "none"}
           /\ QueryMapping(t) => ret'.kind = "user"
           /\ QueryMany(t) => ret'.kind = "many"
           /\ Commit(t) => ret'.kind = "put"
<1> USE DEF Return, Become
<1>1. \A u \in Users : LookupCached(t, u) => ret'.kind = "user"
  BY DEF LookupCached, UserReply
<1>2. \A S \in SUBSET Pns : LookupMany(t, S) => ret'.kind \in {"many", "none"}
  BY DEF LookupMany, ManyReply, NoReply
<1>3. \A b \in Puts : StartPut(t, b) => ret'.kind \in {"put", "none"}
  BY DEF StartPut, PutReply, NoReply
<1>4. QueryMapping(t) => ret'.kind = "user"
  BY DEF QueryMapping, UserReply
<1>5. QueryMany(t) => ret'.kind = "many"
  BY DEF QueryMany, ManyReply
<1>6. Commit(t) => ret'.kind = "put"
  BY DEF Commit, PutReply
<1> QED BY <1>1, <1>2, <1>3, <1>4, <1>5, <1>6

(* An answer of GetLIDForPN or GetPNForLID is in the table when it is      *)
(* given.                                                                  *)
LEMMA LookupsStep ==
    /\ TypeOK /\ LockInv /\ CachesMatchTable /\ LookupsAreCurrent
    /\ [Next]_vars
    => LookupsAreCurrent'
<1> SUFFICES ASSUME TypeOK, LockInv, CachesMatchTable, LookupsAreCurrent,
                    [Next]_vars
             PROVE  LookupsAreCurrent'
  OBVIOUS
<1>1. ASSUME NEW t \in Threads, NEW u \in Users, LookupCached(t, u)
      PROVE  LookupsAreCurrent'
  <2> DEFINE a == IF cache[u] = Absent THEN NoUser ELSE cache[u]
  <2>1. ret' = UserReply(u, a) /\ rows' = rows /\ poisoned' = poisoned
    BY <1>1 DEF LookupCached, Return
  <2>2. work = rows
    BY <1>1 DEF LookupCached, LockInv
  <2>3. CASE cache[u] # Absent
    BY <2>1, <2>2, <2>3
       DEF CachesMatchTable, Coherent, LookupsAreCurrent, UserReply
  <2>4. CASE cache[u] = Absent
    <3>1. cacheFilled
      BY <1>1, <2>4 DEF LookupCached
    <3>2. ~poisoned => \A v \in Users : ~Linked(rows, u, v)
      BY <2>2, <2>4, <3>1 DEF CachesMatchTable, Complete
    <3> QED BY <2>1, <2>4, <3>2 DEF LookupsAreCurrent, UserReply, IsAnswer
  <2> QED BY <2>3, <2>4
<1>2. ASSUME NEW t \in Threads, QueryMapping(t) PROVE LookupsAreCurrent'
  BY <1>2 DEF QueryMapping, Return, UserReply, LookupsAreCurrent
<1>3. CASE ret'.kind # "user"
  BY <1>3 DEF LookupsAreCurrent
<1>4. CASE UNCHANGED vars
  BY <1>4 DEF vars, LookupsAreCurrent
<1> QED BY <1>1, <1>2, <1>3, <1>4, AnsweringSteps, ReplyKinds DEF Silent

(* GetManyLIDsForPNs returns mappings of its two points in time and leaves *)
(* out no PN that has one at both.                                         *)
LEMMA ManyLookupsStep ==
    /\ TypeOK /\ LockInv /\ CachesMatchTable /\ ManyInv
    /\ ManyLookupsAreCurrent /\ [Next]_vars
    => ManyLookupsAreCurrent'
<1> SUFFICES ASSUME TypeOK, LockInv, CachesMatchTable, ManyInv,
                    ManyLookupsAreCurrent, [Next]_vars
             PROVE  ManyLookupsAreCurrent'
  OBVIOUS
<1>1. ASSUME NEW t \in Threads, NEW S \in SUBSET Pns, LookupMany(t, S)
      PROVE  ManyLookupsAreCurrent'
  <2> DEFINE hits    == {<<cache[p], p>> : p \in {p \in S : cache[p] \in Lids}}
             missing == {p \in S : cache[p] \notin Lids /\ ~cacheFilled}
  <2>1. CASE missing # {}
    BY <1>1, <2>1 DEF LookupMany, Become, NoReply, ManyLookupsAreCurrent
  <2>2. CASE missing = {}
    <3>1. ret' = ManyReply(S, hits, rows) /\ rows' = rows /\ poisoned' = poisoned
      BY <1>1, <2>2 DEF LookupMany, Return
    <3>2. work = rows
      BY <1>1 DEF LookupMany, LockInv
    <3>3. ~poisoned => hits \subseteq rows
      BY <3>2, HitsAreRows DEF CachesMatchTable, TypeOK
    <3>4. ASSUME ~poisoned, NEW r \in rows, r[2] \in S
          PROVE  \E h \in hits : h[2] = r[2]
      <4> DEFINE p == r[2]
      <4>1. p \in Pns /\ p \in Users /\ r[1] \in Users /\ Linked(rows, p, r[1])
        BY DEF TypeOK, Rows, Linked, Users
      <4>2. cache[p] \in Lids \/ cacheFilled
        BY <2>2, <3>4
      <4>3. cache[p] # Absent
        BY <3>2, <3>4, <4>1, <4>2, UsersAssumption
           DEF CachesMatchTable, Complete, Users
      <4>4. IsAnswer(rows, p, cache[p])
        BY <3>2, <3>4, <4>1, <4>3 DEF CachesMatchTable, Coherent
      <4>5. Linked(rows, p, cache[p])
        BY <4>1, <4>4 DEF IsAnswer
      <4>6. cache[p] \in Lids
        BY <4>1, <4>5, UsersAssumption DEF TypeOK, Rows, Linked
      <4>7. <<cache[p], p>> \in hits
        BY <3>4, <4>6
      <4> QED BY <4>7
    <3> HIDE DEF hits
    <3> QED BY <3>1, <3>3, <3>4 DEF ManyReply, ManyLookupsAreCurrent
  <2> QED BY <2>1, <2>2
<1>2. ASSUME NEW t \in Threads, QueryMany(t) PROVE ManyLookupsAreCurrent'
  <2> DEFINE o       == op[t]
             fetched == {r \in rows : r[2] \in o.missing}
  <2>1. /\ ret' = ManyReply(o.asked, o.hits \cup fetched, o.then)
        /\ rows' = rows /\ poisoned' = poisoned
    BY <1>2 DEF QueryMany, Return
  <2>2. /\ ~poisoned => o.hits \subseteq o.then
        /\ \A p \in o.asked \ o.missing : \E h \in o.hits : h[2] = p
    BY <1>2 DEF QueryMany, ManyInv
  <2>3. ~poisoned => o.hits \cup fetched \subseteq rows \cup o.then
    BY <2>2
  <2>4. \A r \in rows : r[2] \in o.asked =>
                           \E f \in o.hits \cup fetched : f[2] = r[2]
    BY <2>2
  <2> HIDE DEF fetched
  <2> QED BY <2>1, <2>3, <2>4 DEF ManyReply, ManyLookupsAreCurrent
<1>3. CASE ret'.kind # "many"
  BY <1>3 DEF ManyLookupsAreCurrent
<1>4. CASE UNCHANGED vars
  BY <1>4 DEF vars, ManyLookupsAreCurrent
<1> QED BY <1>1, <1>2, <1>3, <1>4, AnsweringSteps, ReplyKinds DEF Silent

(* A batch stores the mappings nothing in it contradicts, if what it       *)
(* leaves out is redundant.                                                *)
LEMMA UncontestedIsStored ==
    ASSUME NEW R \in Rows, NEW b \in Puts, NEW K \in SUBSET DOMAIN b,
           \A k \in K : b[k].valid,
           (DOMAIN b) \ K \subseteq Table!Redundant(R, b),
           NEW i \in DOMAIN b, Uncontested(b, i)
    PROVE  <<b[i].lid, b[i].pn>> \in Table!PutAll(R, b, K)
<1>1. \A j \in K : ~Table!Conflict(Table!RowOf(b[j]), Table!RowOf(b[i]))
  BY DEF Uncontested, Table!Conflict, Table!RowOf
<1>2. CASE i \in K
  BY <1>1, <1>2 DEF Table!PutAll, Table!RowOf
<1>3. CASE i \notin K
  <2>1. Table!RowOf(b[i]) \in R
    BY <1>3 DEF Table!Redundant, Uncontested, FirstOfItsKind
  <2> QED BY <1>1, <2>1 DEF Table!PutAll, Table!RowOf
<1> QED BY <1>2, <1>3

(* When a put returns without an error, its uncontested mappings are in    *)
(* the table, as long as the cache could be trusted.                       *)
LEMMA AckedPutsStep ==
    /\ TypeOK /\ LockInv /\ TxnInv /\ CachesMatchTable
    /\ AckedPutIsStoredUnlessPoisoned /\ [Next]_vars
    => AckedPutIsStoredUnlessPoisoned'
<1> SUFFICES ASSUME TypeOK, LockInv, TxnInv, CachesMatchTable,
                    AckedPutIsStoredUnlessPoisoned, [Next]_vars
             PROVE  AckedPutIsStoredUnlessPoisoned'
  OBVIOUS
<1> USE DEF AckedPutIsStoredUnlessPoisoned, AckedPutIsStored
<1>1. ASSUME NEW t \in Threads, NEW b \in Puts, StartPut(t, b)
      PROVE  AckedPutIsStoredUnlessPoisoned'
  <2>1. CASE Wanted(cache, b) # {}
    BY <1>1, <2>1 DEF StartPut, Become, NoReply
  <2>2. CASE Wanted(cache, b) = {}
    <3>1. ret' = PutReply(b) /\ rows' = rows /\ poisoned' = poisoned /\ work = rows
      BY <1>1, <2>2 DEF StartPut, Return, LockInv
    <3>2. ~poisoned => (DOMAIN b) \ {} \subseteq Table!Redundant(rows, b)
      BY <2>2, <3>1, FilteredIsRedundant DEF CachesMatchTable, TypeOK
    <3>3. ASSUME ~poisoned, NEW i \in DOMAIN b, Uncontested(b, i)
          PROVE  <<b[i].lid, b[i].pn>> \in Table!PutAll(rows, b, {})
      BY <3>2, <3>3, UncontestedIsStored DEF TypeOK
    <3> QED BY <3>1, <3>3, PutNothing DEF PutReply
  <2> QED BY <2>1, <2>2
<1>2. ASSUME NEW t \in Threads, Commit(t)
      PROVE  AckedPutIsStoredUnlessPoisoned'
  <2> DEFINE o == op[t]
  <2>1. /\ ret' = PutReply(o.batch) /\ rows' = work /\ poisoned' = poisoned
        /\ o.kind = "txn" /\ o.todo = {}
    BY <1>2 DEF Commit, Return
  <2>2. o.batch \in Puts /\ o.done \in SUBSET DOMAIN o.batch
    BY <2>1, TxnType DEF TypeOK
  <2>3. /\ \A k \in o.done : o.batch[k].valid
        /\ work = Table!PutAll(rows, o.batch, o.done)
        /\ ~poisoned => (DOMAIN o.batch) \ o.done
                           \subseteq Table!Redundant(rows, o.batch)
    BY <2>1 DEF TxnInv
  <2>4. ASSUME ~poisoned, NEW i \in DOMAIN o.batch, Uncontested(o.batch, i)
        PROVE  <<o.batch[i].lid, o.batch[i].pn>> \in work
    BY <2>2, <2>3, <2>4, UncontestedIsStored DEF TypeOK
  <2> QED BY <2>1, <2>4 DEF PutReply
<1>3. CASE ret'.kind # "put"
  BY <1>3
<1>4. CASE UNCHANGED vars
  BY <1>4 DEF vars
<1> QED BY <1>1, <1>2, <1>3, <1>4, AnsweringSteps, ReplyKinds DEF Silent

-----------------------------------------------------------------------------
(* Theorems.                                                               *)

(* The inductive invariant holds at the start.                             *)
LEMMA IInvInit == Init => IInv
<1> SUFFICES ASSUME Init PROVE IInv
  OBVIOUS
<1>1. TablesAreOneToOne
  BY DEF Init, TablesAreOneToOne
<1>2. LockInv
  BY UsersAssumption DEF Init, LockInv, LockFree, Idle
<1>3. ret.kind = "none"
  BY DEF Init, NoReply
<1>4. LookupsAreCurrent /\ ManyLookupsAreCurrent /\ AckedPutIsStoredUnlessPoisoned
  BY <1>3 DEF LookupsAreCurrent, ManyLookupsAreCurrent,
              AckedPutIsStoredUnlessPoisoned, AckedPutIsStored
<1> QED
  BY <1>1, <1>2, <1>4, TypeInit, CacheInit, TxnInit, ManyInit DEF IInv

(* The inductive invariant is preserved by every step.                     *)
LEMMA IInvStep == IInv /\ [Next]_vars => IInv'
BY TypeStep, LockStep, OneToOneStep, CacheStep, TxnStep, ManyStep, LookupsStep,
   ManyLookupsStep, AckedPutsStep DEF IInv

(* The invariant holds in every reachable state, for any users, goroutines *)
(* and batches: every other theorem about the LID store follows from it.   *)
THEOREM InductiveInvariant == Spec => []IInv
BY IInvInit, IInvStep, PTL DEF Spec

(* Type correctness, for any users, goroutines and batches.                *)
THEOREM TypeCorrectness == Spec => []TypeOK
<1>1. IInv => TypeOK
  BY DEF IInv
<1> QED BY <1>1, InductiveInvariant, PTL

(* Neither column of lid_map ever holds a value twice, in a transaction    *)
(* or out of one.                                                          *)
THEOREM TableUniqueness == Spec => []TablesAreOneToOne
<1>1. IInv => TablesAreOneToOne
  BY DEF IInv
<1> QED BY <1>1, InductiveInvariant, PTL

(* The caches agree with the table until a transaction fails half way.     *)
THEOREM CacheCoherence == Spec => []CachesMatchTable
<1>1. IInv => CachesMatchTable
  BY DEF IInv
<1> QED BY <1>1, InductiveInvariant, PTL

(* What callers see: lookups are current, acknowledged puts are stored.    *)
THEOREM CallersSeeTheTable ==
    Spec => []RepliesMatchTable
<1>1. IInv => RepliesMatchTable
  BY DEF IInv, RepliesMatchTable
<1> QED BY <1>1, InductiveInvariant, PTL

(* Every step of the store is a step of LidTable or changes neither the    *)
(* committed table nor the trust in the cache.                             *)
LEMMA TableStep == IInv /\ [Next]_vars => [Table!Next]_(Table!vars)
<1> SUFFICES ASSUME IInv, [Next]_vars PROVE [Table!Next]_(Table!vars)
  OBVIOUS
<1> USE DEF Table!vars, Table!Next
<1>1. ASSUME NEW t \in Threads, Commit(t) PROVE [Table!Next]_(Table!vars)
  <2> DEFINE o == op[t]
  <2>1. /\ rows' = work /\ poisoned' = poisoned
        /\ o.kind = "txn" /\ o.todo = {}
    BY <1>1 DEF Commit
  <2>2. o.batch \in Puts /\ o.done \in SUBSET DOMAIN o.batch
    BY <2>1, TxnType DEF IInv, TypeOK
  <2>3. /\ \A k \in o.done : o.batch[k].valid
        /\ work = Table!PutAll(rows, o.batch, o.done)
        /\ ~poisoned => (DOMAIN o.batch) \ o.done
                           \subseteq Table!Redundant(rows, o.batch)
    BY <2>1 DEF IInv, TxnInv
  <2>4. o.done \in SUBSET {i \in DOMAIN o.batch : o.batch[i].valid}
    BY <2>2, <2>3
  <2>5. Table!PutBatch(o.batch)
    BY <2>1, <2>3, <2>4 DEF Table!PutBatch
  <2> QED BY <2>2, <2>5
<1>2. ASSUME NEW t \in Threads, Rollback(t) PROVE [Table!Next]_(Table!vars)
  <2>1. rows' = rows /\ poisoned' \in BOOLEAN /\ (poisoned => poisoned')
    BY <1>2 DEF Rollback, IInv, TypeOK
  <2> QED BY <2>1 DEF Table!Distrust, IInv, TypeOK
<1>3. CASE Restart
  BY <1>3 DEF Restart, Table!Restart
<1>4. CASE UNCHANGED <<rows, poisoned>>
  BY <1>4
<1> QED
  <2>1. ASSUME NEW t \in Threads,
               \/ \E u \in Users : LookupCached(t, u) \/ LookupMisses(t, u)
               \/ \E S \in SUBSET Pns : LookupMany(t, S)
               \/ \E b \in Puts : StartPut(t, b)
               \/ QueryMapping(t) \/ QueryMappingFails(t)
               \/ QueryMany(t) \/ QueryManyFails(t)
               \/ FillCache(t) \/ FillCacheFails(t) \/ PutOne(t)
        PROVE  UNCHANGED <<rows, poisoned>>
    BY <2>1 DEF LookupCached, LookupMisses, LookupMany, StartPut, QueryMapping,
                QueryMappingFails, QueryMany, QueryManyFails, FillCache,
                FillCacheFails, PutOne
  <2>2. UNCHANGED vars => UNCHANGED <<rows, poisoned>>
    BY DEF vars
  <2> HIDE DEF Table!vars, Table!Next
  <2> QED BY <1>1, <1>2, <1>3, <1>4, <2>1, <2>2, Steps

(* The cached, locked and transactional store implements LidTable.         *)
THEOREM Refinement == Spec => ImplementsTable
<1>1. Init => Table!Init
  BY DEF Init, OneToOne, Table!Init, Table!OneToOneTable, Table!Conflict
<1> QED
  BY <1>1, TableStep, InductiveInvariant, PTL
     DEF Spec, ImplementsTable, Table!Spec
=============================================================================
