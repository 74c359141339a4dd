--------------------------- MODULE PreKeysProofs ---------------------------
(***************************************************************************)
(* Theorems about PreKeys, for any number of goroutines, keys and ids: the *)
(* types, that an INSERT never meets an id that is taken, and what a batch *)
(* of keys is from its query to the mark.                                  *)
(***************************************************************************)
EXTENDS PreKeys, FiniteSetTheorems, TLAPS

(* The lock is with the goroutine that generates keys, and with no other.  *)
LockInv == \A t \in Threads : Generating(t) <=> preKeyLock = t

(* The inductive invariant.  Without LockInv the claim is not inductive:   *)
(* two goroutines could have read the same MAX.                            *)
Inv == TypeOK /\ LockInv /\ InsertsNeverConflict

-----------------------------------------------------------------------------
(* At first nothing is generated, and no goroutine holds the lock.         *)
LEMMA InitInv == Init => Inv
<1> SUFFICES ASSUME Init PROVE Inv
  OBVIOUS
<1> USE PreKeysAssumption
<1>1. TypeOK
  BY DEF Init, TypeOK, Ops, Idle, NoReply
<1>2. LockInv
  BY DEF Init, LockInv, Generating, Idle
<1>3. InsertsNeverConflict
  BY DEF Init, InsertsNeverConflict, Idle
<1>4. QED
  BY <1>1, <1>2, <1>3 DEF Inv

-----------------------------------------------------------------------------
(* What a generating call has are rows.                                    *)
LEMMA KeysType ==
  ASSUME NEW o \in Ops, o.kind \in {"queried", "generate"}
  PROVE  Keys(o) \subseteq Row /\ o.old \subseteq Row
BY DEF Ops, Keys

(* The types are preserved by every step.                                  *)
LEMMA NextType == TypeOK /\ [Next]_vars => TypeOK'
<1> SUFFICES ASSUME TypeOK, [Next]_vars PROVE TypeOK'
  OBVIOUS
<1> USE PreKeysAssumption
<1>1. ASSUME NEW t \in Threads, NEW n \in Counts, GetOrGenPreKeys(t, n)
      PROVE  TypeOK'
  <2>1. PICK Q \in SUBSET Pending(rows) :
           Become(t, [kind |-> "queried", want |-> n, old |-> Q, mark |-> FALSE,
                      robbed |-> FALSE])
    BY <1>1 DEF GetOrGenPreKeys
  <2>2. Q \subseteq Row
    BY DEF TypeOK, Pending
  <2>3. [kind |-> "queried", want |-> n, old |-> Q, mark |-> FALSE,
         robbed |-> FALSE] \in Ops
    BY <2>2 DEF Ops
  <2>4. QED
    BY <1>1, <2>1, <2>3 DEF GetOrGenPreKeys, TypeOK, Become, NoReply
<1>2. ASSUME NEW t \in Threads, GenOnePreKey(t)
      PROVE  TypeOK'
  <2>1. [kind |-> "queried", want |-> 1, old |-> {}, mark |-> TRUE,
         robbed |-> FALSE] \in Ops
    BY DEF Ops
  <2>2. QED
    BY <1>2, <2>1 DEF GenOnePreKey, TypeOK, Become, NoReply
<1>3. ASSUME NEW t \in Threads, GetNextPreKeyID(t)
      PROVE  TypeOK'
  <2>1. PICK m \in Ids(rows) \cup {0} :
           Become(t, [kind |-> "generate", want |-> op[t].want, old |-> op[t].old,
                      new |-> {}, next |-> m + 1, mark |-> op[t].mark,
                      robbed |-> op[t].robbed])
    BY <1>3 DEF GetNextPreKeyID
  <2>2. m + 1 \in 1 .. LastId + 1
    BY DEF TypeOK, Ids, Row
  <2>3. op[t] \in Ops /\ op[t].kind = "queried"
    BY <1>3 DEF TypeOK, GetNextPreKeyID
  <2>4. /\ op[t].want \in Nat /\ op[t].old \in SUBSET Row
        /\ op[t].mark \in BOOLEAN /\ op[t].robbed \in BOOLEAN
    BY <2>3 DEF Ops
  <2>5. [kind |-> "generate", want |-> op[t].want, old |-> op[t].old,
         new |-> {}, next |-> m + 1, mark |-> op[t].mark,
         robbed |-> op[t].robbed] \in Ops
    BY <2>2, <2>4 DEF Ops
  <2>6. QED
    BY <1>3, <2>1, <2>5 DEF GetNextPreKeyID, TypeOK, Become, NoReply
<1>4. ASSUME NEW t \in Threads, InsertPreKey(t)
      PROVE  TypeOK'
  <2> DEFINE o == op[t]
             r == [id |-> o.next, key |-> made + 1, uploaded |-> o.mark]
  <2>1. o \in Ops /\ o.kind = "generate" /\ o.next <= LastId
    BY <1>4 DEF InsertPreKey, TypeOK
  <2>2. /\ o.next \in 1 .. LastId + 1 /\ o.mark \in BOOLEAN
        /\ o.new \subseteq Row
    BY <2>1 DEF Ops
  <2>3. r \in Row
    BY <2>1, <2>2 DEF Row, TypeOK
  <2>4. [o EXCEPT !.new = @ \cup {r}, !.next = @ + 1] \in Ops
    <3>1. o.new \cup {r} \in SUBSET Row /\ o.next + 1 \in 1 .. LastId + 1
      BY <2>1, <2>2, <2>3
    <3>2. o \in [kind : {"generate"}, want : Nat, old : SUBSET Row,
                 new : SUBSET Row, next : 1 .. LastId + 1, mark : BOOLEAN,
                 robbed : BOOLEAN]
      BY <2>1 DEF Ops
    <3>3. QED
      BY <3>1, <3>2 DEF Ops
  <2>5. rows' = rows \cup {r} /\ made' = made + 1
        /\ op' = [op EXCEPT ![t] = [o EXCEPT !.new = @ \cup {r}, !.next = @ + 1]]
        /\ ret' = NoReply /\ UNCHANGED <<preKeyLock, published>>
        /\ direct' \in {direct, direct \cup {made + 1}}
    BY <1>4 DEF InsertPreKey, Become
  <2>6. QED
    BY <2>3, <2>4, <2>5 DEF TypeOK, NoReply
<1>5. ASSUME NEW t \in Threads, Finish(t)
      PROVE  TypeOK'
  <2>1. op[t] \in Ops /\ op[t].kind \in {"queried", "generate"}
    BY <1>5 DEF Finish, Generating, TypeOK
  <2>2. Keys(op[t]) \subseteq Row
    BY <2>1, KeysType
  <2>3. CASE HandOut(t)
    <3>1. Idle \in Ops
      BY DEF Ops, Idle
    <3>2. {Public(r) : r \in Keys(op[t])} \subseteq [id : 1 .. LastId, key : Nat]
      BY <2>2 DEF Public, Row
    <3>3. QED
      BY <1>5, <2>3, <3>1, <3>2 DEF Finish, HandOut, Return, TypeOK
  <2>4. CASE PassOn(t)
    <3>1. PICK m \in Ids(Keys(op[t])) :
             op' = [op EXCEPT ![t] = [kind |-> "upload", keys |-> Keys(op[t]),
                                      last |-> m]]
      BY <2>4 DEF PassOn
    <3>2. m \in 1 .. LastId
      BY <2>2 DEF Ids, Row
    <3>3. [kind |-> "upload", keys |-> Keys(op[t]), last |-> m] \in Ops
      BY <2>2, <3>2 DEF Ops
    <3>4. QED
      BY <1>5, <2>4, <3>1, <3>3 DEF Finish, PassOn, TypeOK
  <2>5. QED
    BY <1>5, <2>3, <2>4 DEF Finish
<1>6. ASSUME NEW t \in Threads, GenerationFails(t)
      PROVE  TypeOK'
  BY <1>6 DEF GenerationFails, TypeOK, Return, Idle, Ops, Error
<1>7. ASSUME NEW t \in Threads, Upload(t)
      PROVE  TypeOK'
  <2>1. op[t] \in Ops /\ op[t].kind = "upload"
    BY <1>7 DEF Upload, TypeOK
  <2>2. op[t].keys \subseteq Row /\ op[t].last \in 1 .. LastId
        /\ [op[t] EXCEPT !.kind = "mark"] \in Ops
    BY <2>1 DEF Ops
  <2>3. {Public(r) : r \in op[t].keys} \subseteq [id : 1 .. LastId, key : Nat]
    BY <2>2 DEF Public, Row
  <2>4. op' \in [Threads -> Ops] /\ ret'.kind \in {"none", "error"}
    BY <1>7, <2>2 DEF Upload, Become, Return, NoReply, Error, Idle, Ops, TypeOK
  <2>5. QED
    BY <1>7, <2>3, <2>4 DEF Upload, TypeOK
<1>8. ASSUME NEW t \in Threads, UploadFails(t)
      PROVE  TypeOK'
  BY <1>8 DEF UploadFails, TypeOK, Return, Idle, Ops, Error
<1>9. ASSUME NEW t \in Threads, MarkPreKeysAsUploaded(t)
      PROVE  TypeOK'
  <2>1. rows' \subseteq Row
    BY <1>9 DEF MarkPreKeysAsUploaded, TypeOK, Row
  <2>2. QED
    BY <1>9, <2>1 DEF MarkPreKeysAsUploaded, TypeOK, Return, Idle, Ops
<1>10. ASSUME NEW r \in rows, RemovePreKey(r)
       PROVE  TypeOK'
  <2>1. ASSUME NEW t \in Threads, Generating(t)
        PROVE  [op[t] EXCEPT !.robbed = TRUE] \in Ops
    <3>1. op[t] \in Ops
      BY DEF TypeOK
    <3>2. CASE op[t].kind = "queried"
      BY <3>1, <3>2 DEF Ops
    <3>3. CASE op[t].kind = "generate"
      BY <3>1, <3>3 DEF Ops
    <3> QED BY <2>1, <3>2, <3>3 DEF Generating
  <2>2. op' \in [Threads -> Ops]
    BY <1>10, <2>1 DEF RemovePreKey, TypeOK
  <2>3. QED
    BY <1>10, <2>2 DEF RemovePreKey, TypeOK, NoReply
<1>11. ASSUME Restart
       PROVE  TypeOK'
  BY <1>11 DEF Restart, TypeOK, Idle, NoReply, Ops
<1>12. ASSUME UNCHANGED vars
       PROVE  TypeOK'
  BY <1>12 DEF vars, TypeOK
<1>13. QED
  BY <1>1, <1>2, <1>3, <1>4, <1>5, <1>6, <1>7, <1>8, <1>9, <1>10, <1>11, <1>12
     DEF Next, Advance

-----------------------------------------------------------------------------
(* The lock and the claim are preserved by every step: a goroutine that    *)
(* has read MAX is alone with it, and the others only remove rows or mark  *)
(* them.                                                                   *)
LEMMA NextSafe == Inv /\ [Next]_vars => (LockInv /\ InsertsNeverConflict)'
<1> SUFFICES ASSUME Inv, [Next]_vars PROVE (LockInv /\ InsertsNeverConflict)'
  OBVIOUS
<1> USE PreKeysAssumption DEF Inv
<1> op \in [Threads -> Ops]
  BY DEF TypeOK
<1>1. ASSUME NEW t \in Threads, NEW n \in Counts, GetOrGenPreKeys(t, n)
      PROVE  (LockInv /\ InsertsNeverConflict)'
  BY <1>1 DEF GetOrGenPreKeys, Become, LockInv, Generating, InsertsNeverConflict
<1>2. ASSUME NEW t \in Threads, GenOnePreKey(t)
      PROVE  (LockInv /\ InsertsNeverConflict)'
  BY <1>2 DEF GenOnePreKey, Become, LockInv, Generating, InsertsNeverConflict
<1>3. ASSUME NEW t \in Threads, GetNextPreKeyID(t)
      PROVE  (LockInv /\ InsertsNeverConflict)'
  <2>1. PICK m \in Ids(rows) \cup {0} :
           /\ IsLastId(m, rows)
           /\ op' = [op EXCEPT ![t] =
                [kind |-> "generate", want |-> op[t].want, old |-> op[t].old,
                 new |-> {}, next |-> m + 1, mark |-> op[t].mark,
                 robbed |-> op[t].robbed]]
    BY <1>3 DEF GetNextPreKeyID, Become
  <2>2. \A r \in rows : r.id < m + 1
    BY <2>1 DEF IsLastId, TypeOK, Row, Ids
  <2>3. QED
    BY <1>3, <2>1, <2>2
       DEF GetNextPreKeyID, LockInv, Generating, InsertsNeverConflict
<1>4. ASSUME NEW t \in Threads, InsertPreKey(t)
      PROVE  (LockInv /\ InsertsNeverConflict)'
  <2> DEFINE o == op[t]
             r == [id |-> o.next, key |-> made + 1, uploaded |-> o.mark]
             p == [o EXCEPT !.new = @ \cup {r}, !.next = @ + 1]
  <2>1. /\ o \in Ops /\ o.kind = "generate"
        /\ rows' = rows \cup {r}
        /\ op' = [op EXCEPT ![t] = p]
        /\ preKeyLock' = preKeyLock
    BY <1>4 DEF InsertPreKey, Become
  <2>2. o \in [kind : {"generate"}, want : Nat, old : SUBSET Row,
               new : SUBSET Row, next : 1 .. LastId + 1, mark : BOOLEAN,
               robbed : BOOLEAN]
    BY <2>1 DEF Ops
  <2>3. p.kind = "generate" /\ p.next = o.next + 1 /\ o.next \in Nat
    BY <2>2
  <2>4. LockInv'
    BY <2>1, <2>3 DEF LockInv, Generating
  <2>5. \A s \in Threads : s # t => op'[s].kind # "generate"
    BY <2>1 DEF LockInv, Generating
  <2>6. \A x \in rows' : x.id < p.next
    BY <2>1, <2>3 DEF InsertsNeverConflict, TypeOK, Row
  <2>7. op'[t] = p
    BY <2>1
  <2>8. InsertsNeverConflict'
    BY <2>5, <2>6, <2>7 DEF InsertsNeverConflict
  <2>9. QED
    BY <2>4, <2>8
<1>5. ASSUME NEW t \in Threads, Finish(t)
      PROVE  (LockInv /\ InsertsNeverConflict)'
  <2>1. \E u : op' = [op EXCEPT ![t] = u] /\ u.kind \in {"idle", "upload"}
    BY <1>5 DEF Finish, HandOut, PassOn, Return, Idle
  <2>2. preKeyLock = t /\ preKeyLock' = NoThread /\ rows' = rows
    BY <1>5 DEF Finish, LockInv
  <2>3. QED
    BY <2>1, <2>2 DEF LockInv, Generating, InsertsNeverConflict
<1>6. ASSUME NEW t \in Threads, GenerationFails(t)
      PROVE  (LockInv /\ InsertsNeverConflict)'
  BY <1>6 DEF GenerationFails, Return, Idle, LockInv, Generating, InsertsNeverConflict
<1>7. ASSUME NEW t \in Threads, Upload(t)
      PROVE  (LockInv /\ InsertsNeverConflict)'
  <2>1. op[t].kind = "upload"
    BY <1>7 DEF Upload
  <2>2. \/ op' = [op EXCEPT ![t] = [op[t] EXCEPT !.kind = "mark"]]
        \/ op' = [op EXCEPT ![t] = Idle]
    BY <1>7 DEF Upload, Become, Return
  <2>3. \A s \in Threads : s # t => op'[s] = op[s]
    BY <2>2
  <2>4. op'[t].kind \in {"idle", "mark"}
    <3>1. CASE op' = [op EXCEPT ![t] = Idle]
      BY <3>1 DEF Idle
    <3>2. CASE op' = [op EXCEPT ![t] = [op[t] EXCEPT !.kind = "mark"]]
      <4>1. op[t] \in [kind : {"upload", "mark"}, keys : SUBSET Row,
                       last : 1 .. LastId]
        BY <2>1 DEF Ops
      <4>2. QED
        BY <3>2, <4>1
    <3>3. QED
      BY <2>2, <3>1, <3>2
  <2>5. QED
    BY <1>7, <2>1, <2>3, <2>4
       DEF Upload, LockInv, Generating, InsertsNeverConflict
<1>8. ASSUME NEW t \in Threads, UploadFails(t)
      PROVE  (LockInv /\ InsertsNeverConflict)'
  BY <1>8 DEF UploadFails, Return, Idle, LockInv, Generating, InsertsNeverConflict
<1>9. ASSUME NEW t \in Threads, MarkPreKeysAsUploaded(t)
      PROVE  (LockInv /\ InsertsNeverConflict)'
  <2>1. \A r \in rows' : \E q \in rows : r.id = q.id
    BY <1>9 DEF MarkPreKeysAsUploaded, TypeOK, Row
  <2>2. QED
    BY <1>9, <2>1
       DEF MarkPreKeysAsUploaded, Return, Idle, LockInv, Generating,
           InsertsNeverConflict
<1>10. ASSUME NEW r \in rows, RemovePreKey(r)
       PROVE  (LockInv /\ InsertsNeverConflict)'
  <2>1. ASSUME NEW t \in Threads
        PROVE  /\ op'[t].kind = op[t].kind
               /\ op[t].kind = "generate" => op'[t].next = op[t].next
    <3>1. op'[t] = op[t] \/ (Generating(t) /\ op'[t] = [op[t] EXCEPT !.robbed = TRUE])
      BY <1>10 DEF RemovePreKey
    <3>2. op[t] \in Ops
      OBVIOUS
    <3>3. QED
      BY <3>1, <3>2 DEF Ops, Generating
  <2>2. rows' \subseteq rows /\ preKeyLock' = preKeyLock
    BY <1>10 DEF RemovePreKey
  <2>3. QED
    BY <2>1, <2>2 DEF LockInv, Generating, InsertsNeverConflict
<1>11. ASSUME Restart
       PROVE  (LockInv /\ InsertsNeverConflict)'
  BY <1>11 DEF Restart, Idle, LockInv, Generating, InsertsNeverConflict
<1>12. ASSUME UNCHANGED vars
       PROVE  (LockInv /\ InsertsNeverConflict)'
  BY <1>12 DEF vars, LockInv, Generating, InsertsNeverConflict
<1>13. QED
  BY <1>1, <1>2, <1>3, <1>4, <1>5, <1>6, <1>7, <1>8, <1>9, <1>10, <1>11, <1>12
     DEF Next, Advance

-----------------------------------------------------------------------------
(* The invariant holds in every reachable state.                           *)
THEOREM Invariance == Spec => []Inv
<1>1. Inv /\ [Next]_vars => Inv'
  BY NextType, NextSafe DEF Inv
<1>2. QED
  BY <1>1, InitInv, PTL DEF Spec

(* Every variable keeps its type; no id leaves the range of the CHECK.     *)
THEOREM TypeCorrectness == Spec => []TypeOK
BY Invariance, PTL DEF Inv

(* No INSERT of GetOrGenPreKeys or GenOnePreKey meets an id that is taken, *)
(* although keys are removed and marked at any time: preKeyLock, held by   *)
(* the generating calls only, is enough.                                   *)
THEOREM NoConflict == Spec => []InsertsNeverConflict
BY Invariance, PTL DEF Inv
-----------------------------------------------------------------------------
(* The batch of a goroutine, from the query to the mark.                   *)

Uploading(t) == op[t].kind \in {"upload", "mark"}

Justified(r) == Public(r) \in published \/ r.key \in direct

(* Only the uploader has a batch that is not GenOnePreKey's, which starts  *)
(* with nothing.                                                           *)
Roles ==
    \A t \in Threads :
        /\ Generating(t) /\ op[t].mark => op[t].old = {}
        /\ Generating(t) /\ ~op[t].mark => t = Uploader
        /\ Uploading(t) => t = Uploader

(* An id is in the table once, and no key is from the future.  The second  *)
(* is why a key that was removed from the table never comes back.          *)
OneRowPerId == IsFiniteSet(rows) /\ \A r, s \in rows : r.id = s.id => r = s

KeysAreMade ==
    /\ \A r \in rows : r.key <= made
    /\ \A t \in Threads :
          /\ Generating(t) => \A r \in Keys(op[t]) : r.key <= made
          /\ Uploading(t) => \A r \in op[t].keys : r.key <= made

(* What was queried is still there unless it was robbed, and what was      *)
(* generated since comes after it.                                         *)
BatchIsOrdered ==
    \A t \in Threads :
        /\ Generating(t) /\ ~op[t].robbed => op[t].old \subseteq rows
        /\ op[t].kind = "generate" =>
              /\ \A r \in op[t].new : r.id < op[t].next
              /\ \A r, s \in op[t].new : r.id = s.id => r = s
              /\ ~op[t].robbed =>
                    \A r \in op[t].old : /\ r.id < op[t].next
                                         /\ \A s \in op[t].new : r.id < s.id

(* Every key that is still to be uploaded is in the batch, except for      *)
(* those with ids above it when there were enough.                         *)
PendingIsInBatch ==
    \A t \in Threads :
        /\ op[t].kind = "queried" /\ ~op[t].mark =>
              /\ Cardinality(op[t].old) < op[t].want => Pending(rows) \subseteq op[t].old
              /\ \A r \in Pending(rows) \ op[t].old, q \in op[t].old : q.id < r.id
        /\ op[t].kind = "generate" /\ ~op[t].mark =>
              Pending(rows) \subseteq op[t].old \cup op[t].new

(* What the mark will reach: every row up to the last id of the batch is   *)
(* of the batch, published otherwise, or made by GenOnePreKey, and every   *)
(* row of the batch is up to that id.                                      *)
MarkFits(o) ==
    \A r \in rows :
        /\ r.id <= o.last =>
              \/ Justified(r)
              \/ o.kind = "upload" /\ Public(r) \in {Public(k) : k \in o.keys}
        /\ Public(r) \in {Public(k) : k \in o.keys} => r.id <= o.last

MarkIsRight == \A t \in Threads : Uploading(t) => MarkFits(op[t])

BatchInv ==
    /\ Roles
    /\ OneRowPerId
    /\ KeysAreMade
    /\ BatchIsOrdered
    /\ PendingIsInBatch
    /\ MarkIsRight
    /\ UploadedArePublished
    /\ BatchesHaveDistinctIds
    /\ MarkedCompletely

-----------------------------------------------------------------------------
(* The fields of what a goroutine is doing.                                *)
LEMMA QueriedFields ==
  ASSUME NEW o \in Ops, o.kind = "queried"
  PROVE  /\ o.want \in Nat /\ o.old \in SUBSET Row
         /\ o.mark \in BOOLEAN /\ o.robbed \in BOOLEAN
BY DEF Ops

LEMMA GenerateFields ==
  ASSUME NEW o \in Ops, o.kind = "generate"
  PROVE  /\ o.want \in Nat /\ o.old \in SUBSET Row /\ o.new \in SUBSET Row
         /\ o.next \in 1 .. LastId + 1 /\ o.mark \in BOOLEAN
         /\ o.robbed \in BOOLEAN
BY DEF Ops

LEMMA UploadFields ==
  ASSUME NEW o \in Ops, o.kind \in {"upload", "mark"}
  PROVE  o.keys \in SUBSET Row /\ o.last \in 1 .. LastId
BY DEF Ops

(* A batch that is not full has all that was to be uploaded.               *)
LEMMA LowestIsAll ==
  ASSUME NEW R, NEW Q, NEW n \in Nat, IsFiniteSet(R), IsLowest(Q, R, n),
         Cardinality(Q) < n
  PROVE  R \subseteq Q
<1>1. Q \subseteq R /\ Cardinality(Q) = Cardinality(R)
  <2>1. Cardinality(R) \in Nat
    BY FS_CardinalityType
  <2>2. QED
    BY <2>1 DEF IsLowest
<1>2. QED
  BY <1>1, FS_Subset

(* At first there is no batch.                                             *)
LEMMA InitBatch == Init => BatchInv
<1> SUFFICES ASSUME Init PROVE BatchInv
  OBVIOUS
<1> USE DEF Init, Idle, NoReply, Generating, Uploading
<1>1. Roles /\ KeysAreMade /\ BatchIsOrdered /\ PendingIsInBatch /\ MarkIsRight
  BY DEF Roles, KeysAreMade, BatchIsOrdered, PendingIsInBatch, MarkIsRight
<1>2. OneRowPerId
  BY FS_EmptySet DEF OneRowPerId
<1>3. UploadedArePublished /\ BatchesHaveDistinctIds /\ MarkedCompletely
  BY DEF UploadedArePublished, BatchesHaveDistinctIds, MarkedCompletely
<1>4. QED
  BY <1>1, <1>2, <1>3 DEF BatchInv

-----------------------------------------------------------------------------
(* The query: a batch that has the lowest of the pending keys, or none.    *)
LEMMA StepQuery ==
  ASSUME Inv, BatchInv, NEW t \in Threads, NEW n \in Counts, GetOrGenPreKeys(t, n)
  PROVE  BatchInv'
<1> USE PreKeysAssumption
<1>1. PICK Q \in SUBSET Pending(rows) :
        /\ IsLowest(Q, Pending(rows), n)
        /\ op' = [op EXCEPT ![t] = [kind |-> "queried", want |-> n, old |-> Q,
                                    mark |-> FALSE, robbed |-> FALSE]]
  BY DEF GetOrGenPreKeys, Become
<1> DEFINE o == [kind |-> "queried", want |-> n, old |-> Q, mark |-> FALSE,
                 robbed |-> FALSE]
<1>2. /\ op'[t] = o
      /\ \A s \in Threads : s # t => op'[s] = op[s]
      /\ t = Uploader
      /\ UNCHANGED <<rows, made, direct, published>>
      /\ ret' = NoReply
  BY <1>1 DEF GetOrGenPreKeys, Become, Inv, TypeOK
<1>3. rows \subseteq Row /\ Q \subseteq rows /\ n \in Nat /\ Q \subseteq Pending(rows)
  BY <1>1 DEF Inv, TypeOK, Pending
<1>4. Roles'
  BY <1>2 DEF Roles, BatchInv, Generating, Uploading
<1>5. OneRowPerId'
  BY <1>2 DEF OneRowPerId, BatchInv
<1>6. KeysAreMade'
  <2>1. \A r \in Keys(o) : r.key <= made
    BY <1>3 DEF Keys, KeysAreMade, BatchInv
  <2>2. ~Uploading(t)' /\ \A s \in Threads : s # t => Uploading(s)' = Uploading(s)
    BY <1>2 DEF Uploading
  <2>3. QED
    BY <1>2, <2>1, <2>2 DEF KeysAreMade, BatchInv, Generating
<1>7. BatchIsOrdered'
  BY <1>2, <1>3 DEF BatchIsOrdered, BatchInv, Generating
<1>8. PendingIsInBatch'
  <2>1. IsFiniteSet(Pending(rows))
    BY FS_Subset DEF Pending, BatchInv, OneRowPerId
  <2>2. Cardinality(Q) < n => Pending(rows) \subseteq Q
    BY <1>1, <1>3, <2>1, LowestIsAll
  <2>3. \A r \in Pending(rows) \ Q, q \in Q : q.id < r.id
    BY <1>1 DEF IsLowest
  <2>4. Pending(rows)' = Pending(rows)
    BY <1>2 DEF Pending
  <2>5. QED
    BY <1>2, <2>2, <2>3, <2>4 DEF PendingIsInBatch, BatchInv
<1>9. MarkIsRight'
  <2>1. \A s \in Threads : s # t => ~Uploading(s)
    BY <1>2 DEF BatchInv, Roles
  <2>2. QED
    BY <1>2, <2>1 DEF MarkIsRight, Uploading
<1>10. UploadedArePublished' /\ BatchesHaveDistinctIds' /\ MarkedCompletely'
  BY <1>2 DEF UploadedArePublished, BatchesHaveDistinctIds, MarkedCompletely,
              BatchInv, NoReply
<1>11. QED
  BY <1>4, <1>5, <1>6, <1>7, <1>8, <1>9, <1>10 DEF BatchInv

LEMMA StepGenOne ==
  ASSUME Inv, BatchInv, NEW t \in Threads, GenOnePreKey(t)
  PROVE  BatchInv'
<1> DEFINE o == [kind |-> "queried", want |-> 1, old |-> {}, mark |-> TRUE,
                 robbed |-> FALSE]
<1>1. /\ op'[t] = o
      /\ \A s \in Threads : s # t => op'[s] = op[s]
      /\ UNCHANGED <<rows, made, direct, published>>
      /\ ret' = NoReply
  BY DEF GenOnePreKey, Become, Inv, TypeOK
<1>2. Roles'
  BY <1>1 DEF Roles, BatchInv, Generating, Uploading
<1>3. OneRowPerId'
  BY <1>1 DEF OneRowPerId, BatchInv
<1>4. KeysAreMade'
  BY <1>1 DEF KeysAreMade, BatchInv, Generating, Uploading, Keys
<1>5. BatchIsOrdered'
  BY <1>1 DEF BatchIsOrdered, BatchInv, Generating
<1>6. PendingIsInBatch'
  BY <1>1 DEF PendingIsInBatch, BatchInv, Pending
<1>7. MarkIsRight'
  <2>1. ASSUME NEW s \in Threads, Uploading(s)' PROVE MarkFits(op[s])'
    <3>1. s # t /\ op'[s] = op[s] /\ Uploading(s)
      BY <1>1, <2>1 DEF Uploading
    <3>2. MarkFits(op[s])
      BY <3>1 DEF MarkIsRight, BatchInv
    <3>3. QED
      BY <1>1, <3>1, <3>2 DEF MarkFits, Justified
  <2>2. QED
    BY <2>1 DEF MarkIsRight
<1>8. UploadedArePublished' /\ BatchesHaveDistinctIds' /\ MarkedCompletely'
  BY <1>1 DEF UploadedArePublished, BatchesHaveDistinctIds, MarkedCompletely,
              BatchInv, NoReply
<1>9. QED
  BY <1>2, <1>3, <1>4, <1>5, <1>6, <1>7, <1>8 DEF BatchInv

(* MAX is read: every row has a lower id.                                  *)
LEMMA StepNextId ==
  ASSUME Inv, BatchInv, NEW t \in Threads, GetNextPreKeyID(t)
  PROVE  BatchInv'
<1> USE PreKeysAssumption
<1>1. PICK m \in Ids(rows) \cup {0} :
        /\ IsLastId(m, rows)
        /\ op' = [op EXCEPT ![t] =
             [kind |-> "generate", want |-> op[t].want, old |-> op[t].old,
              new |-> {}, next |-> m + 1, mark |-> op[t].mark,
              robbed |-> op[t].robbed]]
  BY DEF GetNextPreKeyID, Become
<1> DEFINE q == op[t]
           o == [kind |-> "generate", want |-> q.want, old |-> q.old,
                 new |-> {}, next |-> m + 1, mark |-> q.mark,
                 robbed |-> q.robbed]
<1>2. /\ op'[t] = o
      /\ \A s \in Threads : s # t => op'[s] = op[s]
      /\ UNCHANGED <<rows, made, direct, published>>
      /\ ret' = NoReply
      /\ q.kind = "queried" /\ Cardinality(q.old) < q.want
      /\ q \in Ops
  BY <1>1 DEF GetNextPreKeyID, Become, Inv, TypeOK
<1>3. \A r \in rows : r.id < m + 1
  BY <1>1 DEF IsLastId, Ids, Inv, TypeOK, Row
<1>4. Generating(t)
  BY <1>2 DEF Generating
<1>5. Roles'
  BY <1>2, <1>4 DEF Roles, BatchInv, Generating, Uploading
<1>6. OneRowPerId'
  BY <1>2 DEF OneRowPerId, BatchInv
<1>7. KeysAreMade'
  <2>1. Keys(o) = q.old /\ Keys(q) = q.old
    BY <1>2 DEF Keys
  <2>2. \A r \in Keys(o) : r.key <= made
    BY <1>2, <1>4, <2>1 DEF KeysAreMade, BatchInv
  <2>3. ~Uploading(t)' /\ \A s \in Threads : s # t => Uploading(s)' = Uploading(s)
    BY <1>2 DEF Uploading
  <2>4. QED
    BY <1>2, <2>2, <2>3 DEF KeysAreMade, BatchInv, Generating
<1>8. BatchIsOrdered'
  <2>1. ~q.robbed => q.old \subseteq rows
    BY <1>4 DEF BatchIsOrdered, BatchInv
  <2>2. QED
    BY <1>2, <1>3, <2>1 DEF BatchIsOrdered, BatchInv, Generating
<1>9. PendingIsInBatch'
  <2>1. ~q.mark => Pending(rows) \subseteq q.old
    BY <1>2 DEF PendingIsInBatch, BatchInv
  <2>2. Pending(rows)' = Pending(rows)
    BY <1>2 DEF Pending
  <2>3. QED
    BY <1>2, <2>1, <2>2 DEF PendingIsInBatch, BatchInv
<1>10. MarkIsRight'
  <2>1. ASSUME NEW s \in Threads, Uploading(s)' PROVE MarkFits(op[s])'
    <3>1. s # t /\ op'[s] = op[s] /\ Uploading(s)
      BY <1>2, <2>1 DEF Uploading
    <3>2. MarkFits(op[s])
      BY <3>1 DEF MarkIsRight, BatchInv
    <3>3. QED
      BY <1>2, <3>1, <3>2 DEF MarkFits, Justified
  <2>2. QED
    BY <2>1 DEF MarkIsRight
<1>11. UploadedArePublished' /\ BatchesHaveDistinctIds' /\ MarkedCompletely'
  BY <1>2 DEF UploadedArePublished, BatchesHaveDistinctIds, MarkedCompletely,
              BatchInv, NoReply
<1>12. QED
  BY <1>5, <1>6, <1>7, <1>8, <1>9, <1>10, <1>11 DEF BatchInv

(* A key is inserted above all rows, and only its generator has it.        *)
LEMMA StepInsert ==
  ASSUME Inv, BatchInv, NEW t \in Threads, InsertPreKey(t)
  PROVE  BatchInv'
<1> USE PreKeysAssumption
<1> DEFINE o == op[t]
           r == [id |-> o.next, key |-> made + 1, uploaded |-> o.mark]
<1>1. PICK p : p = [o EXCEPT !.new = @ \cup {r}, !.next = @ + 1]
  OBVIOUS
<1>2. /\ op'[t] = p
      /\ \A s \in Threads : s # t => op'[s] = op[s]
      /\ rows' = rows \cup {r}
      /\ made' = made + 1
      /\ direct' = IF o.mark THEN direct \cup {made + 1} ELSE direct
      /\ UNCHANGED published
      /\ ret' = NoReply
      /\ o.kind = "generate"
      /\ o \in Ops
      /\ made \in Nat
  BY <1>1 DEF InsertPreKey, Become, Inv, TypeOK
<1>3. o \in [kind : {"generate"}, want : Nat, old : SUBSET Row,
             new : SUBSET Row, next : 1 .. LastId + 1, mark : BOOLEAN,
             robbed : BOOLEAN]
  BY <1>2 DEF Ops
<1>4. /\ p.kind = "generate" /\ p.want = o.want /\ p.old = o.old
      /\ p.new = o.new \cup {r} /\ p.next = o.next + 1 /\ p.mark = o.mark
      /\ p.robbed = o.robbed
  BY <1>1, <1>3
<1>5. PICK x : x = r
  OBVIOUS
<1>6. x.id = o.next /\ x.key = made + 1 /\ x.uploaded = o.mark /\ o.next \in Nat
  BY <1>3, <1>5
<1>7. Generating(t) /\ \A s \in Threads : s # t => ~Generating(s)
  BY <1>2 DEF Generating, Inv, LockInv
<1>8. \A y \in rows : y.id < x.id /\ y.key < x.key /\ y.id \in Nat /\ y.key \in Nat
  BY <1>2, <1>6 DEF Inv, TypeOK, Row, InsertsNeverConflict, BatchInv, KeysAreMade
<1>9. rows' = rows \cup {x} /\ p.new = o.new \cup {x}
  BY <1>2, <1>4, <1>5
<1>10. Roles'
  BY <1>2, <1>4, <1>7 DEF Roles, BatchInv, Generating, Uploading
<1>11. OneRowPerId'
  <2>1. IsFiniteSet(rows \cup {x})
    BY FS_AddElement DEF OneRowPerId, BatchInv
  <2>2. \A y, z \in rows \cup {x} : y.id = z.id => y = z
    BY <1>6, <1>8 DEF OneRowPerId, BatchInv
  <2>3. QED
    BY <1>9, <2>1, <2>2 DEF OneRowPerId
<1>12. KeysAreMade'
  <2>1. \A y \in Keys(p) : y.key <= made + 1
    <3>1. \A y \in Keys(o) : y.key <= made /\ y.key \in Nat
      BY <1>2, <1>3, <1>7 DEF Keys, KeysAreMade, BatchInv, Row
    <3>2. Keys(p) = Keys(o) \cup {x}
      BY <1>2, <1>4, <1>9 DEF Keys
    <3>3. QED
      BY <1>2, <1>6, <3>1, <3>2
  <2>2. \A y \in rows' : y.key <= made + 1
    BY <1>2, <1>6, <1>8, <1>9
  <2>3. ASSUME NEW s \in Threads, s # t, Uploading(s)
        PROVE  \A y \in op[s].keys : y.key <= made + 1
    <3>1. op[s].keys \in SUBSET Row
      BY <2>3, UploadFields DEF Uploading, Inv, TypeOK
    <3>2. \A y \in op[s].keys : y.key <= made /\ y.key \in Nat
      BY <2>3, <3>1 DEF KeysAreMade, BatchInv, Row
    <3>3. QED
      BY <1>2, <3>2
  <2>4. QED
    BY <1>2, <1>4, <1>7, <2>1, <2>2, <2>3 DEF KeysAreMade, Generating, Uploading
<1>13. BatchIsOrdered'
  <2>1. ~p.robbed => p.old \subseteq rows'
    BY <1>4, <1>7, <1>9 DEF BatchIsOrdered, BatchInv
  <2>2. \A y \in o.new \cup o.old : y.id \in Nat
    BY <1>3 DEF Row
  <2>3. \A y \in o.new : y.id < o.next
    BY <1>2 DEF BatchIsOrdered, BatchInv
  <2>4. \A y \in p.new : y.id < p.next
    BY <1>4, <1>6, <1>9, <2>2, <2>3
  <2>5. \A y, z \in p.new : y.id = z.id => y = z
    BY <1>2, <1>6, <1>9, <2>2, <2>3 DEF BatchIsOrdered, BatchInv
  <2>6. ~p.robbed => \A y \in p.old : /\ y.id < p.next
                                      /\ \A z \in p.new : y.id < z.id
    BY <1>2, <1>4, <1>6, <1>9, <2>2 DEF BatchIsOrdered, BatchInv
  <2>7. QED
    BY <1>2, <1>4, <1>7, <2>1, <2>4, <2>5, <2>6 DEF BatchIsOrdered, Generating
<1>14. PendingIsInBatch'
  <2>1. Pending(rows)' \subseteq Pending(rows) \cup {x}
    BY <1>9 DEF Pending
  <2>2. ~o.mark => Pending(rows) \subseteq o.old \cup o.new
    BY <1>2 DEF PendingIsInBatch, BatchInv
  <2>3. ~p.mark => Pending(rows)' \subseteq p.old \cup p.new
    BY <1>4, <1>9, <2>1, <2>2
  <2>4. QED
    BY <1>2, <1>4, <1>7, <2>3 DEF PendingIsInBatch, Generating
<1>15. MarkIsRight'
  <2>1. ASSUME NEW s \in Threads, Uploading(s)' PROVE MarkFits(op[s])'
    <3>1. s # t /\ op'[s] = op[s] /\ Uploading(s)
      BY <1>2, <1>4, <2>1 DEF Uploading
    <3>2. MarkFits(op[s])
      BY <3>1 DEF MarkIsRight, BatchInv
    <3>3. o.mark /\ x.key \in direct'
      BY <1>2, <1>3, <1>6, <1>7, <3>1 DEF Roles, BatchInv
    <3>4. \A k \in op[s].keys : k.key # x.key
      <4>1. op[s].keys \in SUBSET Row
        BY <3>1, UploadFields DEF Uploading, Inv, TypeOK
      <4>2. QED
        BY <1>2, <1>6, <3>1, <4>1 DEF KeysAreMade, BatchInv, Row
    <3>5. Public(x) \notin {Public(k) : k \in op[s].keys}
      BY <3>4 DEF Public
    <3>6. \A y : Justified(y) => Justified(y)'
      BY <1>2 DEF Justified
    <3>7. QED
      BY <1>9, <3>1, <3>2, <3>3, <3>5, <3>6 DEF MarkFits, Justified
  <2>2. QED
    BY <2>1 DEF MarkIsRight
<1>16. UploadedArePublished'
  <2>1. x.uploaded => x.key \in direct'
    BY <1>2, <1>6
  <2>2. QED
    BY <1>2, <1>9, <2>1 DEF UploadedArePublished, BatchInv
<1>17. BatchesHaveDistinctIds' /\ MarkedCompletely'
  BY <1>2 DEF BatchesHaveDistinctIds, MarkedCompletely, NoReply
<1>18. QED
  BY <1>10, <1>11, <1>12, <1>13, <1>14, <1>15, <1>16, <1>17 DEF BatchInv

(* A goroutine that returns leaves no batch behind.                        *)
LEMMA BatchEnds ==
  ASSUME Inv, BatchInv, NEW t \in Threads, op' = [op EXCEPT ![t] = Idle],
         UNCHANGED <<rows, made, direct>>, published \subseteq published',
         ret'.kind \notin {"got", "marked"}
  PROVE  BatchInv'
<1>1. op'[t] = Idle /\ \A s \in Threads : s # t => op'[s] = op[s]
  BY DEF Inv, TypeOK
<1>2. Roles'
  BY <1>1 DEF Roles, BatchInv, Generating, Uploading, Idle
<1>3. OneRowPerId'
  BY DEF OneRowPerId, BatchInv
<1>4. KeysAreMade'
  BY <1>1 DEF KeysAreMade, BatchInv, Generating, Uploading, Idle
<1>5. BatchIsOrdered'
  BY <1>1 DEF BatchIsOrdered, BatchInv, Generating, Idle
<1>6. PendingIsInBatch'
  BY <1>1 DEF PendingIsInBatch, BatchInv, Pending, Idle
<1>7. MarkIsRight'
  <2>1. ASSUME NEW s \in Threads, Uploading(s)' PROVE MarkFits(op[s])'
    <3>1. op'[s] = op[s] /\ Uploading(s)
      BY <1>1, <2>1 DEF Uploading, Idle
    <3>2. MarkFits(op[s])
      BY <3>1 DEF MarkIsRight, BatchInv
    <3>3. QED
      BY <3>1, <3>2 DEF MarkFits, Justified
  <2>2. QED
    BY <2>1 DEF MarkIsRight
<1>8. UploadedArePublished' /\ BatchesHaveDistinctIds' /\ MarkedCompletely'
  BY DEF UploadedArePublished, BatchesHaveDistinctIds, MarkedCompletely, BatchInv
<1>9. QED
  BY <1>2, <1>3, <1>4, <1>5, <1>6, <1>7, <1>8 DEF BatchInv

(* The batch is complete: GenOnePreKey's goes to a peer, the other is what *)
(* the mark will reach.                                                    *)
LEMMA StepFinish ==
  ASSUME Inv, BatchInv, NEW t \in Threads, Finish(t)
  PROVE  BatchInv'
<1> USE PreKeysAssumption
<1>1. CASE HandOut(t)
  BY <1>1, BatchEnds DEF Finish, HandOut, Return
<1>2. CASE PassOn(t)
  <2> DEFINE o == op[t]
  <2>1. PICK m \in Ids(Keys(o)) :
           /\ IsLast(m, o)
           /\ op' = [op EXCEPT ![t] = [kind |-> "upload", keys |-> Keys(o),
                                       last |-> m]]
    BY <1>2 DEF PassOn
  <2> DEFINE p == [kind |-> "upload", keys |-> Keys(o), last |-> m]
  <2>2. /\ op'[t] = p
        /\ \A s \in Threads : s # t => op'[s] = op[s]
        /\ UNCHANGED <<rows, made, direct, published>>
        /\ ret' = [kind |-> "got", keys |-> Keys(o), old |-> o.old,
                   robbed |-> o.robbed]
        /\ ~o.mark /\ Generating(t) /\ o \in Ops
    BY <1>2, <2>1 DEF Finish, PassOn, Inv, TypeOK
  <2>3. t = Uploader /\ \A s \in Threads : s # t => ~Uploading(s)
    BY <2>2 DEF Roles, BatchInv
  <2>4. Keys(o) \subseteq Row /\ o.old \subseteq Row /\ rows \subseteq Row
    BY <2>2, KeysType DEF Generating, Inv, TypeOK
  <2>5. m \in Nat
    BY <2>1, <2>4 DEF Ids, Row
  <2>6. Roles'
    BY <2>2, <2>3 DEF Roles, BatchInv, Generating, Uploading
  <2>7. OneRowPerId'
    BY <2>2 DEF OneRowPerId, BatchInv
  <2>8. KeysAreMade'
    <3>1. \A k \in Keys(o) : k.key <= made
      BY <2>2 DEF KeysAreMade, BatchInv
    <3>2. QED
      BY <2>2, <3>1 DEF KeysAreMade, BatchInv, Generating, Uploading
  <2>9. BatchIsOrdered'
    BY <2>2 DEF BatchIsOrdered, BatchInv, Generating
  <2>10. PendingIsInBatch'
    BY <2>2 DEF PendingIsInBatch, BatchInv, Pending
  <2>11. ASSUME NEW r \in rows
         PROVE  /\ r.id <= m => Justified(r) \/ r \in Keys(o)
                /\ Public(r) \in {Public(k) : k \in Keys(o)} => r.id <= m
    <3>1. r.id \in Nat /\ (r.uploaded => Justified(r))
      BY <2>4 DEF Row, UploadedArePublished, Justified, BatchInv
    <3>2. CASE o.kind = "generate"
      <4>1. m = o.next - 1 /\ r.id < o.next /\ o.next \in Nat
        BY <2>1, <2>2, <3>2, GenerateFields
           DEF IsLast, Inv, InsertsNeverConflict
      <4>2. ~r.uploaded => r \in Keys(o)
        BY <2>2, <3>2 DEF PendingIsInBatch, Pending, Keys, BatchInv
      <4>3. QED
        BY <3>1, <4>1, <4>2
    <3>3. CASE o.kind = "queried"
      <4>1. Keys(o) = o.old /\ \A k \in o.old : k.id <= m
        BY <2>1, <3>3 DEF Keys, IsLast
      <4>2. PICK q \in o.old : q.id = m
        BY <2>1, <4>1 DEF Ids
      <4>3. ~r.uploaded => r \in o.old \/ m < r.id
        BY <2>2, <3>3, <4>2 DEF PendingIsInBatch, Pending, BatchInv
      <4>4. \A k \in o.old : Public(r) = Public(k) => r.id <= m
        BY <4>1 DEF Public
      <4>5. QED
        BY <2>5, <3>1, <4>1, <4>3, <4>4
    <3>4. QED
      BY <2>2, <3>2, <3>3 DEF Generating
  <2>12. MarkIsRight'
    <3>1. MarkFits(p)
      BY <2>11 DEF MarkFits
    <3>2. MarkFits(op[t])'
      BY <2>2, <3>1 DEF MarkFits, Justified
    <3>3. QED
      BY <2>2, <2>3, <3>2 DEF MarkIsRight, Uploading
  <2>13. BatchesHaveDistinctIds'
    <3>1. SUFFICES ASSUME ~o.robbed
                   PROVE  /\ \A r, s \in Keys(o) : r.id = s.id => r = s
                          /\ \A r \in o.old, s \in Keys(o) \ o.old : r.id < s.id
      BY <2>2 DEF BatchesHaveDistinctIds
    <3>2. \A r, s \in o.old : r.id = s.id => r = s
      BY <2>2, <3>1 DEF BatchIsOrdered, OneRowPerId, BatchInv
    <3>3. CASE o.kind = "queried"
      BY <3>2, <3>3 DEF Keys
    <3>4. CASE o.kind = "generate"
      <4>1. Keys(o) = o.old \cup o.new
        BY <3>4 DEF Keys
      <4>2. /\ \A r, s \in o.new : r.id = s.id => r = s
            /\ \A r \in o.old : \A s \in o.new : r.id < s.id
        BY <3>1, <3>4 DEF BatchIsOrdered, BatchInv
      <4>3. \A r \in o.old \cup o.new : r.id \in Nat
        BY <2>4, <4>1 DEF Row
      <4>4. QED
        BY <3>2, <4>1, <4>2, <4>3
    <3>5. QED
      BY <2>2, <3>3, <3>4 DEF Generating
  <2>14. UploadedArePublished' /\ MarkedCompletely'
    BY <2>2 DEF UploadedArePublished, MarkedCompletely, BatchInv
  <2>15. QED
    BY <2>6, <2>7, <2>8, <2>9, <2>10, <2>12, <2>13, <2>14 DEF BatchInv
<1>3. QED
  BY <1>1, <1>2 DEF Finish

(* The server has the keys, whether the confirmation arrives or not.       *)
LEMMA StepUpload ==
  ASSUME Inv, BatchInv, NEW t \in Threads, Upload(t)
  PROVE  BatchInv'
<1> DEFINE o == op[t]
<1>1. /\ o.kind = "upload" /\ o \in Ops
      /\ published' = published \cup {Public(r) : r \in o.keys}
      /\ UNCHANGED <<rows, made, direct>>
  BY DEF Upload, Inv, TypeOK
<1>2. CASE Return(t, Error)
  BY <1>1, <1>2, BatchEnds DEF Return, Error
<1>3. CASE Become(t, [o EXCEPT !.kind = "mark"])
  <2>1. PICK p : p = [o EXCEPT !.kind = "mark"]
    OBVIOUS
  <2>2. p.kind = "mark" /\ p.keys = o.keys /\ p.last = o.last
    <3>1. o \in [kind : {"upload", "mark"}, keys : SUBSET Row, last : 1 .. LastId]
      BY <1>1 DEF Ops
    <3>2. QED
      BY <2>1, <3>1
  <2>3. /\ op'[t] = p
        /\ \A s \in Threads : s # t => op'[s] = op[s]
        /\ ret' = NoReply
    BY <1>3, <2>1 DEF Become, Inv, TypeOK
  <2>4. Uploading(t) /\ MarkFits(o)
    BY <1>1 DEF Uploading, MarkIsRight, BatchInv
  <2>5. t = Uploader /\ \A s \in Threads : s # t => ~Uploading(s)
    BY <2>4 DEF Roles, BatchInv
  <2>6. Roles'
    BY <2>2, <2>3, <2>5 DEF Roles, BatchInv, Generating, Uploading
  <2>7. OneRowPerId'
    BY <1>1 DEF OneRowPerId, BatchInv
  <2>8. KeysAreMade'
    <3>1. \A k \in p.keys : k.key <= made
      BY <2>2, <2>4 DEF KeysAreMade, BatchInv
    <3>2. QED
      BY <1>1, <2>2, <2>3, <3>1 DEF KeysAreMade, BatchInv, Generating, Uploading
  <2>9. BatchIsOrdered'
    BY <1>1, <2>2, <2>3 DEF BatchIsOrdered, BatchInv, Generating
  <2>10. PendingIsInBatch'
    BY <1>1, <2>2, <2>3 DEF PendingIsInBatch, BatchInv, Pending
  <2>11. MarkIsRight'
    <3>1. MarkFits(op[t])'
      BY <1>1, <2>2, <2>3, <2>4 DEF MarkFits, Justified
    <3>2. QED
      BY <2>3, <2>5, <3>1 DEF MarkIsRight, Uploading
  <2>12. UploadedArePublished' /\ BatchesHaveDistinctIds' /\ MarkedCompletely'
    BY <1>1, <2>3 DEF UploadedArePublished, BatchesHaveDistinctIds,
                      MarkedCompletely, BatchInv, NoReply
  <2>13. QED
    BY <2>6, <2>7, <2>8, <2>9, <2>10, <2>11, <2>12 DEF BatchInv
<1>4. QED
  BY <1>2, <1>3 DEF Upload

(* The mark reaches what MarkFits says, and nobody has another batch to    *)
(* upload meanwhile.                                                       *)
LEMMA StepMark ==
  ASSUME Inv, BatchInv, NEW t \in Threads, MarkPreKeysAsUploaded(t)
  PROVE  BatchInv'
<1> DEFINE o == op[t]
           Marked(r) == IF r.id <= o.last THEN [r EXCEPT !.uploaded = TRUE] ELSE r
<1>1. /\ o.kind = "mark" /\ o \in Ops
      /\ rows' = {Marked(r) : r \in rows}
      /\ UNCHANGED <<made, direct, published>>
      /\ op'[t] = Idle
      /\ \A s \in Threads : s # t => op'[s] = op[s]
      /\ ret' = [kind |-> "marked", keys |-> o.keys]
  BY DEF MarkPreKeysAsUploaded, Return, Inv, TypeOK
<1>2. Uploading(t) /\ MarkFits(o) /\ o.last \in Nat
  BY <1>1, UploadFields DEF Uploading, MarkIsRight, BatchInv
<1>3. t = Uploader /\ (\A s \in Threads : s # t => ~Uploading(s))
      /\ (\A s \in Threads : Generating(s) => op[s].mark)
  <2>1. t = Uploader /\ ~Generating(t)
    BY <1>1, <1>2 DEF Roles, BatchInv, Generating
  <2>2. \A s \in Threads : Generating(s) => op[s].mark
    BY <2>1 DEF Roles, BatchInv
  <2>3. QED
    BY <2>1, <2>2 DEF Roles, BatchInv
<1>4. \A r \in rows : /\ Marked(r).id = r.id /\ Marked(r).key = r.key
                      /\ Marked(r).uploaded <=> (r.uploaded \/ r.id <= o.last)
                      /\ r.id \in Nat
  BY DEF Inv, TypeOK, Row
<1>5. Roles'
  BY <1>1, <1>3 DEF Roles, BatchInv, Generating, Uploading, Idle
<1>6. OneRowPerId'
  <2>1. IsFiniteSet(rows')
    <3> DEFINE f == [r \in rows |-> Marked(r)]
    <3>1. f \in Surjection(rows, rows')
      BY <1>1 DEF Surjection
    <3>2. QED
      BY <3>1, FS_Surjection DEF OneRowPerId, BatchInv
  <2>2. ASSUME NEW x \in rows', NEW y \in rows', x.id = y.id PROVE x = y
    <3>1. PICK r \in rows, s \in rows : x = Marked(r) /\ y = Marked(s)
      BY <1>1
    <3>2. r.id = s.id
      BY <1>4, <2>2, <3>1
    <3>3. r = s
      BY <3>2 DEF OneRowPerId, BatchInv
    <3>4. QED
      BY <3>1, <3>3
  <2>3. QED
    BY <2>1, <2>2 DEF OneRowPerId
<1>7. KeysAreMade'
  <2>1. \A x \in rows' : x.key <= made
    BY <1>1, <1>4 DEF KeysAreMade, BatchInv
  <2>2. QED
    BY <1>1, <2>1 DEF KeysAreMade, BatchInv, Generating, Uploading, Idle
<1>8. BatchIsOrdered'
  <2>1. \A s \in Threads : Generating(s) => op[s].old = {}
    BY <1>3 DEF Roles, BatchInv
  <2>2. QED
    BY <1>1, <2>1 DEF BatchIsOrdered, BatchInv, Generating, Idle
<1>9. PendingIsInBatch'
  BY <1>1, <1>3 DEF PendingIsInBatch, Generating, Idle
<1>10. MarkIsRight'
  BY <1>1, <1>3 DEF MarkIsRight, Uploading, Idle
<1>11. UploadedArePublished'
  <2>1. ASSUME NEW x \in rows', x.uploaded
        PROVE  Public(x) \in published \/ x.key \in direct
    <3>1. PICK r \in rows : x = Marked(r)
      BY <1>1
    <3>2. Public(x) = Public(r) /\ x.key = r.key /\ (r.uploaded \/ r.id <= o.last)
      BY <1>4, <2>1, <3>1 DEF Public
    <3>3. Justified(r)
      BY <1>1, <1>2, <3>2 DEF MarkFits, UploadedArePublished, Justified, BatchInv
    <3>4. QED
      BY <3>2, <3>3 DEF Justified
  <2>2. QED
    BY <1>1, <2>1 DEF UploadedArePublished
<1>12. MarkedCompletely'
  <2>1. ASSUME NEW x \in rows', Public(x) \in {Public(k) : k \in o.keys}
        PROVE  x.uploaded
    <3>1. PICK r \in rows : x = Marked(r)
      BY <1>1
    <3>2. Public(x) = Public(r)
      BY <1>4, <3>1 DEF Public
    <3>3. r.id <= o.last
      BY <1>2, <2>1, <3>2 DEF MarkFits
    <3>4. QED
      BY <1>4, <3>1, <3>3
  <2>2. QED
    BY <1>1, <2>1 DEF MarkedCompletely
<1>13. BatchesHaveDistinctIds'
  BY <1>1 DEF BatchesHaveDistinctIds
<1>14. QED
  BY <1>5, <1>6, <1>7, <1>8, <1>9, <1>10, <1>11, <1>12, <1>13 DEF BatchInv

(* A removal takes a row from the table, and `robbed' is noted where it    *)
(* was in a batch.                                                         *)
LEMMA StepRemove ==
  ASSUME Inv, BatchInv, NEW r \in rows, RemovePreKey(r)
  PROVE  BatchInv'
<1>1. /\ rows' = rows \ {r}
      /\ UNCHANGED <<made, direct, published>>
      /\ ret' = NoReply
      /\ Pending(rows)' \subseteq Pending(rows)
  BY DEF RemovePreKey, Pending
<1>2. ASSUME NEW t \in Threads
      PROVE  /\ op'[t].kind = op[t].kind
             /\ Generating(t) =>
                  /\ op'[t].old = op[t].old /\ op'[t].mark = op[t].mark
                  /\ op'[t].want = op[t].want
                  /\ ~op'[t].robbed => ~op[t].robbed /\ r \notin op[t].old
                  /\ Keys(op'[t]) = Keys(op[t])
             /\ op[t].kind = "generate" =>
                  op'[t].new = op[t].new /\ op'[t].next = op[t].next
             /\ Uploading(t) => op'[t] = op[t]
  <2>1. op[t] \in Ops /\ op'[t] = IF Generating(t) /\ r \in op[t].old
                                   THEN [op[t] EXCEPT !.robbed = TRUE] ELSE op[t]
    BY DEF RemovePreKey, Inv, TypeOK
  <2>2. CASE op[t].kind = "queried"
    <3>1. op[t] \in [kind : {"queried"}, want : Nat, old : SUBSET Row,
                     mark : BOOLEAN, robbed : BOOLEAN]
      BY <2>1, <2>2 DEF Ops
    <3>2. QED
      BY <2>1, <2>2, <3>1 DEF Keys, Generating, Uploading
  <2>3. CASE op[t].kind = "generate"
    <3>1. op[t] \in [kind : {"generate"}, want : Nat, old : SUBSET Row,
                     new : SUBSET Row, next : 1 .. LastId + 1, mark : BOOLEAN,
                     robbed : BOOLEAN]
      BY <2>1, <2>3 DEF Ops
    <3>2. QED
      BY <2>1, <2>3, <3>1 DEF Keys, Generating, Uploading
  <2>4. CASE ~Generating(t)
    BY <2>1, <2>4 DEF Generating
  <2>5. QED
    BY <2>2, <2>3, <2>4 DEF Generating
<1>3. \A t \in Threads : /\ Generating(t)' <=> Generating(t)
                         /\ Uploading(t)' <=> Uploading(t)
  BY <1>2 DEF Generating, Uploading
<1>4. Roles'
  BY <1>2, <1>3 DEF Roles, BatchInv
<1>5. OneRowPerId'
  BY <1>1, FS_Subset DEF OneRowPerId, BatchInv
<1>6. KeysAreMade'
  BY <1>1, <1>2, <1>3 DEF KeysAreMade, BatchInv
<1>7. BatchIsOrdered'
  <2>1. ASSUME NEW t \in Threads, Generating(t), ~op'[t].robbed
        PROVE  op'[t].old \subseteq rows'
    BY <1>1, <1>2, <2>1 DEF BatchIsOrdered, BatchInv
  <2>2. ASSUME NEW t \in Threads, op[t].kind = "generate"
        PROVE  /\ \A x \in op'[t].new : x.id < op'[t].next
               /\ \A x, y \in op'[t].new : x.id = y.id => x = y
               /\ ~op'[t].robbed =>
                    \A x \in op'[t].old : /\ x.id < op'[t].next
                                          /\ \A y \in op'[t].new : x.id < y.id
    BY <1>2, <2>2 DEF BatchIsOrdered, BatchInv, Generating
  <2>3. QED
    BY <1>2, <1>3, <2>1, <2>2 DEF BatchIsOrdered
<1>8. PendingIsInBatch'
  <2>1. ASSUME NEW t \in Threads, op[t].kind = "queried", ~op'[t].mark
        PROVE  /\ Cardinality(op'[t].old) < op'[t].want =>
                     Pending(rows)' \subseteq op'[t].old
               /\ \A x \in Pending(rows)' \ op'[t].old, q \in op'[t].old : q.id < x.id
    BY <1>1, <1>2, <2>1 DEF PendingIsInBatch, BatchInv, Generating
  <2>2. ASSUME NEW t \in Threads, op[t].kind = "generate", ~op'[t].mark
        PROVE  Pending(rows)' \subseteq op'[t].old \cup op'[t].new
    BY <1>1, <1>2, <2>2 DEF PendingIsInBatch, BatchInv, Generating
  <2>3. QED
    BY <1>2, <2>1, <2>2 DEF PendingIsInBatch
<1>9. MarkIsRight'
  <2>1. ASSUME NEW t \in Threads, Uploading(t)' PROVE MarkFits(op[t])'
    <3>1. op'[t] = op[t] /\ MarkFits(op[t])
      BY <1>2, <1>3, <2>1 DEF MarkIsRight, BatchInv
    <3>2. QED
      BY <1>1, <3>1 DEF MarkFits, Justified
  <2>2. QED
    BY <2>1 DEF MarkIsRight
<1>10. UploadedArePublished' /\ BatchesHaveDistinctIds' /\ MarkedCompletely'
  BY <1>1 DEF UploadedArePublished, BatchesHaveDistinctIds, MarkedCompletely,
              BatchInv, NoReply
<1>11. QED
  BY <1>4, <1>5, <1>6, <1>7, <1>8, <1>9, <1>10 DEF BatchInv

(* A restart ends all batches; the table and its history stay.             *)
LEMMA StepRestart ==
  ASSUME BatchInv, Restart
  PROVE  BatchInv'
<1>1. /\ \A t \in Threads : op'[t] = Idle
      /\ UNCHANGED <<rows, made, direct, published>>
      /\ ret' = NoReply
  BY DEF Restart
<1>2. Roles' /\ KeysAreMade' /\ BatchIsOrdered' /\ PendingIsInBatch' /\ MarkIsRight'
  BY <1>1 DEF Roles, KeysAreMade, BatchIsOrdered, PendingIsInBatch, MarkIsRight,
              BatchInv, Generating, Uploading, Idle
<1>3. OneRowPerId'
  BY <1>1 DEF OneRowPerId, BatchInv
<1>4. UploadedArePublished' /\ BatchesHaveDistinctIds' /\ MarkedCompletely'
  BY <1>1 DEF UploadedArePublished, BatchesHaveDistinctIds, MarkedCompletely,
              BatchInv, NoReply
<1>5. QED
  BY <1>2, <1>3, <1>4 DEF BatchInv

LEMMA BatchStutters ==
  ASSUME BatchInv, UNCHANGED vars
  PROVE  BatchInv'
<1> USE DEF vars
<1>1. Roles' /\ OneRowPerId' /\ KeysAreMade' /\ BatchIsOrdered'
  BY DEF Roles, OneRowPerId, KeysAreMade, BatchIsOrdered, BatchInv, Generating,
         Uploading
<1>2. PendingIsInBatch' /\ MarkIsRight'
  BY DEF PendingIsInBatch, MarkIsRight, MarkFits, Justified, BatchInv, Uploading,
         Pending
<1>3. UploadedArePublished' /\ BatchesHaveDistinctIds' /\ MarkedCompletely'
  BY DEF UploadedArePublished, BatchesHaveDistinctIds, MarkedCompletely, BatchInv
<1>4. QED
  BY <1>1, <1>2, <1>3 DEF BatchInv

LEMMA NextBatch == Inv /\ BatchInv /\ [Next]_vars => BatchInv'
<1> SUFFICES ASSUME Inv, BatchInv, [Next]_vars PROVE BatchInv'
  OBVIOUS
<1>1. ASSUME NEW t \in Threads, GenerationFails(t) \/ UploadFails(t)
      PROVE  BatchInv'
  BY <1>1, BatchEnds DEF GenerationFails, UploadFails, Return, Error
<1>2. QED
  BY <1>1, StepQuery, StepGenOne, StepNextId, StepInsert, StepFinish, StepUpload,
     StepMark, StepRemove, StepRestart, BatchStutters DEF Next, Advance

(* What a batch is, from the query to the mark.                            *)
THEOREM BatchInvariance == Spec => []BatchInv
<1>1. BatchInv /\ Inv /\ [Next]_vars => BatchInv'
  BY NextBatch
<1>2. QED
  BY <1>1, InitBatch, Invariance, PTL DEF Spec

(* The keys of a batch have different ids, unless a peer used one of them  *)
(* while the batch was put together.                                       *)
THEOREM DistinctIds == Spec => []BatchesHaveDistinctIds
BY BatchInvariance, PTL DEF BatchInv

(* No key counts as uploaded that nobody has got, but GenOnePreKey's: the  *)
(* mark goes by ids, and those below it that are not of the batch are of   *)
(* keys that were published before or generated by GenOnePreKey.           *)
THEOREM OnlyPublishedCount == Spec => []UploadedArePublished
BY BatchInvariance, PTL DEF BatchInv

(* When MarkPreKeysAsUploaded returns no key of the batch is pending: a    *)
(* key above the mark was removed, and no key comes back.                  *)
THEOREM MarkIsComplete == Spec => []MarkedCompletely
BY BatchInvariance, PTL DEF BatchInv
=============================================================================
