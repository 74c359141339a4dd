------------------------------ MODULE PreKeys ------------------------------
(***************************************************************************)
(* The one-time prekeys of a device (src/store/sqlstore/store.go, lines    *)
(* 308-405): the table pre_keys, preKeyLock, and the goroutines of         *)
(* whatsmeow that generate, publish and use the keys.                      *)
(*                                                                         *)
(* Only the two generating calls take the lock.  RemovePreKey (a peer has  *)
(* used a key) and MarkPreKeysAsUploaded are one statement each and come   *)
(* between any two statements of a generating call.                        *)
(***************************************************************************)
EXTENDS Integers, FiniteSets

CONSTANTS
    Threads,    \* goroutines that call the store
    Uploader,   \* the one that publishes keys: whatsmeow does so under a lock
    NoThread,   \* holder of a free lock
    LastId,     \* largest id the schema's CHECK allows (2^24 - 1 in the code)
    Counts,     \* bound: numbers of keys that are asked for
    MaxKeys     \* bound: keys that are generated

ASSUME PreKeysAssumption ==
    /\ Uploader \in Threads
    /\ NoThread \notin Threads
    /\ LastId \in Nat \ {0}
    /\ Counts \subseteq Nat \ {0}
    /\ MaxKeys \in Nat

VARIABLES
    rows,        \* pre_keys of this device: [id, key, uploaded]
    made,        \* history: keys generated; keys.NewPreKey never repeats one
    direct,      \* history: those that GenOnePreKey generated
    preKeyLock,  \* the goroutine that holds it
    op,          \* what each goroutine is doing
    published,   \* history: [id, key] a peer may have got
    ret          \* what the call that returned in the last step returned

vars == <<rows, made, direct, preKeyLock, op, published, ret>>

Idle    == [kind |-> "idle"]
NoReply == [kind |-> "none"]
Error   == [kind |-> "error"]

Return(t, r) == op' = [op EXCEPT ![t] = Idle] /\ ret' = r
Become(t, o) == op' = [op EXCEPT ![t] = o] /\ ret' = NoReply

Public(r)  == [id |-> r.id, key |-> r.key]
Ids(R)     == {r.id : r \in R}
Pending(R) == {r \in R : ~r.uploaded}

(* ORDER BY key_id LIMIT n.                                                *)
IsLowest(Q, R, n) ==
    /\ Q \subseteq R
    /\ Cardinality(Q) = IF Cardinality(R) < n THEN Cardinality(R) ELSE n
    /\ \A q \in Q, r \in R \ Q : q.id < r.id

(* What a generating call has so far.                                      *)
Keys(o) == IF o.kind = "generate" THEN o.old \cup o.new ELSE o.old

Generating(t) == op[t].kind \in {"queried", "generate"}

\* Mutant: the first free id comes next.
IsBeforeFree(m, R) == 1 .. m \subseteq Ids(R) /\ m + 1 \notin Ids(R)

(* SELECT MAX(key_id): NULL counts as 0.                                   *)
IsLastId(m, R) == m \in Ids(R) \cup {0} /\ \A r \in R : r.id <= m

Init ==
    /\ rows = {}
    /\ made = 0
    /\ direct = {}
    /\ preKeyLock = NoThread
    /\ op = [t \in Threads |-> Idle]
    /\ published = {}
    /\ ret = NoReply

-----------------------------------------------------------------------------
(* GetOrGenPreKeys and GenOnePreKey: under the lock, one statement a step. *)
(* The first queries, the other starts with nothing and marks its key.     *)

GetOrGenPreKeys(t, n) ==
    /\ t = Uploader
    /\ op[t].kind = "idle"
    /\ preKeyLock = NoThread
    /\ preKeyLock' = t
    /\ \E Q \in SUBSET Pending(rows) :
          /\ IsLowest(Q, Pending(rows), n)
          /\ Become(t, [kind |-> "queried", want |-> n, old |-> Q, mark |-> FALSE,
                        robbed |-> FALSE])
    /\ UNCHANGED <<rows, made, direct, published>>

\* Mutant: GenOnePreKey does not take the lock.
GenOneUnlocked(t) ==
    /\ op[t].kind = "idle"
    /\ Become(t, [kind |-> "queried", want |-> 1, old |-> {}, mark |-> TRUE,
                  robbed |-> FALSE])
    /\ UNCHANGED <<rows, made, direct, preKeyLock, published>>

GenOnePreKey(t) ==
    /\ op[t].kind = "idle"
    /\ preKeyLock = NoThread
    /\ preKeyLock' = t
    /\ Become(t, [kind |-> "queried", want |-> 1, old |-> {}, mark |-> TRUE,
                  robbed |-> FALSE])
    /\ UNCHANGED <<rows, made, direct, published>>

(* getNextPreKeyID.                                                        *)
GetNextPreKeyID(t) ==
    /\ op[t].kind = "queried"
    /\ Cardinality(op[t].old) < op[t].want
    /\ \E m \in Ids(rows) \cup {0} :
          /\ IsLastId(m, rows)
          /\ Become(t, [kind |-> "generate", want |-> op[t].want, old |-> op[t].old,
                        new |-> {}, next |-> m + 1, mark |-> op[t].mark,
                        robbed |-> op[t].robbed])
    /\ UNCHANGED <<rows, made, direct, preKeyLock, published>>

\* Mutant: no CHECK of the id.
InsertUnchecked(t) ==
    LET o == op[t]
        r == [id |-> o.next, key |-> made + 1, uploaded |-> o.mark]
    IN  /\ o.kind = "generate"
        /\ Cardinality(Keys(o)) < o.want
        /\ o.next \notin Ids(rows)
        /\ made < MaxKeys
        /\ made' = made + 1
        /\ direct' = IF o.mark THEN direct \cup {made + 1} ELSE direct
        /\ rows' = rows \cup {r}
        /\ Become(t, [o EXCEPT !.new = @ \cup {r}, !.next = @ + 1])
        /\ UNCHANGED <<preKeyLock, published>>

(* genOnePreKey: the INSERT passes the CHECK and the primary key.          *)
InsertPreKey(t) ==
    LET o == op[t]
        r == [id |-> o.next, key |-> made + 1, uploaded |-> o.mark]
    IN  /\ o.kind = "generate"
        /\ Cardinality(Keys(o)) < o.want
        /\ o.next <= LastId
        /\ o.next \notin Ids(rows)
        /\ made < MaxKeys
        /\ made' = made + 1
        /\ direct' = IF o.mark THEN direct \cup {made + 1} ELSE direct
        /\ rows' = rows \cup {r}
        /\ Become(t, [o EXCEPT !.new = @ \cup {r}, !.next = @ + 1])
        /\ UNCHANGED <<preKeyLock, published>>

(* All keys are there: GenOnePreKey's goes to a peer, the others are to be *)
(* uploaded.  The last of them is the last that was generated, if any was. *)
IsLast(m, o) ==
    IF o.kind = "generate" THEN m = o.next - 1 ELSE \A r \in o.old : r.id <= m

HandOut(t) ==
    /\ op[t].mark
    /\ published' = published \cup {Public(r) : r \in Keys(op[t])}
    /\ Return(t, [kind |-> "one"])

PassOn(t) ==
    /\ ~op[t].mark
    /\ \E m \in Ids(Keys(op[t])) :
          /\ IsLast(m, op[t])
          /\ op' = [op EXCEPT ![t] = [kind |-> "upload", keys |-> Keys(op[t]),
                                      last |-> m]]
    /\ ret' = [kind |-> "got", keys |-> Keys(op[t]), old |-> op[t].old,
               robbed |-> op[t].robbed]
    /\ UNCHANGED published

Finish(t) ==
    /\ Generating(t)
    /\ Cardinality(Keys(op[t])) = op[t].want
    /\ preKeyLock' = NoThread
    /\ HandOut(t) \/ PassOn(t)
    /\ UNCHANGED <<rows, made, direct>>

(* Any statement fails; an INSERT fails for certain on an id the CHECK     *)
(* does not allow.  What was inserted before stays.                        *)
GenerationFails(t) ==
    /\ Generating(t)
    /\ Cardinality(Keys(op[t])) < op[t].want
    /\ preKeyLock' = NoThread
    /\ Return(t, Error)
    /\ UNCHANGED <<rows, made, direct, published>>

-----------------------------------------------------------------------------
(* The keys are uploaded and the server confirms, or not.  (External.)     *)
Upload(t) ==
    /\ op[t].kind = "upload"
    /\ published' = published \cup {Public(r) : r \in op[t].keys}
    /\ \/ Become(t, [op[t] EXCEPT !.kind = "mark"])
       \/ Return(t, Error)                 \* the confirmation was lost
    /\ UNCHANGED <<rows, made, direct, preKeyLock>>

UploadFails(t) ==
    /\ op[t].kind = "upload"
    /\ Return(t, Error)
    /\ UNCHANGED <<rows, made, direct, preKeyLock, published>>

\* Mutant: all keys are marked.
MarkAll(t) ==
    /\ op[t].kind = "mark"
    /\ rows' = {[r EXCEPT !.uploaded = TRUE] : r \in rows}
    /\ Return(t, [kind |-> "marked", keys |-> op[t].keys])
    /\ UNCHANGED <<made, direct, preKeyLock, published>>

\* Mutant: all keys but the last are marked.
MarkBelow(t) ==
    /\ op[t].kind = "mark"
    /\ rows' = {IF r.id < op[t].last THEN [r EXCEPT !.uploaded = TRUE] ELSE r :
                   r \in rows}
    /\ Return(t, [kind |-> "marked", keys |-> op[t].keys])
    /\ UNCHANGED <<made, direct, preKeyLock, published>>

MarkPreKeysAsUploaded(t) ==
    /\ op[t].kind = "mark"
    /\ rows' = {IF r.id <= op[t].last THEN [r EXCEPT !.uploaded = TRUE] ELSE r :
                   r \in rows}
    /\ Return(t, [kind |-> "marked", keys |-> op[t].keys])
    /\ UNCHANGED <<made, direct, preKeyLock, published>>

(* A peer has used a key it got: RemovePreKey.  `robbed' notes that a      *)
(* generating call had queried that key before.                            *)
RemovePreKey(r) ==
    /\ Public(r) \in published
    /\ rows' = rows \ {r}
    /\ op' = [t \in Threads |->
                IF Generating(t) /\ r \in op[t].old
                THEN [op[t] EXCEPT !.robbed = TRUE] ELSE op[t]]
    /\ ret' = NoReply
    /\ UNCHANGED <<made, direct, preKeyLock, published>>

(* The process ends and starts again.                                      *)
Restart ==
    /\ preKeyLock' = NoThread
    /\ op' = [t \in Threads |-> Idle]
    /\ ret' = NoReply
    /\ UNCHANGED <<rows, made, direct, published>>

Advance(t) == GetNextPreKeyID(t) \/ InsertPreKey(t) \/ Finish(t) \/ GenerationFails(t)

Next ==
    \/ \E t \in Threads :
          \/ \E n \in Counts : GetOrGenPreKeys(t, n)
          \/ GenOnePreKey(t)
          \/ Advance(t)
          \/ Upload(t) \/ UploadFails(t) \/ MarkPreKeysAsUploaded(t)
    \/ \E r \in rows : RemovePreKey(r)
    \/ Restart

Spec == Init /\ [][Next]_vars

-----------------------------------------------------------------------------
Row == [id : 1 .. LastId, key : Nat, uploaded : BOOLEAN]

Ops ==
    [kind : {"idle"}]
    \cup [kind : {"queried"}, want : Nat, old : SUBSET Row, mark : BOOLEAN,
          robbed : BOOLEAN]
    \cup [kind : {"generate"}, want : Nat, old : SUBSET Row, new : SUBSET Row,
          next : 1 .. LastId + 1, mark : BOOLEAN, robbed : BOOLEAN]
    \cup [kind : {"upload", "mark"}, keys : SUBSET Row, last : 1 .. LastId]

(* Every variable has a value of its type: ids stay within the CHECK.      *)
TypeOK ==
    /\ rows \subseteq Row
    /\ made \in Nat
    /\ direct \subseteq Nat
    /\ preKeyLock \in Threads \cup {NoThread}
    /\ op \in [Threads -> Ops]
    /\ published \subseteq [id : 1 .. LastId, key : Nat]
    /\ ret.kind \in {"none", "error", "one", "got", "marked"}

-----------------------------------------------------------------------------
(* Safety.                                                                 *)

(* While keys are generated no id from the next one on is taken, although  *)
(* MAX was read several statements ago and RemovePreKey takes no lock: no  *)
(* INSERT runs into the primary key (preKeyLock).                          *)
InsertsNeverConflict ==
    \A t \in Threads :
        op[t].kind = "generate" => \A r \in rows : r.id < op[t].next

(* The keys of a batch have different ids, and those just generated come   *)
(* after those queried, unless a peer used one of the latter meanwhile:    *)
(* the id that then became free is given to another key of the batch.      *)
BatchesHaveDistinctIds ==
    ret.kind = "got" /\ ~ret.robbed =>
        /\ \A r, s \in ret.keys : r.id = s.id => r = s
        /\ \A r \in ret.old, s \in ret.keys \ ret.old : r.id < s.id

(* A key counts as uploaded only if the server or a peer has got it, or    *)
(* GenOnePreKey made it (which inserts it as uploaded before it hands it   *)
(* out): MarkPreKeysAsUploaded goes by ids, and ids are used again.        *)
UploadedArePublished ==
    \A r \in rows : r.uploaded => Public(r) \in published \/ r.key \in direct

(* After MarkPreKeysAsUploaded no key of the batch is left to be uploaded  *)
(* a second time, whatever was removed and generated meanwhile.            *)
MarkedCompletely ==
    ret.kind = "marked" =>
        \A r \in rows : Public(r) \in {Public(k) : k \in ret.keys} => r.uploaded
=============================================================================
