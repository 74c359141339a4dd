----------------------------- MODULE EventProofs -----------------------------
(***************************************************************************)
(* Proofs about EventBuffer within Tables: for any messages, goroutines,   *)
(* crashes and deletions of old rows, a message that was decrypted stays   *)
(* in the buffer until it is handled, and is handled once unless its       *)
(* handling was cut off.                                                   *)
(***************************************************************************)
EXTENDS Tables, FiniteSetTheorems, TLAPS

WorkSteps == {"decrypt", "handle", "clear", "ack"}

-----------------------------------------------------------------------------
(* The inductive invariant, in named parts.                                *)

EventTypes ==
    /\ now \in Nat
    /\ buffer \subseteq [msg : Messages, text : BOOLEAN, inserted : Nat]
    /\ server \in [Messages -> {Unsent, Acked, Gone} \cup ({"queued"} \X Nat)]
    /\ task \in [EventThreads -> {NoWork} \cup (WorkSteps \X Messages)]
    /\ handled \in [Messages -> 0..2]

\* Of what the server has not sent there is no trace.
UnsentIsUnknown ==
    \A m \in Messages : server[m] = Unsent =>
        /\ m \notin consumed /\ handled[m] = 0
        /\ \A b \in buffer : b.msg # m
        /\ \A t \in EventThreads, s \in WorkSteps : task[t] # <<s, m>>

\* The server queues a message before its row is inserted, so that it stops
\* to deliver it before the row is old.
QueuedFirst ==
    /\ \A m \in Messages : Queued(m) => server[m][2] <= now
    /\ \A b \in buffer : Queued(b.msg) => server[b.msg][2] <= b.inserted

\* Plaintext is cleared, and a message acknowledged, after it was handled.
ClearedWasHandled ==
    /\ \A b \in buffer : b.text \/ handled[b.msg] > 0
    /\ \A t \in EventThreads, m \in Messages :
          task[t] = <<"clear", m>> \/ task[t] = <<"ack", m>> => handled[m] > 0

LostInv == EventTypes /\ UnsentIsUnknown /\ QueuedFirst /\ ClearedWasHandled /\ NoEventIsLost

\* What is in the buffer or being handled cannot be decrypted again, unless
\* the device went with everything that refers to it.
KnownIsConsumed ==
    /\ \A b \in buffer : b.msg \in consumed
    /\ \A t \in EventThreads, m \in Messages :
          task[t] = <<"handle", m>> \/ task[t] = <<"clear", m>> => m \in consumed \/ ~row
    /\ ~row => \A m \in Messages : ~Queued(m)

\* Nobody will come back to the message.
Settled(m) ==
    /\ ~Queued(m) /\ server[m] # Unsent
    /\ \A t \in EventThreads, s \in WorkSteps : task[t] # <<s, m>>

HandledIsKnown ==
    \A m \in Messages : handled[m] > 0 => m \in consumed \/ ~row \/ Settled(m)

\* One goroutine handles a message and clears it.
OneHandler ==
    \A m \in Messages \ cut : \A t \in Handling(m), u \in Handling(m) : t = u

\* Once a message is handled nobody handles it, and plaintext that is still
\* there is about to be cleared.
NotAgain ==
    \A m \in Messages \ cut : handled[m] > 0 =>
        /\ \A t \in EventThreads : task[t] # <<"handle", m>>
        /\ \A b \in buffer : b.msg = m /\ b.text =>
              \E t \in EventThreads : task[t] = <<"clear", m>>

Once == KnownIsConsumed /\ HandledIsKnown /\ OneHandler /\ NotAgain /\ HandledOnce

-----------------------------------------------------------------------------
(* What tasks and the server's queue are made of.                          *)

LEMMA TaskOf ==
    ASSUME EventTypes, NEW t \in EventThreads, NEW s \in WorkSteps, Doing(t, s)
    PROVE  task[t][2] \in Messages /\ task[t] = <<s, task[t][2]>>
<1>1. task[t] \in {NoWork} \cup (WorkSteps \X Messages)
  BY DEF EventTypes
<1>2. task[t] # NoWork
  <2>1. NoWork[1] = "idle" /\ s # "idle"
    BY DEF NoWork, WorkSteps
  <2> QED BY <2>1 DEF Doing
<1>3. PICK w \in WorkSteps, m \in Messages : task[t] = <<w, m>>
  BY <1>1, <1>2
<1> QED BY <1>3 DEF Doing

LEMMA NoWorkIsNoStep == \A w \in WorkSteps, m \in Messages : NoWork # <<w, m>>
<1> SUFFICES ASSUME NEW w \in WorkSteps, NEW m \in Messages, NoWork = <<w, m>>
             PROVE  FALSE
  OBVIOUS
<1>1. NoWork[1] = "idle" /\ <<w, m>>[1] = w
  BY DEF NoWork
<1> QED BY <1>1 DEF WorkSteps

LEMMA QueuedSince ==
    ASSUME EventTypes, NEW m \in Messages, Queued(m)
    PROVE  server[m][2] \in Nat /\ server[m] # Unsent
BY DEF EventTypes, Queued, Unsent, Acked, Gone

-----------------------------------------------------------------------------
(* LostInv, one lemma per action.                                          *)

LEMMA LostInit == TablesInit => LostInv
<1> SUFFICES ASSUME TablesInit PROVE LostInv
  OBVIOUS
<1> USE DEF TablesInit, DeviceInit, EventInit
<1>1. EventTypes
  BY DEF EventTypes
<1>2. UnsentIsUnknown
  BY DEF UnsentIsUnknown, NoWork, WorkSteps
<1>3. QueuedFirst /\ NoEventIsLost
  BY DEF QueuedFirst, NoEventIsLost, Queued, Unsent, Acked
<1>4. ClearedWasHandled
  BY DEF ClearedWasHandled, NoWork
<1> QED BY <1>1, <1>2, <1>3, <1>4 DEF LostInv

LEMMA LostServerSends ==
    ASSUME LostInv, NEW m \in Messages, ServerSends(m), UNCHANGED now
    PROVE  LostInv'
<1> USE DEF ServerSends, LostInv
<1>1. EventTypes'
  BY DEF EventTypes, Unsent, Acked, Gone
<1>2. UnsentIsUnknown'
  BY DEF UnsentIsUnknown, EventTypes, Unsent
<1>3. \A n \in Messages : server'[n] = IF n = m THEN <<"queued", now>> ELSE server[n]
  BY DEF EventTypes
<1>4. QueuedFirst'
  BY <1>3 DEF QueuedFirst, EventTypes, Queued, UnsentIsUnknown
<1>5. ClearedWasHandled'
  BY DEF ClearedWasHandled
<1>6. NoEventIsLost'
  BY <1>3 DEF NoEventIsLost, UnsentIsUnknown, Delivered, Queued, RowsOf, Acked, EventTypes
<1> QED BY <1>1, <1>2, <1>4, <1>5, <1>6

LEMMA LostLookup ==
    ASSUME LostInv, NEW t \in EventThreads, NEW m \in Messages,
           GetBufferedEvent(t, m), UNCHANGED now
    PROVE  LostInv'
<1> USE DEF GetBufferedEvent, LostInv
<1> DEFINE step == AfterLookup(m)
<1>1. step \in {"decrypt", "handle", "ack"}
  BY DEF AfterLookup
<1>2. \A u \in EventThreads : task'[u] = IF u = t THEN <<step, m>> ELSE task[u]
  BY DEF EventTypes, Steps
<1>3. EventTypes'
  BY <1>1 DEF EventTypes, Steps, WorkSteps
<1>4. server[m] # Unsent
  BY QueuedSince DEF Delivered
<1>5. UnsentIsUnknown'
  BY <1>2, <1>4 DEF UnsentIsUnknown
<1>6. step = "ack" => handled[m] > 0
  BY DEF AfterLookup, ClearedWasHandled, RowsOf
<1>7. ClearedWasHandled'
  BY <1>1, <1>2, <1>6 DEF ClearedWasHandled
<1>8. QueuedFirst' /\ NoEventIsLost'
  BY DEF QueuedFirst, NoEventIsLost, Delivered, Queued, RowsOf
<1> QED BY <1>3, <1>5, <1>7, <1>8

LEMMA LostDecryption ==
    ASSUME LostInv, NEW t \in EventThreads, DecryptionCommits(t), UNCHANGED now
    PROVE  LostInv'
<1> DEFINE m == task[t][2]
           new == [msg |-> m, text |-> TRUE, inserted |-> now]
<1> USE DEF LostInv
<1>1. m \in Messages /\ task[t] = <<"decrypt", m>>
  BY TaskOf DEF DecryptionCommits, WorkSteps
<1>2. /\ consumed' = consumed \cup {m} /\ buffer' = buffer \cup {new}
      /\ task' = [task EXCEPT ![t] = <<"handle", m>>]
      /\ UNCHANGED <<server, handled>>
  BY DEF DecryptionCommits, Steps
<1> HIDE DEF m
<1>3. server[m] # Unsent
  BY <1>1 DEF UnsentIsUnknown, WorkSteps
<1>. /\ new \in [msg : Messages, text : BOOLEAN, inserted : Nat]
     /\ new.msg = m /\ new.text /\ new.inserted = now
  BY <1>1 DEF EventTypes
<1> HIDE DEF new
<1>4. EventTypes'
  BY <1>1, <1>2 DEF EventTypes, WorkSteps
<1>5. \A u \in EventThreads : task'[u] = IF u = t THEN <<"handle", m>> ELSE task[u]
  BY <1>2 DEF EventTypes
<1>6. UnsentIsUnknown'
  BY <1>2, <1>3, <1>5 DEF UnsentIsUnknown
<1>7. QueuedFirst'
  BY <1>1, <1>2 DEF QueuedFirst, Queued
<1>8. ClearedWasHandled'
  BY <1>2, <1>5 DEF ClearedWasHandled
<1>9. NoEventIsLost'
  BY <1>2 DEF NoEventIsLost, Delivered, Queued, RowsOf
<1> QED BY <1>4, <1>6, <1>7, <1>8, <1>9

LEMMA LostHandle ==
    ASSUME LostInv, NEW t \in EventThreads, HandleEvent(t), UNCHANGED now
    PROVE  LostInv'
<1> DEFINE m == task[t][2]
<1> USE DEF LostInv
<1>1. m \in Messages /\ task[t] = <<"handle", m>>
  BY TaskOf DEF HandleEvent, WorkSteps
<1>2. /\ handled' = [handled EXCEPT ![m] = IF @ = 0 THEN 1 ELSE 2]
      /\ task' = [task EXCEPT ![t] = <<"clear", m>>]
      /\ UNCHANGED <<buffer, consumed, server>>
  BY DEF HandleEvent, Steps
<1> HIDE DEF m
<1>3. EventTypes'
  BY <1>1, <1>2 DEF EventTypes, WorkSteps
<1>4. \A u \in EventThreads : task'[u] = IF u = t THEN <<"clear", m>> ELSE task[u]
  BY <1>2 DEF EventTypes
<1>5. /\ handled'[m] > 0
      /\ \A n \in Messages : handled[n] > 0 => handled'[n] > 0
  BY <1>1, <1>2 DEF EventTypes
<1>6. UnsentIsUnknown'
  BY <1>1, <1>2, <1>4 DEF UnsentIsUnknown, WorkSteps
<1>7. QueuedFirst'
  BY <1>2 DEF QueuedFirst, Queued
<1>8. ClearedWasHandled'
  BY <1>2, <1>4, <1>5 DEF ClearedWasHandled, EventTypes
<1>9. NoEventIsLost'
  BY <1>2, <1>5 DEF NoEventIsLost, Delivered, Queued, RowsOf
<1> QED BY <1>3, <1>6, <1>7, <1>8, <1>9

\* The row of m keeps its place and time and loses its plaintext.
LEMMA ClearedRow ==
    ASSUME NEW m, NEW b \in [msg : Messages, text : BOOLEAN, inserted : Nat]
    PROVE  LET c == IF b.msg = m THEN [b EXCEPT !.text = FALSE] ELSE b
           IN  /\ c \in [msg : Messages, text : BOOLEAN, inserted : Nat]
               /\ c.msg = b.msg /\ c.inserted = b.inserted
               /\ c.text = (b.text /\ b.msg # m)
<1>1. CASE b.msg = m
  BY <1>1
<1>2. CASE b.msg # m
  BY <1>2
<1> QED BY <1>1, <1>2

LEMMA LostClear ==
    ASSUME LostInv, NEW t \in EventThreads, ClearBufferedEventPlaintext(t), UNCHANGED now
    PROVE  LostInv'
<1> DEFINE m == task[t][2]
           c(b) == IF b.msg = m THEN [b EXCEPT !.text = FALSE] ELSE b
<1> USE DEF LostInv
<1>1. m \in Messages /\ task[t] = <<"clear", m>>
  BY TaskOf DEF ClearBufferedEventPlaintext, WorkSteps
<1>2. /\ buffer' = {c(b) : b \in buffer}
      /\ task' = [task EXCEPT ![t] = <<"ack", m>>]
      /\ UNCHANGED <<consumed, server, handled>>
  BY DEF ClearBufferedEventPlaintext, Steps
<1> HIDE DEF m
<1>3. \A b \in buffer : /\ c(b) \in [msg : Messages, text : BOOLEAN, inserted : Nat]
                        /\ c(b).msg = b.msg /\ c(b).inserted = b.inserted
                        /\ c(b).text = (b.text /\ b.msg # m)
  BY ClearedRow DEF EventTypes
<1> HIDE DEF c
<1>4. handled[m] > 0
  BY <1>1 DEF ClearedWasHandled
<1>5. EventTypes'
  BY <1>1, <1>2, <1>3 DEF EventTypes, WorkSteps
<1>6. \A u \in EventThreads : task'[u] = IF u = t THEN <<"ack", m>> ELSE task[u]
  BY <1>2 DEF EventTypes
<1>7. UnsentIsUnknown'
  BY <1>1, <1>2, <1>3, <1>6 DEF UnsentIsUnknown, WorkSteps
<1>8. QueuedFirst'
  BY <1>2, <1>3 DEF QueuedFirst, Queued
<1>9. ClearedWasHandled'
  BY <1>2, <1>3, <1>4, <1>6 DEF ClearedWasHandled
<1>10. NoEventIsLost'
  <2>1. \A n \in Messages : \A b \in RowsOf(n) : c(b) \in buffer' /\ c(b).msg = n
    BY <1>2, <1>3 DEF RowsOf
  <2>2. \A n \in Messages : \A b \in RowsOf(n) :
           b.text \/ handled[n] > 0 => c(b).text \/ handled[n] > 0
    BY <1>3, <1>4 DEF RowsOf
  <2> QED BY <1>2, <2>1, <2>2 DEF NoEventIsLost, Delivered, Queued, RowsOf
<1> QED BY <1>5, <1>7, <1>8, <1>9, <1>10

LEMMA LostAcknowledge ==
    ASSUME LostInv, NEW t \in EventThreads, Acknowledge(t), UNCHANGED now
    PROVE  LostInv'
<1> DEFINE m == task[t][2]
<1> USE DEF LostInv
<1>1. m \in Messages /\ task[t] = <<"ack", m>>
  BY TaskOf DEF Acknowledge, WorkSteps
<1>2. /\ server' = [server EXCEPT ![m] = IF Queued(m) THEN Acked ELSE @]
      /\ task' = [task EXCEPT ![t] = NoWork]
      /\ UNCHANGED <<buffer, consumed, handled>>
  BY DEF Acknowledge, Stops
<1> HIDE DEF m
<1>3. EventTypes'
  BY <1>1, <1>2 DEF EventTypes, WorkSteps
<1>4. \A n \in Messages : server'[n] = IF n = m /\ Queued(m) THEN Acked ELSE server[n]
  BY <1>2 DEF EventTypes
<1>5. \A u \in EventThreads, w \in WorkSteps, n \in Messages :
         task'[u] = <<w, n>> => task[u] = <<w, n>>
  <2>1. \A u \in EventThreads : task'[u] = IF u = t THEN NoWork ELSE task[u]
    BY <1>2 DEF EventTypes
  <2> QED BY <2>1, NoWorkIsNoStep
<1>6. UnsentIsUnknown'
  BY <1>2, <1>4, <1>5 DEF UnsentIsUnknown, Acked, Unsent
<1>7. \A n \in Messages : Queued(n)' => Queued(n) /\ server'[n] = server[n]
  BY <1>4 DEF Queued, Acked
<1>8. QueuedFirst'
  BY <1>2, <1>7 DEF QueuedFirst, EventTypes
<1>9. handled[m] > 0
  BY <1>1 DEF ClearedWasHandled
<1>10. ClearedWasHandled'
  BY <1>2, <1>5 DEF ClearedWasHandled, WorkSteps
<1>11. NoEventIsLost'
  BY <1>2, <1>4, <1>7, <1>9 DEF NoEventIsLost, Delivered, RowsOf
<1> QED BY <1>3, <1>6, <1>8, <1>10, <1>11

\* Failures, crashes and the time: tasks are given up at most, and no time goes back.
LEMMA LostTasksStop ==
    ASSUME LostInv, UNCHANGED <<buffer, consumed, server, handled>>,
           now' \in Nat, now' >= now,
           task' \in [EventThreads -> {NoWork} \cup (WorkSteps \X Messages)],
           \A t \in EventThreads : task'[t] = task[t] \/ task'[t] = NoWork
    PROVE  LostInv'
<1> USE DEF LostInv
<1>1. EventTypes'
  BY DEF EventTypes
<1>2. \A u \in EventThreads, w \in WorkSteps, n \in Messages :
         task'[u] = <<w, n>> => task[u] = <<w, n>>
  BY NoWorkIsNoStep
<1>3. UnsentIsUnknown'
  BY <1>2 DEF UnsentIsUnknown
<1>4. \A n \in Messages : Queued(n) => server[n][2] \in Nat
  BY QueuedSince
<1>5. QueuedFirst'
  BY <1>4 DEF QueuedFirst, Queued, EventTypes
<1>6. ClearedWasHandled'
  BY <1>2 DEF ClearedWasHandled, WorkSteps
<1>7. \A n \in Messages : Delivered(n)' => Delivered(n)
  BY <1>4, EventAssumption DEF Delivered, Queued, EventTypes
<1>8. NoEventIsLost'
  BY <1>7 DEF NoEventIsLost, RowsOf
<1> QED BY <1>1, <1>3, <1>5, <1>6, <1>8

\* A row that is deleted is of a message the server delivers no more.
LEMMA LostDeleteOld ==
    ASSUME LostInv, DeleteOldBufferedHashes, UNCHANGED now
    PROVE  LostInv'
<1> USE DEF LostInv, DeleteOldBufferedHashes
<1>1. EventTypes' /\ UnsentIsUnknown' /\ ClearedWasHandled'
  BY DEF EventTypes, UnsentIsUnknown, ClearedWasHandled
<1>2. QueuedFirst'
  BY DEF QueuedFirst, Queued
<1>3. \A n \in Messages : \A b \in RowsOf(n) : Delivered(n) => b \in buffer'
  <2>1. SUFFICES ASSUME NEW n \in Messages, NEW b \in RowsOf(n), Delivered(n)
                 PROVE  ~Old(b)
    BY DEF RowsOf
  <2>2. server[n][2] <= b.inserted /\ now <= server[n][2] + EventKeep
    BY <2>1 DEF RowsOf, Delivered, QueuedFirst
  <2>3. server[n][2] \in Nat /\ b.inserted \in Nat
    BY <2>1, QueuedSince DEF Delivered, RowsOf, EventTypes
  <2> QED BY <2>2, <2>3, EventAssumption DEF Old, EventTypes
<1>4. NoEventIsLost'
  BY <1>3 DEF NoEventIsLost, Delivered, Queued, RowsOf
<1> QED BY <1>1, <1>2, <1>4

LEMMA LostCascade ==
    ASSUME LostInv, EventsCascade, UNCHANGED now
    PROVE  LostInv'
<1> USE DEF LostInv, EventsCascade
<1>1. EventTypes' /\ ClearedWasHandled'
  BY DEF EventTypes, ClearedWasHandled
<1>2. \A n \in Messages : server'[n] = IF Queued(n) THEN Gone ELSE server[n]
  OBVIOUS
<1>3. \A n \in Messages : ~Queued(n)'
  BY <1>2 DEF Queued, Gone
<1>4. UnsentIsUnknown'
  BY <1>2 DEF UnsentIsUnknown, Unsent, Gone
<1>5. QueuedFirst'
  BY <1>3 DEF QueuedFirst
<1>6. NoEventIsLost'
  BY <1>2, <1>3 DEF NoEventIsLost, Delivered, Acked, Gone
<1> QED BY <1>1, <1>4, <1>5, <1>6

\* What a step of Tables is to the events.
LEMMA StepsOfTables ==
    ASSUME [TablesNext]_tablesVars
    PROVE  \/ EventNext /\ UNCHANGED <<row, stores, now>>
           \/ DeleteRow /\ EventsCascade
           \/ PairRow /\ EventsRestart /\ UNCHANGED <<buffer, consumed, server, handled, faults>>
           \/ /\ UNCHANGED eventVars
              /\ UNCHANGED now \/ Tick
              /\ UNCHANGED row
<1>1. CASE DeviceStep
  BY <1>1 DEF DeviceStep, SetNoop, eventVars
<1>2. CASE EventStep
  BY <1>2 DEF EventStep, OthersThanEvents, deviceVars
<1>3. CASE SyncStep \/ KeyStep \/ SignalStep
  BY <1>3 DEF SyncStep, KeyStep, SignalStep, OthersThanApp, OthersThanSignal, deviceVars
<1>4. CASE MapStep \/ TokenStep \/ SecretStep \/ SentStep \/ SettingStep
  BY <1>4 DEF MapStep, TokenStep, SecretStep, SentStep, SettingStep, OthersThanPeers,
              deviceVars
<1>5. CASE ClockStep \/ UNCHANGED tablesVars
  BY <1>5 DEF ClockStep, Tick, tablesVars, deviceVars
<1> QED BY <1>1, <1>2, <1>3, <1>4, <1>5 DEF TablesNext

LEMMA LostStep == LostInv /\ [TablesNext]_tablesVars => LostInv'
<1> SUFFICES ASSUME LostInv, [TablesNext]_tablesVars PROVE LostInv'
  OBVIOUS
<1>1. task \in [EventThreads -> {NoWork} \cup (WorkSteps \X Messages)] /\ now \in Nat
  BY DEF LostInv, EventTypes
<1>2. CASE EventNext /\ UNCHANGED <<row, stores, now>>
  <2>1. CASE \E m \in Messages : ServerSends(m)
    BY <1>2, <2>1, LostServerSends
  <2>2. CASE Lookups
    BY <1>2, <2>2, LostLookup DEF Lookups
  <2>3. CASE \E t \in EventThreads : EventWork(t) \/ CallFails(t)
    <3>1. PICK t \in EventThreads : EventWork(t) \/ CallFails(t)
      BY <2>3
    <3>2. CASE DecryptionFails(t) \/ CallFails(t)
      <4>1. /\ UNCHANGED <<buffer, consumed, server, handled>>
            /\ task' = [task EXCEPT ![t] = NoWork]
        BY <3>2 DEF DecryptionFails, CallFails, Stops
      <4>2. /\ task' \in [EventThreads -> {NoWork} \cup (WorkSteps \X Messages)]
            /\ \A u \in EventThreads : task'[u] = task[u] \/ task'[u] = NoWork
        BY <1>1, <4>1
      <4> QED BY <1>1, <1>2, <4>1, <4>2, LostTasksStop
    <3> QED BY <1>2, <3>1, <3>2, LostDecryption, LostHandle, LostClear, LostAcknowledge
            DEF EventWork
  <2>4. CASE EventsCrash
    BY <1>1, <1>2, <2>4, LostTasksStop DEF EventsCrash, EventsRestart
  <2>5. CASE DeleteOldBufferedHashes
    BY <1>2, <2>5, LostDeleteOld
  <2> QED BY <1>2, <2>1, <2>2, <2>3, <2>4, <2>5 DEF EventNext
<1>3. CASE DeleteRow /\ EventsCascade
  BY <1>3, LostCascade DEF DeleteRow
<1>4. CASE PairRow /\ EventsRestart /\ UNCHANGED <<buffer, consumed, server, handled, faults>>
  BY <1>1, <1>4, LostTasksStop DEF PairRow, EventsRestart
<1>5. CASE UNCHANGED eventVars /\ (UNCHANGED now \/ Tick)
  BY <1>1, <1>5, LostTasksStop DEF eventVars, Tick
<1> QED BY <1>2, <1>3, <1>4, <1>5, StepsOfTables

(* A message whose keys are used up is in the buffer for as long as it may *)
(* be delivered, with its plaintext until it is handled; acknowledged is   *)
(* only what was handled.  This holds through crashes, failures, repeated  *)
(* and simultaneous delivery, and DeleteOldBufferedHashes.                 *)
THEOREM NoLoss == TablesSpec => []NoEventIsLost
<1>1. LostInv => NoEventIsLost
  BY DEF LostInv
<1> QED BY <1>1, LostInit, LostStep, PTL DEF TablesSpec

-----------------------------------------------------------------------------
(* Once, one lemma per action.  LostInv holds by then.                     *)

LEMMA OnceInit == TablesInit => Once
<1> SUFFICES ASSUME TablesInit PROVE Once
  OBVIOUS
<1> USE DEF TablesInit, DeviceInit, EventInit
<1>1. \A t \in EventThreads, m \in Messages : task[t] # <<"handle", m>> /\ task[t] # <<"clear", m>>
  BY NoWorkIsNoStep DEF WorkSteps
<1>2. KnownIsConsumed
  BY <1>1 DEF KnownIsConsumed
<1>3. HandledIsKnown /\ NotAgain /\ HandledOnce
  BY DEF HandledIsKnown, NotAgain, HandledOnce
<1>4. OneHandler
  BY <1>1 DEF OneHandler, Handling
<1> QED BY <1>2, <1>3, <1>4 DEF Once

LEMMA OnceServerSends ==
    ASSUME LostInv, Once, NEW m \in Messages, ServerSends(m), UNCHANGED row
    PROVE  Once'
<1> USE DEF Once, ServerSends
<1>1. \A n \in Messages : n # m => server'[n] = server[n]
  BY DEF LostInv, EventTypes
<1>2. KnownIsConsumed'
  BY DEF KnownIsConsumed
<1>3. HandledIsKnown'
  <2>1. SUFFICES ASSUME NEW n \in Messages, handled[n] > 0, Settled(n)
                 PROVE  Settled(n)'
    BY DEF HandledIsKnown
  <2> QED BY <1>1, <2>1 DEF Settled, Queued
<1>4. OneHandler' /\ NotAgain' /\ HandledOnce'
  BY DEF OneHandler, Handling, NotAgain, HandledOnce
<1> QED BY <1>2, <1>3, <1>4

LEMMA OnceLookup ==
    ASSUME LostInv, Once, NEW t \in EventThreads, NEW m \in Messages,
           GetBufferedEvent(t, m), UNCHANGED row
    PROVE  Once'
<1> USE DEF Once
<1> DEFINE step == AfterLookup(m)
<1>1. /\ step \in {"decrypt", "handle", "ack"}
      /\ step = "handle" => \E b \in buffer : b.msg = m /\ b.text
  BY DEF AfterLookup, RowsOf
<1>2. /\ \A u \in EventThreads : task'[u] = IF u = t THEN <<step, m>> ELSE task[u]
      /\ task[t] = NoWork
  BY DEF GetBufferedEvent, LostInv, EventTypes, Steps
<1>3. /\ UNCHANGED <<buffer, consumed, server, handled>>
      /\ cut' = IF step = "handle" /\ Handling(m) # {} THEN cut \cup {m} ELSE cut
      /\ Queued(m)
  BY DEF GetBufferedEvent, Delivered
<1> HIDE DEF step
\* Who handles or clears: those who did, and t if it got the plaintext.
<1>4. \A u \in EventThreads, n \in Messages :
         /\ task[u] = <<"clear", n>> => u # t
         /\ task'[u] = <<"clear", n>> <=> task[u] = <<"clear", n>>
         /\ task'[u] = <<"handle", n>>
               => task[u] = <<"handle", n>> \/ (u = t /\ n = m /\ step = "handle")
  BY <1>1, <1>2, NoWorkIsNoStep DEF WorkSteps
<1>5. KnownIsConsumed'
  BY <1>1, <1>3, <1>4 DEF KnownIsConsumed, Queued
<1>6. HandledIsKnown'
  <2>1. SUFFICES ASSUME NEW n \in Messages, handled[n] > 0, Settled(n)
                 PROVE  Settled(n)'
    BY <1>3 DEF HandledIsKnown
  <2>2. n # m
    BY <1>3, <2>1 DEF Settled
  <2> QED BY <1>2, <1>3, <2>1, <2>2 DEF Settled, Queued
<1>7. step = "handle" /\ m \notin cut' => Handling(m) = {} /\ handled[m] = 0
  <2>1. SUFFICES ASSUME step = "handle", m \notin cut'
                 PROVE  Handling(m) = {} /\ ~(handled[m] > 0)
    BY DEF LostInv, EventTypes
  <2>2. Handling(m) = {} /\ m \notin cut
    BY <1>3, <2>1
  <2>3. \A u \in EventThreads : task[u] # <<"clear", m>>
    BY <2>2 DEF Handling
  <2> QED BY <1>1, <2>1, <2>2, <2>3 DEF NotAgain
<1>8. OneHandler'
  BY <1>3, <1>4, <1>7 DEF OneHandler, Handling
<1>9. NotAgain'
  BY <1>3, <1>4, <1>7 DEF NotAgain
<1>10. HandledOnce'
  BY <1>3 DEF HandledOnce
<1> QED BY <1>5, <1>6, <1>8, <1>9, <1>10

LEMMA OnceDecryption ==
    ASSUME LostInv, Once, NEW t \in EventThreads, DecryptionCommits(t), UNCHANGED row
    PROVE  Once'
<1> DEFINE m == task[t][2]
           new == [msg |-> m, text |-> TRUE, inserted |-> now]
<1> USE DEF Once
<1>1. m \in Messages /\ task[t] = <<"decrypt", m>>
  BY TaskOf DEF DecryptionCommits, LostInv, WorkSteps
<1>2. /\ consumed' = consumed \cup {m} /\ buffer' = buffer \cup {new}
      /\ task' = [task EXCEPT ![t] = <<"handle", m>>]
      /\ UNCHANGED <<server, handled, cut>>
      /\ m \notin consumed /\ row
  BY DEF DecryptionCommits, Decryptable, Insertable, Steps
<1> HIDE DEF m
<1>3. new.msg = m
  OBVIOUS
<1> HIDE DEF new
<1>4. \A u \in EventThreads : task'[u] = IF u = t THEN <<"handle", m>> ELSE task[u]
  BY <1>2 DEF LostInv, EventTypes
\* Nobody has handled the message or is about to: the session could decrypt it.
<1>5. Handling(m) = {}
  BY <1>1, <1>2 DEF KnownIsConsumed, Handling
<1>6. handled[m] = 0
  BY <1>1, <1>2 DEF HandledIsKnown, Settled, WorkSteps, LostInv, EventTypes
<1>7. KnownIsConsumed'
  BY <1>2, <1>3, <1>4 DEF KnownIsConsumed, Queued
<1>8. HandledIsKnown'
  BY <1>2, <1>6 DEF HandledIsKnown, Settled, WorkSteps, Queued, LostInv, EventTypes
<1>9. OneHandler'
  BY <1>2, <1>4, <1>5 DEF OneHandler, Handling
<1>10. NotAgain'
  BY <1>1, <1>2, <1>3, <1>4, <1>6 DEF NotAgain
<1>11. HandledOnce'
  BY <1>2 DEF HandledOnce
<1> QED BY <1>7, <1>8, <1>9, <1>10, <1>11

LEMMA OnceHandle ==
    ASSUME LostInv, Once, NEW t \in EventThreads, HandleEvent(t), UNCHANGED row
    PROVE  Once'
<1> DEFINE m == task[t][2]
<1> USE DEF Once
<1>1. m \in Messages /\ task[t] = <<"handle", m>>
  BY TaskOf DEF HandleEvent, LostInv, WorkSteps
<1>2. /\ handled' = [handled EXCEPT ![m] = IF @ = 0 THEN 1 ELSE 2]
      /\ task' = [task EXCEPT ![t] = <<"clear", m>>]
      /\ UNCHANGED <<buffer, consumed, server, cut>>
  BY DEF HandleEvent, Steps
<1> HIDE DEF m
<1>3. \A u \in EventThreads : task'[u] = IF u = t THEN <<"clear", m>> ELSE task[u]
  BY <1>2 DEF LostInv, EventTypes
<1>4. /\ \A n \in Messages : n # m => handled'[n] = handled[n]
      /\ handled'[m] = IF handled[m] = 0 THEN 1 ELSE 2
  BY <1>1, <1>2 DEF LostInv, EventTypes
<1>5. KnownIsConsumed'
  BY <1>1, <1>2, <1>3 DEF KnownIsConsumed, Queued
<1>6. HandledIsKnown'
  <2>1. SUFFICES ASSUME NEW n \in Messages, handled'[n] > 0
                 PROVE  n \in consumed \/ ~row \/ Settled(n)'
    BY <1>2 DEF HandledIsKnown
  <2>2. CASE n = m
    BY <1>1, <2>2 DEF KnownIsConsumed
  <2>3. CASE n # m
    BY <1>2, <1>3, <1>4, <2>1, <2>3 DEF HandledIsKnown, Settled, Queued
  <2> QED BY <2>2, <2>3
<1>7. OneHandler'
  BY <1>1, <1>2, <1>3 DEF OneHandler, Handling
<1>8. m \notin cut => \A u \in EventThreads : u # t => task[u] # <<"handle", m>>
  BY <1>1 DEF OneHandler, Handling
<1>9. NotAgain'
  BY <1>1, <1>2, <1>3, <1>4, <1>8 DEF NotAgain
<1>10. m \notin cut => handled[m] = 0
  BY <1>1 DEF NotAgain, LostInv, EventTypes
<1>11. HandledOnce'
  BY <1>2, <1>4, <1>10 DEF HandledOnce
<1> QED BY <1>5, <1>6, <1>7, <1>9, <1>11

LEMMA OnceClear ==
    ASSUME LostInv, Once, NEW t \in EventThreads, ClearBufferedEventPlaintext(t),
           UNCHANGED row
    PROVE  Once'
<1> DEFINE m == task[t][2]
           c(b) == IF b.msg = m THEN [b EXCEPT !.text = FALSE] ELSE b
<1> USE DEF Once
<1>1. m \in Messages /\ task[t] = <<"clear", m>>
  BY TaskOf DEF ClearBufferedEventPlaintext, LostInv, WorkSteps
<1>2. /\ buffer' = {c(b) : b \in buffer}
      /\ task' = [task EXCEPT ![t] = <<"ack", m>>]
      /\ UNCHANGED <<consumed, server, handled, cut>>
  BY DEF ClearBufferedEventPlaintext, Steps
<1> HIDE DEF m
<1>3. \A b \in buffer : c(b).msg = b.msg /\ c(b).text = (b.text /\ b.msg # m)
  BY ClearedRow DEF LostInv, EventTypes
<1> HIDE DEF c
<1>4. \A u \in EventThreads : task'[u] = IF u = t THEN <<"ack", m>> ELSE task[u]
  BY <1>2 DEF LostInv, EventTypes
<1>5. KnownIsConsumed'
  BY <1>2, <1>3, <1>4 DEF KnownIsConsumed, Queued
<1>6. HandledIsKnown'
  <2>1. SUFFICES ASSUME NEW n \in Messages, handled[n] > 0, Settled(n)
                 PROVE  Settled(n)'
    BY <1>2 DEF HandledIsKnown
  <2>2. n # m
    BY <1>1, <2>1 DEF Settled, WorkSteps
  <2> QED BY <1>2, <1>4, <2>1, <2>2 DEF Settled, Queued
<1>7. OneHandler'
  BY <1>2, <1>4 DEF OneHandler, Handling
<1>8. NotAgain'
  <2>1. SUFFICES ASSUME NEW n \in Messages \ cut, handled[n] > 0
                 PROVE  /\ \A u \in EventThreads : task'[u] # <<"handle", n>>
                        /\ \A d \in buffer' : d.msg = n /\ d.text =>
                              \E u \in EventThreads : task'[u] = <<"clear", n>>
    BY <1>2 DEF NotAgain
  <2>2. \A u \in EventThreads : task'[u] # <<"handle", n>>
    BY <1>4, <2>1 DEF NotAgain
  <2>3. SUFFICES ASSUME NEW b \in buffer, b.msg = n, b.text, n # m
                 PROVE  \E u \in EventThreads : task'[u] = <<"clear", n>>
    BY <1>2, <1>3, <2>2
  <2>4. PICK u \in EventThreads : task[u] = <<"clear", n>>
    BY <2>1, <2>3 DEF NotAgain
  <2> QED BY <1>1, <1>4, <2>3, <2>4
<1>9. HandledOnce'
  BY <1>2 DEF HandledOnce
<1> QED BY <1>5, <1>6, <1>7, <1>8, <1>9

LEMMA OnceAcknowledge ==
    ASSUME LostInv, Once, NEW t \in EventThreads, Acknowledge(t), UNCHANGED row
    PROVE  Once'
<1> DEFINE m == task[t][2]
<1> USE DEF Once
<1>1. m \in Messages /\ task[t] = <<"ack", m>>
  BY TaskOf DEF Acknowledge, LostInv, WorkSteps
<1>2. /\ server' = [server EXCEPT ![m] = IF Queued(m) THEN Acked ELSE @]
      /\ task' = [task EXCEPT ![t] = NoWork]
      /\ UNCHANGED <<buffer, consumed, handled, cut>>
  BY DEF Acknowledge, Stops
<1> HIDE DEF m
<1>3. \A n \in Messages : server'[n] = IF n = m /\ Queued(m) THEN Acked ELSE server[n]
  BY <1>2 DEF LostInv, EventTypes
<1>4. \A u \in EventThreads : task'[u] = IF u = t THEN NoWork ELSE task[u]
  BY <1>2 DEF LostInv, EventTypes
<1>5. \A u \in EventThreads, n \in Messages, w \in WorkSteps :
         /\ task'[u] = <<w, n>> => task[u] = <<w, n>>
         /\ task[u] = <<w, n>> /\ u # t => task'[u] = <<w, n>>
  BY <1>4, NoWorkIsNoStep
<1>6. \A n \in Messages : (Queued(n)' => Queued(n)) /\ (server'[n] = Unsent => server[n] = Unsent)
  BY <1>3 DEF Queued, Acked, Unsent
<1>7. KnownIsConsumed'
  BY <1>2, <1>5, <1>6 DEF KnownIsConsumed, WorkSteps
<1>8. HandledIsKnown'
  BY <1>2, <1>5, <1>6 DEF HandledIsKnown, Settled
<1>9. OneHandler'
  BY <1>2, <1>5 DEF OneHandler, Handling, WorkSteps
<1>10. NotAgain'
  <2>1. \A u \in EventThreads, n \in Messages :
           task[u] = <<"clear", n>> => task'[u] = <<"clear", n>>
    BY <1>1, <1>5 DEF WorkSteps
  <2> QED BY <1>2, <1>5, <2>1 DEF NotAgain, WorkSteps
<1>11. HandledOnce'
  BY <1>2 DEF HandledOnce
<1> QED BY <1>7, <1>8, <1>9, <1>10, <1>11

\* Handling that is given up between HandleEvent and the clearing is cut off.
LEMMA OnceTasksStop ==
    ASSUME LostInv, Once, UNCHANGED <<buffer, consumed, server, handled, row>>,
           cut \subseteq cut',
           \A t \in EventThreads :
              \/ task'[t] = task[t]
              \/ /\ task'[t] = NoWork
                 /\ \A m \in Messages : task[t] = <<"clear", m>> => m \in cut'
    PROVE  Once'
<1> USE DEF Once
<1>1. \A u \in EventThreads, w \in WorkSteps, n \in Messages :
         task'[u] = <<w, n>> => task[u] = <<w, n>>
  BY NoWorkIsNoStep
<1>2. KnownIsConsumed'
  BY <1>1 DEF KnownIsConsumed, Queued, WorkSteps
<1>3. HandledIsKnown'
  BY <1>1 DEF HandledIsKnown, Settled, Queued
<1>4. OneHandler'
  BY <1>1 DEF OneHandler, Handling, WorkSteps
<1>5. NotAgain'
  <2>1. \A u \in EventThreads, n \in Messages \ cut' :
           task[u] = <<"clear", n>> => task'[u] = <<"clear", n>>
    OBVIOUS
  <2>2. \A u \in EventThreads, n \in Messages :
           task'[u] = <<"handle", n>> => task[u] = <<"handle", n>>
    BY <1>1 DEF WorkSteps
  <2> QED BY <2>1, <2>2 DEF NotAgain
<1>6. HandledOnce'
  BY DEF HandledOnce
<1> QED BY <1>2, <1>3, <1>4, <1>5, <1>6

LEMMA OnceDeleteOld ==
    ASSUME LostInv, Once, DeleteOldBufferedHashes, UNCHANGED row
    PROVE  Once'
<1> USE DEF Once, DeleteOldBufferedHashes
<1>1. KnownIsConsumed' /\ NotAgain'
  BY DEF KnownIsConsumed, NotAgain, Queued
<1>2. HandledIsKnown' /\ OneHandler' /\ HandledOnce'
  BY DEF HandledIsKnown, Settled, Queued, OneHandler, Handling, HandledOnce
<1> QED BY <1>1, <1>2

LEMMA OnceCascade ==
    ASSUME LostInv, Once, EventsCascade, row' = FALSE
    PROVE  Once'
<1> USE DEF Once, EventsCascade
<1>1. KnownIsConsumed'
  BY DEF KnownIsConsumed, Queued, Gone
<1>2. HandledIsKnown' /\ NotAgain'
  BY DEF HandledIsKnown, NotAgain
<1>3. OneHandler' /\ HandledOnce'
  BY DEF OneHandler, Handling, HandledOnce
<1> QED BY <1>1, <1>2, <1>3

\* A device that pairs again starts without goroutines that handle messages.
LEMMA OncePairs ==
    ASSUME LostInv, Once, PairRow, EventsRestart,
           UNCHANGED <<buffer, consumed, server, handled>>
    PROVE  Once'
<1> USE DEF Once, PairRow, EventsRestart
<1>1. \A u \in EventThreads, w \in WorkSteps, n \in Messages : task'[u] # <<w, n>>
  BY NoWorkIsNoStep
<1>2. KnownIsConsumed'
  BY <1>1 DEF KnownIsConsumed, Queued, WorkSteps
<1>3. HandledIsKnown'
  <2>1. SUFFICES ASSUME NEW n \in Messages, handled[n] > 0 PROVE Settled(n)'
    BY DEF HandledIsKnown
  <2>2. ~Queued(n) /\ server[n] # Unsent
    BY <2>1 DEF KnownIsConsumed, LostInv, UnsentIsUnknown
  <2> QED BY <1>1, <2>2 DEF Settled, Queued
<1>4. OneHandler'
  BY <1>1 DEF OneHandler, Handling, WorkSteps
<1>5. NotAgain' /\ HandledOnce'
  BY <1>1 DEF NotAgain, HandledOnce, WorkSteps
<1> QED BY <1>2, <1>3, <1>4, <1>5

LEMMA OnceStep == LostInv /\ Once /\ [TablesNext]_tablesVars => Once'
<1> SUFFICES ASSUME LostInv, Once, [TablesNext]_tablesVars PROVE Once'
  OBVIOUS
<1>1. CASE EventNext /\ UNCHANGED <<row, stores, now>>
  <2>1. CASE \E m \in Messages : ServerSends(m)
    BY <1>1, <2>1, OnceServerSends
  <2>2. CASE Lookups
    BY <1>1, <2>2, OnceLookup DEF Lookups
  <2>3. CASE \E t \in EventThreads : EventWork(t) \/ CallFails(t)
    <3>1. PICK t \in EventThreads : EventWork(t) \/ CallFails(t)
      BY <2>3
    <3>2. CASE DecryptionFails(t) \/ CallFails(t)
      <4>1. /\ UNCHANGED <<buffer, consumed, server, handled>>
            /\ task' = [task EXCEPT ![t] = NoWork]
            /\ Doing(t, "clear") => cut' = cut \cup {task[t][2]}
            /\ cut \subseteq cut'
        BY <3>2 DEF DecryptionFails, CallFails, Stops, Doing
      <4>2. \A m \in Messages : task[t] = <<"clear", m>> => m \in cut'
        BY <4>1 DEF Doing
      <4>3. \A u \in EventThreads : task'[u] = task[u] \/ (u = t /\ task'[u] = NoWork)
        BY <4>1 DEF LostInv, EventTypes
      <4> QED BY <1>1, <4>1, <4>2, <4>3, OnceTasksStop
    <3> QED BY <1>1, <3>1, <3>2, OnceDecryption, OnceHandle, OnceClear, OnceAcknowledge
            DEF EventWork
  <2>4. CASE EventsCrash
    <3>1. /\ UNCHANGED <<buffer, consumed, server, handled>>
          /\ cut \subseteq cut'
          /\ \A u \in EventThreads : /\ task'[u] = NoWork
                                     /\ \A m \in Messages : task[u] = <<"clear", m>> => m \in cut'
      BY <2>4 DEF EventsCrash, EventsRestart
    <3> QED BY <1>1, <3>1, OnceTasksStop
  <2>5. CASE DeleteOldBufferedHashes
    BY <1>1, <2>5, OnceDeleteOld
  <2> QED BY <1>1, <2>1, <2>2, <2>3, <2>4, <2>5 DEF EventNext
<1>2. CASE DeleteRow /\ EventsCascade
  BY <1>2, OnceCascade DEF DeleteRow
<1>3. CASE PairRow /\ EventsRestart /\ UNCHANGED <<buffer, consumed, server, handled, faults>>
  BY <1>3, OncePairs
<1>4. CASE UNCHANGED eventVars /\ UNCHANGED row
  BY <1>4, OnceTasksStop DEF eventVars
<1> QED BY <1>1, <1>2, <1>3, <1>4, StepsOfTables

(* A message is handled a second time only if two goroutines had its       *)
(* plaintext, or the first handling ended before the plaintext was         *)
(* cleared, however often the server delivers it.                          *)
THEOREM NoRepetition == TablesSpec => []HandledOnce
<1>1. LostInv /\ Once /\ [TablesNext]_tablesVars => LostInv' /\ Once'
  BY LostStep, OnceStep
<1>2. Once => HandledOnce
  BY DEF Once
<1> QED BY <1>1, <1>2, LostInit, OnceInit, PTL DEF TablesSpec

-----------------------------------------------------------------------------
(* The types of the events.                                                *)

EventFits ==
    /\ now \in 0..MaxNow
    /\ buffer \subseteq [msg : Messages, text : BOOLEAN, inserted : 0..MaxNow]
    /\ \A b \in buffer, c \in buffer : b.msg = c.msg => b = c
    /\ consumed \subseteq Messages /\ cut \subseteq Messages
    /\ server \in [Messages -> {Unsent, Acked, Gone} \cup ({"queued"} \X (0..MaxNow))]
    /\ task \in [EventThreads -> {NoWork} \cup (WorkSteps \X Messages)]
    /\ handled \in [Messages -> 0..2]
    /\ faults \in 0..MaxFaults

LEMMA EventFitsIsTyped == EventFits => EventTypeOK
<1> SUFFICES ASSUME EventFits PROVE EventTypeOK
  OBVIOUS
<1>1. ASSUME NEW m \in Messages
      PROVE  Cardinality(RowsOf(m)) <= 1
  <2>1. CASE RowsOf(m) = {}
    BY <2>1, FS_EmptySet
  <2>2. CASE \E b \in buffer : b.msg = m
    <3>1. PICK b \in buffer : b.msg = m
      BY <2>2
    <3>2. RowsOf(m) = {b}
      BY <3>1 DEF RowsOf, EventFits
    <3> QED
      BY <3>2, FS_Singleton
  <2> QED
    BY <2>1, <2>2 DEF RowsOf
<1> QED
  BY <1>1 DEF EventFits, EventTypeOK, WorkSteps

\* The message of a task.
LEMMA TaskFits ==
    ASSUME EventFits, NEW t \in EventThreads, NEW s \in WorkSteps, Doing(t, s)
    PROVE  task[t][2] \in Messages
<1>1. task[t] \in {NoWork} \cup (WorkSteps \X Messages)
  BY DEF EventFits
<1>2. task[t] # NoWork
  <2>1. NoWork[1] = "idle" /\ s # "idle"
    BY DEF NoWork, WorkSteps
  <2> QED
    BY <2>1 DEF Doing
<1> QED
  BY <1>1, <1>2

\* A step that leaves the buffer and the server alone.
LEMMA TaskStepFits ==
    ASSUME EventFits, NEW t \in EventThreads,
           NEW w \in {NoWork} \cup (WorkSteps \X Messages), task' = [task EXCEPT ![t] = w],
           UNCHANGED <<buffer, consumed, server, now>>,
           cut' \subseteq Messages, handled' \in [Messages -> 0..2], faults' \in 0..MaxFaults
    PROVE  EventFits'
<1>1. task' \in [EventThreads -> {NoWork} \cup (WorkSteps \X Messages)]
  BY DEF EventFits
<1> QED
  BY <1>1 DEF EventFits

LEMMA EventFitsWork ==
    ASSUME EventFits, NEW t \in EventThreads, EventWork(t), UNCHANGED now
    PROVE  EventFits'
<1> DEFINE m == task[t][2]
<1> USE DEF EventFits
<1>1. CASE DecryptionCommits(t)
  <2>1. m \in Messages
    BY <1>1, TaskFits DEF DecryptionCommits, WorkSteps
  <2>2. PICK b : b = [msg |-> m, text |-> TRUE, inserted |-> now]
    OBVIOUS
  <2>3. /\ buffer' = buffer \cup {b} /\ consumed' = consumed \cup {m}
        /\ task' = [task EXCEPT ![t] = <<"handle", m>>]
        /\ UNCHANGED <<server, handled, cut, faults>>
        /\ \A c \in buffer : c.msg # m
    BY <1>1, <2>2 DEF DecryptionCommits, Decryptable, Steps, RowsOf
  <2>4. b.msg = m /\ b \in [msg : Messages, text : BOOLEAN, inserted : 0..MaxNow]
    BY <2>1, <2>2
  <2>5. \A a \in buffer', c \in buffer' : a.msg = c.msg => a = c
    BY <2>3, <2>4
  <2>6. task' \in [EventThreads -> {NoWork} \cup (WorkSteps \X Messages)]
    BY <2>1, <2>3 DEF WorkSteps
  <2> QED
    BY <2>1, <2>3, <2>4, <2>5, <2>6
<1>2. CASE DecryptionFails(t)
  BY <1>2, TaskStepFits DEF DecryptionFails, Stops
<1>3. CASE HandleEvent(t)
  <2>1. m \in Messages
    BY <1>3, TaskFits DEF HandleEvent, WorkSteps
  <2>2. handled' \in [Messages -> 0..2]
    BY <1>3, <2>1 DEF HandleEvent
  <2>3. <<"clear", m>> \in WorkSteps \X Messages
    BY <2>1 DEF WorkSteps
  <2> QED
    BY <1>3, <2>2, <2>3, TaskStepFits DEF HandleEvent, Steps
<1>4. CASE ClearBufferedEventPlaintext(t)
  <2>1. m \in Messages
    BY <1>4, TaskFits DEF ClearBufferedEventPlaintext, WorkSteps
  <2> DEFINE Cleared(b) == IF b.msg = m THEN [b EXCEPT !.text = FALSE] ELSE b
  <2>2. /\ buffer' = {Cleared(b) : b \in buffer}
        /\ task' = [task EXCEPT ![t] = <<"ack", m>>]
        /\ UNCHANGED <<consumed, server, handled, cut, faults>>
    BY <1>4 DEF ClearBufferedEventPlaintext, Steps
  <2>3. \A b \in buffer : /\ Cleared(b).msg = b.msg
                          /\ Cleared(b) \in [msg : Messages, text : BOOLEAN, inserted : 0..MaxNow]
    OBVIOUS
  <2>4. task' \in [EventThreads -> {NoWork} \cup (WorkSteps \X Messages)]
    BY <2>1, <2>2 DEF WorkSteps
  <2> HIDE DEF Cleared
  <2>5. \A a \in buffer', c \in buffer' : a.msg = c.msg => a = c
    BY <2>2, <2>3
  <2>6. buffer' \subseteq [msg : Messages, text : BOOLEAN, inserted : 0..MaxNow]
    BY <2>2, <2>3
  <2> QED
    BY <2>2, <2>4, <2>5, <2>6
<1>5. CASE Acknowledge(t)
  <2>1. server' \in [Messages -> {Unsent, Acked, Gone} \cup ({"queued"} \X (0..MaxNow))]
    BY <1>5 DEF Acknowledge
  <2>2. task' \in [EventThreads -> {NoWork} \cup (WorkSteps \X Messages)]
    BY <1>5 DEF Acknowledge, Stops
  <2> QED
    BY <1>5, <2>1, <2>2 DEF Acknowledge
<1> QED
  BY <1>1, <1>2, <1>3, <1>4, <1>5 DEF EventWork

LEMMA EventFitsNext ==
    ASSUME EventFits, EventNext, UNCHANGED now
    PROVE  EventFits'
<1>1. CASE \E m \in Messages : ServerSends(m)
  <2>1. PICK m \in Messages : ServerSends(m)
    BY <1>1
  <2>2. <<"queued", now>> \in {"queued"} \X (0..MaxNow)
    BY DEF EventFits
  <2> QED
    BY <2>1, <2>2 DEF ServerSends, EventFits
<1>2. CASE Lookups
  <2>1. PICK t \in EventThreads, m \in Messages : GetBufferedEvent(t, m)
    BY <1>2 DEF Lookups
  <2>2. <<AfterLookup(m), m>> \in WorkSteps \X Messages
    BY DEF AfterLookup, WorkSteps
  <2>3. cut' \subseteq Messages
    BY <2>1 DEF GetBufferedEvent, EventFits
  <2> QED
    BY <2>1, <2>2, <2>3, TaskStepFits DEF GetBufferedEvent, Steps, EventFits
<1>3. CASE \E t \in EventThreads : EventWork(t)
  BY <1>3, EventFitsWork
<1>4. CASE \E t \in EventThreads : CallFails(t)
  <2>1. PICK t \in EventThreads : CallFails(t)
    BY <1>4
  <2>2. faults' \in 0..MaxFaults
    BY <2>1, EventAssumption DEF CallFails, EventFits
  <2>3. cut' \subseteq Messages
    BY <2>1, TaskFits DEF CallFails, EventFits, WorkSteps
  <2> QED
    BY <2>1, <2>2, <2>3, TaskStepFits DEF CallFails, Stops, EventFits
<1>5. CASE EventsCrash
  <2>1. faults' \in 0..MaxFaults
    BY <1>5, EventAssumption DEF EventsCrash, EventFits
  <2> QED
    BY <1>5, <2>1 DEF EventsCrash, EventsRestart, EventFits
<1>6. CASE DeleteOldBufferedHashes
  BY <1>6 DEF DeleteOldBufferedHashes, EventFits
<1> QED
  BY <1>1, <1>2, <1>3, <1>4, <1>5, <1>6 DEF EventNext

LEMMA EventFitsInit == TablesInit => EventFits
BY MaxNowAssumption, EventAssumption DEF TablesInit, DeviceInit, EventInit, EventFits

LEMMA EventFitsStep == EventFits /\ [TablesNext]_tablesVars => EventFits'
<1> SUFFICES ASSUME EventFits, [TablesNext]_tablesVars PROVE EventFits'
  OBVIOUS
<1>1. CASE EventNext /\ UNCHANGED <<row, stores, now>>
  BY <1>1, EventFitsNext
<1>2. CASE DeleteRow /\ EventsCascade
  BY <1>2 DEF DeleteRow, EventsCascade, EventFits
<1>3. CASE PairRow /\ EventsRestart /\ UNCHANGED <<buffer, consumed, server, handled, faults>>
  BY <1>3 DEF PairRow, EventsRestart, EventFits
<1>4. CASE UNCHANGED eventVars /\ (UNCHANGED now \/ Tick)
  <2>1. now' \in 0..MaxNow
    BY <1>4, MaxNowAssumption DEF Tick, EventFits
  <2> QED
    BY <1>4, <2>1 DEF eventVars, EventFits
<1> QED
  BY <1>1, <1>2, <1>3, <1>4, StepsOfTables

=============================================================================
