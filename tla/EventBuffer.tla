----------------------------- MODULE EventBuffer -----------------------------
(***************************************************************************)
(* The table event_buffer: an encrypted message can be decrypted once, so  *)
(* its plaintext is stored in the transaction that decrypts it, until it   *)
(* has been handled.  The server delivers a message again until it is      *)
(* acknowledged.  Who uses the buffer is whatsmeow (external): look the    *)
(* message up, decrypt or take the plaintext, handle, clear, acknowledge;  *)
(* whatever fails is left to the next delivery.  The methods of NoopStore  *)
(* succeed and do nothing, as SQLStore's do when there are no rows: when   *)
(* the stores are replaced the rows are gone, so neither needs a guard.    *)
(***************************************************************************)
EXTENDS DeviceRow, FiniteSets

CONSTANTS
    Messages,       \* ciphertexts (their hashes)
    EventThreads,   \* goroutines that handle messages
    EventKeep,      \* how long server and buffer keep an event (14 days)
    MaxFaults       \* bound on failing statements and crashes

ASSUME EventAssumption == EventKeep \in Nat /\ MaxFaults \in Nat

VARIABLES
    buffer,     \* event_buffer: records [msg, text, inserted]
    consumed,   \* messages whose keys the stored Signal session has used
    server,     \* what it does with each message, and since when it queues it
    task,       \* what each goroutine does next, and with which message
    handled,    \* history: how often a message was handled, two for more
    cut,        \* history: messages of which two goroutines had the plaintext,
                \* or whose handling ended between HandleEvent and the clearing
    faults

eventVars == <<buffer, consumed, server, task, handled, cut, faults>>

NoWork == <<"idle", "">>

Unsent    == <<"unsent", 0>>
Acked     == <<"acked", 0>>
Gone      == <<"gone", 0>>
Queued(m) == server[m][1] = "queued"

EventInit ==
    /\ buffer = {} /\ consumed = {} /\ cut = {} /\ faults = 0
    /\ server = [m \in Messages |-> Unsent]
    /\ handled = [m \in Messages |-> 0]
    /\ task = [t \in EventThreads |-> NoWork]

RowsOf(m)    == {b \in buffer : b.msg = m}
Delivered(m) == Queued(m) /\ now <= server[m][2] + EventKeep

Steps(t, step, m) == task' = [task EXCEPT ![t] = <<step, m>>]
Stops(t)          == task' = [task EXCEPT ![t] = NoWork]
Doing(t, step)    == task[t][1] = step
Handling(m)       == {t \in EventThreads : task[t] \in {<<"handle", m>>, <<"clear", m>>}}

-----------------------------------------------------------------------------
ServerSends(m) ==
    /\ server[m] = Unsent /\ row
    /\ server' = [server EXCEPT ![m] = <<"queued", now>>]
    /\ UNCHANGED <<buffer, consumed, task, handled, cut, faults>>

(* What a lookup makes of the rows: none, one with plaintext, one with NULL. *)
AfterLookup(m) ==
    IF RowsOf(m) = {} THEN "decrypt"
    ELSE IF \E b \in RowsOf(m) : b.text THEN "handle"
    ELSE "ack"

\* Mutant: sql.ErrNoRows is returned as an error.
GetBufferedEventStrict(t, m) ==
    /\ task[t] = NoWork /\ Delivered(m)
    /\ RowsOf(m) # {}
    /\ Steps(t, AfterLookup(m), m)
    /\ cut' = IF AfterLookup(m) = "handle" /\ Handling(m) # {} THEN cut \cup {m} ELSE cut
    /\ UNCHANGED <<buffer, consumed, server, handled, faults>>

GetBufferedEvent(t, m) ==
    /\ task[t] = NoWork /\ Delivered(m)
    /\ Steps(t, AfterLookup(m), m)
    /\ cut' = IF AfterLookup(m) = "handle" /\ Handling(m) # {} THEN cut \cup {m} ELSE cut
    /\ UNCHANGED <<buffer, consumed, server, handled, faults>>

(* The session can decrypt m and PutBufferedEvent, an INSERT without       *)
(* ON CONFLICT, finds neither a row nor the device missing.                *)
Decryptable(m) == m \notin consumed /\ RowsOf(m) = {} /\ Insertable

\* Mutant: session and plaintext are not stored in one transaction.
DecryptionUnbuffered(t) ==
    LET m == task[t][2]
    IN  /\ Doing(t, "decrypt") /\ Decryptable(m)
        /\ consumed' = consumed \cup {m}
        /\ \/ /\ buffer' = buffer \cup {[msg |-> m, text |-> TRUE, inserted |-> now]}
              /\ Steps(t, "handle", m)
           \/ UNCHANGED buffer /\ Stops(t)
        /\ UNCHANGED <<server, handled, cut, faults>>

(* DoDecryptionTxn: the session moves on and the plaintext is stored.      *)
DecryptionCommits(t) ==
    LET m == task[t][2]
    IN  /\ Doing(t, "decrypt") /\ Decryptable(m)
        /\ consumed' = consumed \cup {m}
        /\ buffer' = buffer \cup {[msg |-> m, text |-> TRUE, inserted |-> now]}
        /\ Steps(t, "handle", m)
        /\ UNCHANGED <<server, handled, cut, faults>>

(* Another goroutine was faster, or the device is gone: rolled back, or    *)
(* with the Noop store never begun, which has no session to decrypt with.  *)
DecryptionFails(t) ==
    /\ Doing(t, "decrypt") /\ ~Decryptable(task[t][2])
    /\ Stops(t)
    /\ UNCHANGED <<buffer, consumed, server, handled, cut, faults>>

HandleEvent(t) ==
    LET m == task[t][2]
    IN  /\ Doing(t, "handle")
        /\ handled' = [handled EXCEPT ![m] = IF @ = 0 THEN 1 ELSE 2]
        /\ Steps(t, "clear", m)
        /\ UNCHANGED <<buffer, consumed, server, cut, faults>>

\* Mutant: the UPDATE changes nothing.
ClearsNothing(t) ==
    /\ Doing(t, "clear")
    /\ Steps(t, "ack", task[t][2])
    /\ UNCHANGED <<buffer, consumed, server, handled, cut, faults>>

ClearBufferedEventPlaintext(t) ==
    LET m == task[t][2]
    IN  /\ Doing(t, "clear")
        /\ buffer' = {IF b.msg = m THEN [b EXCEPT !.text = FALSE] ELSE b : b \in buffer}
        /\ Steps(t, "ack", m)
        /\ UNCHANGED <<consumed, server, handled, cut, faults>>

Acknowledge(t) ==
    LET m == task[t][2]
    IN  /\ Doing(t, "ack")
        /\ server' = [server EXCEPT ![m] = IF Queued(m) THEN Acked ELSE @]
        /\ Stops(t)
        /\ UNCHANGED <<buffer, consumed, handled, cut, faults>>

(* A statement fails, or the acknowledgement is not sent.                  *)
CallFails(t) ==
    /\ faults < MaxFaults /\ faults' = faults + 1
    /\ task[t][1] \in {"decrypt", "clear", "ack"}
    /\ cut' = IF Doing(t, "clear") THEN cut \cup {task[t][2]} ELSE cut
    /\ Stops(t)
    /\ UNCHANGED <<buffer, consumed, server, handled>>

(* The process ends and is started again.                                  *)
EventsRestart ==
    /\ task' = [t \in EventThreads |-> NoWork]
    /\ cut' = cut \cup {m \in Messages : \E t \in EventThreads : task[t] = <<"clear", m>>}

EventsCrash ==
    /\ faults < MaxFaults /\ faults' = faults + 1
    /\ EventsRestart
    /\ UNCHANGED <<buffer, consumed, server, handled>>

\* Mutant: one unit too early.
Overdue(b) == b.inserted + EventKeep <= now

Old(b) == b.inserted + EventKeep < now

DeleteOldBufferedHashes ==
    /\ buffer' = {b \in buffer : ~Old(b)}
    /\ UNCHANGED <<consumed, server, task, handled, cut, faults>>

(* The rows go with the device, and the server forgets its messages.       *)
EventsCascade ==
    /\ buffer' = {} /\ consumed' = {}
    /\ server' = [m \in Messages |-> IF Queued(m) THEN Gone ELSE server[m]]
    /\ UNCHANGED <<task, handled, cut, faults>>

EventWork(t) == \/ DecryptionCommits(t) \/ DecryptionFails(t) \/ HandleEvent(t)
                \/ ClearBufferedEventPlaintext(t) \/ Acknowledge(t)

Lookups == \E t \in EventThreads, m \in Messages : GetBufferedEvent(t, m)

EventNext ==
    \/ \E m \in Messages : ServerSends(m)
    \/ Lookups
    \/ \E t \in EventThreads : EventWork(t) \/ CallFails(t)
    \/ EventsCrash
    \/ DeleteOldBufferedHashes

EventTypeOK ==
    /\ buffer \subseteq [msg : Messages, text : BOOLEAN, inserted : 0..MaxNow]
    /\ \A m \in Messages : Cardinality(RowsOf(m)) <= 1
    /\ consumed \subseteq Messages /\ cut \subseteq Messages
    /\ server \in [Messages -> {Unsent, Acked, Gone} \cup ({"queued"} \X (0..MaxNow))]
    /\ task \in [EventThreads -> {NoWork} \cup
                     ({"decrypt", "handle", "clear", "ack"} \X Messages)]
    /\ handled \in [Messages -> 0..2]
    /\ faults \in 0..MaxFaults

-----------------------------------------------------------------------------
(* A message that the session cannot decrypt again and the server may      *)
(* still deliver is in the buffer, with its plaintext until it is handled, *)
(* through crashes, failures and the deletion of old rows; and only what   *)
(* was handled is acknowledged.                                            *)
NoEventIsLost ==
    \A m \in Messages :
        /\ m \in consumed /\ Delivered(m) =>
              \E b \in RowsOf(m) : b.text \/ handled[m] > 0
        /\ server[m] = Acked => handled[m] > 0

(* However often it is delivered, a message is handled again only if its   *)
(* handling was cut off before ClearBufferedEventPlaintext, or if two      *)
(* goroutines had it at the same time (GetBufferedEvent takes no lock).    *)
HandledOnce == \A m \in Messages : handled[m] > 1 => m \in cut

(* A message the server keeps delivering is handled in the end.            *)
EventsAreHandled ==
    \A m \in Messages : Delivered(m) ~> handled[m] > 0 \/ ~Delivered(m)
=============================================================================
