-------------------------------- MODULE Bot --------------------------------
(***************************************************************************)
(* The life of the process (src/main.go), of Bot.run with its pairing and  *)
(* commands (src/session.go) and of the device it pairs: Device.Save and   *)
(* Delete (src/store/store.go), the table device and GetFirstDevice        *)
(* (src/store/sqlstore/container.go).                                      *)
(*                                                                         *)
(* External is what whatsmeow, WhatsApp's server and the phone do: they    *)
(* accept a pairing, log a device in or out and answer commands.  The keys *)
(* of a device are a number; whoever is linked with it is known to the     *)
(* server by account and keys.  Who gets the answers is Hub's subject.     *)
(***************************************************************************)
EXTENDS Naturals, FiniteSets

CONSTANTS
    Accounts,   \* WhatsApp accounts whose owners may pair
    None,       \* no row, no JID, no result, nothing under way
    MaxKeys     \* bound: devices that are created

Keys     == 1 .. MaxKeys
Commands == {"message", "get_status", "disconnect", "logout", "unknown"}

ASSUME BotAssumption ==
    /\ None \notin Accounts \cup Nat \cup Commands \cup {"delete", "ok", "error"}
    /\ None \notin Accounts \X Keys
    /\ MaxKeys \in Nat

VARIABLES
    proc,     \* off, or where Bot.run is
    byCode,   \* --pair: runPairCode instead of runQR
    ctx,      \* the context is cancelled: a signal came
    exit,     \* how the last process ended
    device,   \* the table device: the keys of each account
    dev,      \* the Device of the client
    paired,   \* the channel of runPairCode (of one place)
    qrChan,   \* the channel of runQR: open, closed
    conn,     \* the connection: down, lost, up, in (logged in)
    pairing,  \* whatsmeow has saved a new device and not yet confirmed it
    cmd,      \* the command in handleControl
    ack,      \* the ack given in the last step
    saving,   \* the row a Device.Save is about to write
    linked,   \* what the server knows: <<account, keys>>
    made,     \* devices created so far
    raced     \* history: a device was deleted while a Save was under way

control == <<cmd, ack>>
whats   == <<conn, pairing, saving>>
store   == <<device, dev, raced>>
main    == <<byCode, ctx, exit>>
vars == <<proc, main, store, paired, qrChan, whats, control, linked, made>>

NoDevice == [keys |-> 0, id |-> None, init |-> FALSE, deleted |-> FALSE]
Empty    == [a \in Accounts |-> None]
Running  == proc # "off"
Linked   == dev.id # None /\ <<dev.id, dev.keys>> \in linked

Init ==
    /\ proc = "off" /\ byCode = FALSE /\ ctx = FALSE /\ exit = "none"
    /\ device = Empty /\ dev = NoDevice
    /\ paired = None /\ qrChan = "closed"
    /\ conn = "down" /\ pairing = FALSE
    /\ cmd = None /\ ack = None /\ saving = None
    /\ linked = {} /\ made = 0 /\ raced = FALSE

-----------------------------------------------------------------------------
(* main: the start and the end of the process.                             *)

\* Mutant: the table is not looked at.
NewDeviceAlways ==
    /\ made < MaxKeys
    /\ made' = made + 1
    /\ dev' = [NoDevice EXCEPT !.keys = made + 1]

(* GetFirstDevice: a stored device, or a new one if there is none.         *)
NewDevice ==
    /\ device = Empty
    /\ made < MaxKeys
    /\ made' = made + 1
    /\ dev' = [NoDevice EXCEPT !.keys = made + 1]

StoredDevice ==
    /\ \E a \in Accounts :
          /\ device[a] # None
          /\ dev' = [keys |-> device[a], id |-> a, init |-> TRUE, deleted |-> FALSE]
    /\ UNCHANGED made

Start(code) ==
    /\ proc = "off"
    /\ NewDevice \/ StoredDevice
    /\ byCode' = code
    /\ proc' = "connect"
    /\ ctx' = FALSE /\ exit' = "none"
    /\ qrChan' = IF dev'.id = None /\ ~code THEN "open" ELSE "closed"
    /\ UNCHANGED <<device, raced, paired, whats, control, linked>>

(* Nothing in memory outlives the process.                                 *)
End(how) ==
    /\ proc' = "off" /\ exit' = how
    /\ dev' = NoDevice /\ raced' = FALSE
    /\ paired' = None /\ qrChan' = "closed"
    /\ conn' = "down" /\ pairing' = FALSE /\ saving' = None
    /\ cmd' = None /\ ack' = None
    /\ UNCHANGED <<byCode, ctx, device, linked, made>>

Kill == Running /\ End("killed")

(* run has returned nil: the deferred function closes the database.        *)
ReturnNil == End("closed")

(* run has returned an error: os.Exit runs no deferred function.           *)
ReturnError == End("exited")

(* The first SIGINT or SIGTERM.                                            *)
Signal ==
    /\ Running /\ ~ctx
    /\ ctx' = TRUE
    /\ ack' = None
    /\ UNCHANGED <<proc, byCode, exit, store, paired, qrChan, whats, cmd, linked, made>>

(* --logout: the files are removed, the server is not told.                *)
RemoveSession ==
    /\ proc = "off"
    /\ device' = Empty
    /\ UNCHANGED <<proc, main, dev, raced, paired, qrChan, whats, control, linked, made>>

-----------------------------------------------------------------------------
(* Bot.run.                                                                *)

(* Bot.run goes on at p.                                                   *)
GoTo(p) ==
    /\ proc' = p
    /\ UNCHANGED <<main, store, paired, qrChan, pairing, saving, control, linked, made>>

Connect ==
    /\ proc = "connect"
    /\ conn' = "up"
    /\ GoTo(IF dev.id # None THEN "loop" ELSE IF byCode THEN "phone" ELSE "qr")

ConnectFails == proc = "connect" /\ ReturnError

(* runPairCode: PairPhone, which a cancelled context lets fail.            *)
PairPhone      == proc = "phone" /\ conn = "up" /\ GoTo("code") /\ UNCHANGED conn
PairPhoneFails == proc = "phone" /\ ReturnError

\* Mutant: the error of a pairing is not returned.
PairedAny == proc = "code" /\ paired # None /\ GoTo("loop") /\ UNCHANGED conn

PairedWell  == proc = "code" /\ paired = "ok" /\ GoTo("loop") /\ UNCHANGED conn
PairedBadly == proc = "code" /\ paired = "error" /\ ReturnError
\* Mutant: select has no case for the context.
WaitForResult == proc = "code" /\ ctx /\ paired = "ok" /\ GoTo("loop") /\ UNCHANGED conn

WaitIsOver  == proc = "code" /\ ctx /\ GoTo("loop") /\ UNCHANGED conn

(* runQR returns nil when its channel is closed, whatever the reason.      *)
QRIsOver == proc = "qr" /\ qrChan = "closed" /\ GoTo("loop") /\ UNCHANGED conn

(* The context is cancelled; Control may be ready as well.                 *)
Done == proc = "loop" /\ ctx /\ ReturnNil

-----------------------------------------------------------------------------
(* Device.Save and Device.Delete.                                          *)

(* INSERT, ON CONFLICT DO UPDATE: a row that exists keeps its keys.        *)
PutDevice(a, k) == device' = [device EXCEPT ![a] = IF @ = None THEN k ELSE @]

\* Mutant: an error of DeleteDevice is taken for success.
DeleteAnyway ==
    /\ dev' = [dev EXCEPT !.id = None, !.deleted = TRUE]
    /\ UNCHANGED <<device, raced>>

(* DeleteDevice succeeds: no ID and no stores any more.                    *)
DeleteDevice ==
    /\ device' = [device EXCEPT ![dev.id] = None]
    /\ dev' = [dev EXCEPT !.id = None, !.deleted = TRUE]
    /\ raced' = (raced \/ saving # None)

DeleteFails == UNCHANGED store

(* whatsmeow saves the device when its name changes: Deleted and ID are    *)
(* read, and then the row is written, without a lock.                      *)
Save ==
    /\ Running
    /\ saving = None
    /\ conn = "in"
    /\ ~dev.deleted
    /\ saving' = <<dev.id, dev.keys>>
    /\ ack' = None
    /\ UNCHANGED <<proc, main, store, paired, qrChan, conn, pairing, cmd, linked, made>>

SaveEnds ==
    /\ saving # None
    /\ PutDevice(saving[1], saving[2]) \/ UNCHANGED device
    /\ saving' = None
    /\ ack' = None
    /\ UNCHANGED <<proc, main, dev, raced, paired, qrChan, conn, pairing, cmd, linked, made>>

-----------------------------------------------------------------------------
(* Pairing, as whatsmeow does it with the device (external).               *)

(* The event handlers: of runPairCode, and of the QR channel.              *)
Result(r) ==
    /\ paired' = IF byCode THEN r ELSE paired
    /\ qrChan' = "closed"
    /\ pairing' = FALSE

Pairable == proc \in {"code", "qr", "loop", "handling"} /\ conn = "up"
            /\ dev.id = None /\ ~dev.deleted

\* Mutant: whether the INSERT succeeded is not looked at.
PairSaveIgnored(a) ==
    /\ Pairable
    /\ dev' = [dev EXCEPT !.id = a, !.init = TRUE]
    /\ pairing' = TRUE
    /\ ack' = None
    /\ UNCHANGED <<proc, main, device, raced, paired, qrChan, conn, saving, cmd, linked, made>>

(* The phone has the code: the device gets its JID and is saved.           *)
PairSaves(a) ==
    /\ Pairable
    /\ PutDevice(a, dev.keys)
    /\ dev' = [dev EXCEPT !.id = a, !.init = TRUE]
    /\ pairing' = TRUE
    /\ ack' = None
    /\ UNCHANGED <<proc, main, raced, paired, qrChan, conn, saving, cmd, linked, made>>

(* Save fails: PutDevice has set the stores all the same.                  *)
PairSaveFails(a) ==
    /\ Pairable
    /\ dev' = [dev EXCEPT !.id = a, !.init = TRUE]
    /\ Result("error")
    /\ conn' = "down"
    /\ ack' = None
    /\ UNCHANGED <<proc, main, device, raced, saving, cmd, linked, made>>

PairRefused ==
    /\ Pairable
    /\ Result("error")
    /\ conn' = "down"
    /\ ack' = None
    /\ UNCHANGED <<proc, main, store, saving, cmd, linked, made>>

(* The confirmation is sent and may get lost; the server closes the        *)
(* connection for the new device to log in.                                *)
PairSucceeds ==
    /\ Running /\ pairing
    /\ linked' \in {linked, linked \cup {<<dev.id, dev.keys>>}}
    /\ Result("ok")
    /\ conn' = "lost"
    /\ ack' = None
    /\ UNCHANGED <<proc, main, store, saving, cmd, made>>

(* The confirmation cannot be sent: the device is deleted again.           *)
PairFails ==
    /\ Running /\ pairing
    /\ DeleteDevice \/ DeleteFails
    /\ Result("error")
    /\ conn' = "down"
    /\ ack' = None
    /\ UNCHANGED <<proc, main, saving, cmd, linked, made>>

(* No QR code was scanned in time, or the context is cancelled.            *)
QRTimeout ==
    /\ proc = "qr" /\ qrChan = "open" /\ ~pairing
    /\ qrChan' = "closed"
    /\ conn' = "down"
    /\ UNCHANGED <<proc, main, store, paired, pairing, saving, control, linked, made>>

-----------------------------------------------------------------------------
(* The connection (external).                                              *)

ConnChange(c) ==
    /\ conn' = c
    /\ ack' = None
    /\ UNCHANGED <<proc, main, paired, qrChan, pairing, saving, cmd, linked, made>>

LogIn == conn = "up" /\ Linked /\ ~pairing /\ ConnChange("in") /\ UNCHANGED store

\* In runQR a lost connection closes the channel: QRTimeout.
ConnectionLost == conn \in {"up", "in"} /\ ~pairing /\ proc # "qr"
                  /\ ConnChange("lost") /\ UNCHANGED store

Reconnect == conn = "lost" /\ dev.id # None /\ ConnChange("up") /\ UNCHANGED store

(* The server does not know the device (any more): whatsmeow deletes it.   *)
LoggedOut ==
    /\ conn \in {"up", "in"} /\ ~pairing
    /\ dev.id # None /\ ~Linked
    /\ ConnChange("down")
    /\ DeleteDevice \/ DeleteFails

(* The owner of the account removes a device from the list on the phone.   *)
Unlink ==
    /\ \E l \in linked : linked' = linked \ {l}
    /\ ack' = None
    /\ UNCHANGED <<proc, main, store, paired, qrChan, whats, cmd, made>>

-----------------------------------------------------------------------------
(* handleControl.                                                          *)

TakeControl(c) ==
    /\ proc = "loop"
    /\ proc' = "handling"
    /\ cmd' = c
    /\ ack' = None
    /\ UNCHANGED <<main, store, paired, qrChan, whats, linked, made>>

\* Mutant: the loop goes on while the command is still in hand.
AnswerEarly(c, ok) ==
    /\ proc = "handling"
    /\ cmd = c
    /\ proc' = "loop"
    /\ ack' = [cmd |-> c, ok |-> ok]
    /\ UNCHANGED <<main, paired, qrChan, pairing, saving, cmd, made>>

(* An ack is broadcast, and the loop goes on.                              *)
Answer(c, ok) ==
    /\ proc = "handling"
    /\ cmd = c
    /\ proc' = "loop"
    /\ cmd' = None
    /\ ack' = [cmd |-> c, ok |-> ok]
    /\ UNCHANGED <<main, paired, qrChan, pairing, saving, made>>

\* Mutant: the error is not looked at.
CommandFailsAcked ==
    /\ \E c \in {"message", "logout", "unknown"} : Answer(c, TRUE)
    /\ UNCHANGED <<store, conn, linked>>

(* A payload or JID is invalid, SendMessage or Logout fails, or the kind   *)
(* is unknown.                                                             *)
CommandFails ==
    /\ \E c \in {"message", "logout", "unknown"} : Answer(c, FALSE)
    /\ UNCHANGED <<store, conn, linked>>

(* send_message, send_reaction, edit_message and revoke_message.           *)
SendMessage ==
    /\ conn = "in"
    /\ Answer("message", TRUE)
    /\ UNCHANGED <<store, conn, linked>>

GetStatus ==
    /\ Answer("get_status", TRUE)
    /\ UNCHANGED <<store, conn, linked>>

\* Mutant: the device is deleted as well, as by logout.
DisconnectDeletes ==
    /\ Answer("disconnect", TRUE)
    /\ conn' = "down"
    /\ (dev.id # None /\ DeleteDevice) \/ (dev.id = None /\ UNCHANGED store)
    /\ UNCHANGED linked

Disconnect ==
    /\ Answer("disconnect", TRUE)
    /\ conn' = "down"
    /\ UNCHANGED <<store, linked>>

(* Logout: the server removes the device, the connection is closed, ...    *)
LogoutUnlinks ==
    /\ proc = "handling" /\ cmd = "logout"
    /\ conn = "in"
    /\ linked' = linked \ {<<dev.id, dev.keys>>}
    /\ conn' = "down"
    /\ cmd' = "delete"
    /\ UNCHANGED <<proc, main, store, paired, qrChan, pairing, saving, ack, made>>

(* ... and the device is deleted here.                                     *)
LogoutEnds ==
    /\ \/ Answer("delete", TRUE) /\ DeleteDevice
       \/ Answer("delete", FALSE) /\ DeleteFails
    /\ UNCHANGED <<conn, linked>>

-----------------------------------------------------------------------------
Handle == \/ CommandFails \/ SendMessage \/ GetStatus \/ Disconnect
          \/ LogoutUnlinks \/ LogoutEnds

Run == \/ Connect \/ ConnectFails \/ PairPhone \/ PairPhoneFails
       \/ PairedWell \/ PairedBadly \/ WaitIsOver \/ QRIsOver
       \/ Handle

Whatsmeow ==
    \/ \E a \in Accounts : PairSaves(a) \/ PairSaveFails(a)
    \/ PairRefused \/ PairSucceeds \/ PairFails \/ QRTimeout
    \/ LogIn \/ ConnectionLost \/ Reconnect \/ LoggedOut \/ Unlink
    \/ Save \/ SaveEnds

Next ==
    \/ \E code \in BOOLEAN : Start(code)
    \/ Kill \/ Signal \/ RemoveSession
    \/ Run \/ Done \/ \E c \in Commands : TakeControl(c)
    \/ Whatsmeow

Spec == Init /\ [][Next]_vars

(* The goroutine of run goes on, calls of whatsmeow return, select takes   *)
(* ctx.Done in the end, though Control may always be ready too, and the QR *)
(* channel is closed when the context is.  Nobody has to scan a code, and  *)
(* no connection has to come up.                                           *)
FairSpec == /\ Spec
            /\ WF_vars(Run)
            /\ SF_vars(Done)
            /\ WF_vars(ctx /\ QRTimeout)
            /\ WF_vars(PairSucceeds \/ PairFails)

-----------------------------------------------------------------------------
(* Every variable has a value of its type.                                 *)
TypeOK ==
    /\ proc \in {"off", "connect", "phone", "code", "qr", "loop", "handling"}
    /\ byCode \in BOOLEAN /\ ctx \in BOOLEAN
    /\ exit \in {"none", "closed", "exited", "killed"}
    /\ device \in [Accounts -> Keys \cup {None}]
    /\ dev \in [keys : Keys \cup {0}, id : Accounts \cup {None},
               init : BOOLEAN, deleted : BOOLEAN]
    /\ paired \in {None, "ok", "error"}
    /\ qrChan \in {"open", "closed"}
    /\ conn \in {"down", "lost", "up", "in"}
    /\ pairing \in BOOLEAN /\ raced \in BOOLEAN
    /\ cmd \in Commands \cup {"delete", None}
    /\ cmd # None <=> proc = "handling"
    /\ ack = None \/ ack \in [cmd : Commands \cup {"delete"}, ok : BOOLEAN]
    /\ saving = None \/ saving \in Accounts \X Keys
    /\ linked \subseteq Accounts \X Keys
    /\ made \in Keys \cup {0}

-----------------------------------------------------------------------------
(* Safety.                                                                 *)

(* The table never has two devices, over restarts and pairings with other  *)
(* accounts, although main only ever uses the first one (GetFirstDevice).  *)
OneDevice == \A a, b \in Accounts : device[a] # None /\ device[b] # None => a = b

(* Types, and the one device main relies on.                               *)
DeviceInv == TypeOK /\ OneDevice

(* A device that is logged in is stored with the keys it is logged in      *)
(* with, so that a restart finds it: neither a failed Save nor the row of  *)
(* an earlier pairing, whose keys PutDevice keeps, comes in between.       *)
LoggedInMeansStored == conn = "in" => dev.init /\ device[dev.id] = dev.keys

(* After Device.Delete, by logout or whatsmeow, there is no row: except if *)
(* a Save of another goroutine, which looked at Deleted before, brings it  *)
(* back (Save and Delete share no lock).                                   *)
DeletedIsGone == dev.deleted => device = Empty \/ raced

(* With a pair code the control loop is only reached with a device that is *)
(* stored, or was and has been deleted since; or the context is cancelled. *)
(* (runQR makes no such promise: its channel closes on a timeout as well.) *)
LoopMeansPaired ==
    proc \in {"loop", "handling"} /\ byCode =>
        \/ dev.id # None /\ device[dev.id] = dev.keys
        \/ dev.deleted
        \/ ctx

(* A logout is acknowledged only when the server has removed the device    *)
(* and no row is left here (handleControl), with the exception above.      *)
AckedLogoutIsComplete ==
    [][ack' # None /\ ack'.ok /\ ack'.cmd \in {"logout", "delete"} =>
          /\ <<dev.id, dev.keys>> \notin linked'
          /\ device' = Empty \/ raced']_vars

(* What the owner may notice of a device: its row, what the server has,    *)
(* whether it is logged in, and what a Save will write.  Keys are known    *)
(* once their device cannot be paired any more.                            *)
Unpaired      == Running /\ dev.id = None /\ ~dev.deleted
KnownKeys     == 1 .. (IF Unpaired THEN made - 1 ELSE made)
StoredDevices == {d \in Accounts \X Keys : device[d[1]] = d[2]}
LoggedIn      == IF conn = "in" THEN {<<dev.id, dev.keys>>} ELSE {}
LateSave      == IF saving = None THEN {} ELSE {saving}

Promise == INSTANCE Companion WITH
              Device <- Accounts \X Keys, running <- Running, stored <- StoredDevices,
              known <- KnownKeys, online <- LoggedIn, late <- LateSave

(* The steps of main, pairing, whatsmeow, commands and a logout implement  *)
(* Companion: the server links what is stored, under keys of its own, and  *)
(* while the process runs its row is only given up when the server does    *)
(* not have the device any more, whatever fails or crashes in between.     *)
ImplementsCompanion == Promise!Spec

(* A process that ends after a signal, unless it is killed, closes the     *)
(* database ("just cancel; let runSession and defer close the db cleanly", *)
(* main.go:54).                                                            *)
SignalClosesDatabase ==
    proc = "off" /\ ctx /\ exit # "killed" => exit = "closed"

-----------------------------------------------------------------------------
(* Liveness.                                                               *)

(* A signal ends the process, wherever run is and however many commands    *)
(* keep coming.                                                            *)
SignalEndsProcess == (Running /\ ctx) ~> ~Running
=============================================================================
