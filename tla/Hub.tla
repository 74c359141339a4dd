-------------------------------- MODULE Hub --------------------------------
(***************************************************************************)
(* The WebSocket hub (src/ws.go) with the goroutines that meet in it: one  *)
(* reader and one writer per client, the bot's control loop (run, in       *)
(* src/session.go) and the goroutines in which whatsmeow delivers its      *)
(* events (handleWAEvent).                                                 *)
(*                                                                         *)
(* Every event carries the goroutine that made it and that goroutine's     *)
(* running number; what the event says is abstracted.  The answer to a     *)
(* control message is the bot's ack, or the reader's "server busy".        *)
(***************************************************************************)
EXTENDS Naturals, Sequences

CONSTANTS
    Clients,      \* WebSocket connections
    Sources,      \* goroutines that deliver whatsmeow events
    Bot,          \* the goroutine of Bot.run
    None,         \* no control message, no broadcast
    SendCap,      \* capacity of wsClient.send  (64 in the code)
    ControlCap,   \* capacity of Hub.Control    (64 in the code)
    MaxControls,  \* bound: control messages per client
    MaxEvents,    \* bound: events per whatsmeow goroutine
    MaxCodes      \* bound: QR or pair codes shown while pairing

Casters == Sources \cup {Bot}

ASSUME HubAssumption ==
    /\ Sources \cap Clients = {} /\ Bot \notin Sources \cup Clients
    /\ None \notin Clients \X Nat
    /\ SendCap \in Nat \ {0} /\ ControlCap \in Nat \ {0}
    /\ MaxControls \in Nat /\ MaxEvents \in Nat /\ MaxCodes \in Nat

VARIABLES
    phase,      \* of the process: pairing, running, stopped or crashed
    clients,    \* Hub.clients
    Control,    \* Hub.Control
    inHand,     \* the control message handleControl works on
    answers,    \* history: what the bot's n-th event answers
    bcast,      \* what each caster still has to offer, and to whom
    count,      \* events made so far by each caster
    peer,       \* the connection: up or down
    reader,     \* the handler of a connection: off, reading, leaving, done
    cancelled,  \* its context is cancelled
    sent,       \* control messages read from a connection
    send,       \* wsClient.send
    closed,     \* wsClient.send is closed
    writer,     \* the writer goroutine and the event it is writing
    out         \* history: events written to a connection

botVars    == <<Control, inHand, answers>>
castVars   == <<bcast, count>>
connVars   == <<peer, reader, cancelled, sent, writer, out>>
vars == <<phase, clients, botVars, castVars, connVars, send, closed>>

At(s)       == [at |-> s]
Event(s, n) == [src |-> s, n |-> n]
ControlId   == Clients \X (1 .. MaxControls)
Alive       == phase \in {"pairing", "running"}

Init ==
    /\ phase \in {"pairing", "running"}     \* Store.ID is nil, or is not
    /\ clients = {}
    /\ Control = <<>> /\ inHand = None /\ answers = <<>>
    /\ bcast = [s \in Casters |-> None]
    /\ count = [s \in Casters |-> 0]
    /\ peer = [c \in Clients |-> "up"]
    /\ reader = [c \in Clients |-> "off"]
    /\ cancelled = [c \in Clients |-> FALSE]
    /\ sent = [c \in Clients |-> 0]
    /\ send = [c \in Clients |-> <<>>]
    /\ closed = [c \in Clients |-> FALSE]
    /\ writer = [c \in Clients |-> At("off")]
    /\ out = [c \in Clients |-> <<>>]

-----------------------------------------------------------------------------
(* Broadcast: a snapshot under RLock, then one non-blocking send per       *)
(* client, in the order of a map iteration, without the lock.              *)

Publish(s) ==
    /\ bcast[s] = None
    /\ count' = [count EXCEPT ![s] = @ + 1]
    /\ bcast' = IF clients = {} THEN bcast
                ELSE [bcast EXCEPT ![s] =
                         [evt |-> Event(s, count[s] + 1), todo |-> clients]]

\* Mutant: the capacity of the channel is not looked at.
OfferedAlways(q, evt) == Append(q, evt)

(* c.send <- evt with a default: a full buffer drops the event.            *)
Offered(q, evt) == IF Len(q) < SendCap THEN Append(q, evt) ELSE q

\* Mutant: no default, so that a full channel blocks the broadcast.
OfferBlocking(s, c) ==
    /\ bcast[s] # None
    /\ c \in bcast[s].todo
    /\ ~closed[c]
    /\ Len(send[c]) < SendCap
    /\ send' = [send EXCEPT ![c] = Offered(@, bcast[s].evt)]
    /\ bcast' = [bcast EXCEPT ![s] =
                    IF @.todo = {c} THEN None ELSE [evt |-> @.evt, todo |-> @.todo \ {c}]]
    /\ UNCHANGED <<phase, clients, botVars, count, connVars, closed>>

Offer(s, c) ==
    /\ bcast[s] # None
    /\ c \in bcast[s].todo
    /\ ~closed[c]
    /\ send' = [send EXCEPT ![c] = Offered(@, bcast[s].evt)]
    /\ bcast' = [bcast EXCEPT ![s] =
                    IF @.todo = {c} THEN None ELSE [evt |-> @.evt, todo |-> @.todo \ {c}]]
    /\ UNCHANGED <<phase, clients, botVars, count, connVars, closed>>

(* A send on a closed channel panics, default or not.  It ends the process *)
(* in Bot.run; whatsmeow may recover a panicking event handler.            *)
OfferPanics(s, c) ==
    /\ bcast[s] # None
    /\ c \in bcast[s].todo
    /\ closed[c]
    /\ \/ phase' = "crashed"
       \/ s \in Sources /\ UNCHANGED phase
    /\ bcast' = [bcast EXCEPT ![s] = None]
    /\ UNCHANGED <<clients, botVars, count, connVars, send, closed>>

(* handleWAEvent: one broadcast per event that is reported.                *)
WAEvent(s) ==
    /\ count[s] < MaxEvents
    /\ Publish(s)
    /\ UNCHANGED <<phase, clients, botVars, connVars, send, closed>>

-----------------------------------------------------------------------------
(* Bot.run.                                                                *)

BotAtSelect == inHand = None /\ bcast[Bot] = None

(* runPairCode and runQR broadcast the codes; Control is not read.         *)
ShowCode ==
    /\ phase = "pairing"
    /\ count[Bot] < MaxCodes
    /\ Publish(Bot)
    /\ answers' = Append(answers, None)
    /\ UNCHANGED <<phase, clients, Control, inHand, connVars, send, closed>>

PairingEnds ==
    /\ phase = "pairing"
    /\ bcast[Bot] = None
    /\ phase' \in {"running", "stopped"}    \* an error exits the process
    /\ UNCHANGED <<clients, botVars, castVars, connVars, send, closed>>

TakeControl ==
    /\ phase = "running"
    /\ BotAtSelect
    /\ Control # <<>>
    /\ inHand' = Head(Control)
    /\ Control' = Tail(Control)
    /\ UNCHANGED <<phase, clients, answers, castVars, connVars, send, closed>>

(* handleControl returns an ack, a failure or a status: one event.         *)
AnswerControl ==
    /\ phase = "running"
    /\ inHand # None
    /\ Publish(Bot)
    /\ answers' = Append(answers, inHand)
    /\ inHand' = None
    /\ UNCHANGED <<phase, clients, Control, connVars, send, closed>>

(* SIGINT or SIGTERM has cancelled the context, and select takes that case *)
(* though Control may be ready as well: what is left in it is lost.        *)
BotStops ==
    /\ phase = "running"
    /\ BotAtSelect
    /\ phase' = "stopped"
    /\ UNCHANGED <<clients, botVars, castVars, connVars, send, closed>>

-----------------------------------------------------------------------------
(* The handler of a connection: registration, reader loop, deferred exit.  *)

Connect(c) ==
    /\ reader[c] = "off"
    /\ clients' = clients \cup {c}
    /\ reader' = [reader EXCEPT ![c] = "reading"]
    /\ writer' = [writer EXCEPT ![c] = At("idle")]
    /\ UNCHANGED <<phase, botVars, castVars, peer, cancelled, sent, out, send, closed>>

\* Mutant: the reader acknowledges what it passes on.
ReceiveOptimistic(c) ==
    /\ reader[c] = "reading"
    /\ peer[c] = "up"
    /\ sent[c] < MaxControls
    /\ sent' = [sent EXCEPT ![c] = @ + 1]
    /\ IF Len(Control) < ControlCap
       THEN Control' = Append(Control, <<c, sent[c] + 1>>) ELSE UNCHANGED Control
    /\ send' = [send EXCEPT ![c] = Offered(@, Event(c, sent[c] + 1))]
    /\ UNCHANGED <<phase, clients, inHand, answers, castVars, peer, reader,
                   cancelled, writer, out, closed>>

Receive(c) ==
    /\ reader[c] = "reading"
    /\ peer[c] = "up"
    /\ sent[c] < MaxControls
    /\ sent' = [sent EXCEPT ![c] = @ + 1]
    /\ IF Len(Control) < ControlCap
       THEN /\ Control' = Append(Control, <<c, sent[c] + 1>>)
            /\ UNCHANGED send
       ELSE /\ send' = [send EXCEPT ![c] = Offered(@, Event(c, sent[c] + 1))]
            /\ UNCHANGED Control
    /\ UNCHANGED <<phase, clients, inHand, answers, castVars, peer, reader,
                   cancelled, writer, out, closed>>

(* Read fails, the loop ends, the deferred function cancels the context.   *)
ReadFails(c) ==
    /\ reader[c] = "reading"
    /\ peer[c] = "down" \/ cancelled[c]
    /\ reader' = [reader EXCEPT ![c] = "leaving"]
    /\ cancelled' = [cancelled EXCEPT ![c] = TRUE]
    /\ UNCHANGED <<phase, clients, botVars, castVars, peer, sent, writer,
                   out, send, closed>>

\* Mutant: the channel is not closed.
UnregisterOpen(c) ==
    /\ reader[c] = "leaving"
    /\ clients' = clients \ {c}
    /\ reader' = [reader EXCEPT ![c] = "done"]
    /\ UNCHANGED <<phase, botVars, castVars, peer, cancelled, sent, writer,
                   out, send, closed>>

\* Mutant: the client stays in the map.
UnregisterKeeps(c) ==
    /\ reader[c] = "leaving"
    /\ closed' = [closed EXCEPT ![c] = TRUE]
    /\ reader' = [reader EXCEPT ![c] = "done"]
    /\ UNCHANGED <<phase, clients, botVars, castVars, peer, cancelled, sent,
                   writer, out, send>>

Unregister(c) ==
    /\ reader[c] = "leaving"
    /\ IF c \in clients
       THEN clients' = clients \ {c} /\ closed' = [closed EXCEPT ![c] = TRUE]
       ELSE UNCHANGED <<clients, closed>>
    /\ reader' = [reader EXCEPT ![c] = "done"]
    /\ UNCHANGED <<phase, botVars, castVars, peer, cancelled, sent, writer,
                   out, send>>

-----------------------------------------------------------------------------
(* The writer goroutine of a connection.                                   *)

\* Mutant: the event stays in the channel until it is written.
WriterPeeks(c) ==
    /\ writer[c].at = "idle"
    /\ send[c] # <<>>
    /\ writer' = [writer EXCEPT ![c] = [at |-> "write", evt |-> Head(send[c])]]
    /\ UNCHANGED <<phase, clients, botVars, castVars, peer, reader,
                   cancelled, sent, out, send, closed>>

WriterTakes(c) ==
    /\ writer[c].at = "idle"
    /\ send[c] # <<>>
    /\ writer' = [writer EXCEPT ![c] = [at |-> "write", evt |-> Head(send[c])]]
    /\ send' = [send EXCEPT ![c] = Tail(@)]
    /\ UNCHANGED <<phase, clients, botVars, castVars, peer, reader,
                   cancelled, sent, out, closed>>

WriterSucceeds(c) ==
    /\ writer[c].at = "write"
    /\ peer[c] = "up"
    /\ reader[c] # "done"
    /\ out' = [out EXCEPT ![c] = Append(@, writer[c].evt)]
    /\ writer' = [writer EXCEPT ![c] = At("idle")]
    /\ UNCHANGED <<phase, clients, botVars, castVars, peer, reader,
                   cancelled, sent, send, closed>>

(* Ping or Write fails, and the writer cancels the context they share.  (A *)
(* ping that succeeds changes nothing, one that waits is a writer that     *)
(* does not go on.)                                                        *)
WriterFails(c) ==
    /\ writer[c].at \in {"idle", "write"}
    /\ peer[c] = "down" \/ cancelled[c] \/ reader[c] = "done"
    /\ writer' = [writer EXCEPT ![c] = At("done")]
    /\ cancelled' = [cancelled EXCEPT ![c] = TRUE]
    /\ UNCHANGED <<phase, clients, botVars, castVars, peer, reader, sent,
                   out, send, closed>>

(* ctx.Done, or the channel is closed and drained.                         *)
WriterStops(c) ==
    /\ writer[c].at = "idle"
    /\ cancelled[c] \/ (closed[c] /\ send[c] = <<>>)
    /\ writer' = [writer EXCEPT ![c] = At("done")]
    /\ UNCHANGED <<phase, clients, botVars, castVars, peer, reader,
                   cancelled, sent, out, send, closed>>

-----------------------------------------------------------------------------
(* The connection breaks.                                                  *)
PeerBreaks(c) ==
    /\ reader[c] \notin {"off", "done"}
    /\ peer[c] = "up"
    /\ peer' = [peer EXCEPT ![c] = "down"]
    /\ UNCHANGED <<phase, clients, botVars, castVars, reader, cancelled,
                   sent, writer, out, send, closed>>

-----------------------------------------------------------------------------
CastStep(s)  == \E c \in Clients : Offer(s, c) \/ OfferPanics(s, c)
BotStep      == TakeControl \/ AnswerControl
LeaveStep(c)  == ReadFails(c) \/ Unregister(c)
WriteStep(c) == WriterTakes(c) \/ WriterFails(c) \/ WriterStops(c)

Next ==
    /\ Alive
    /\ \/ \E s \in Sources : WAEvent(s)
       \/ \E s \in Casters : CastStep(s)
       \/ ShowCode \/ PairingEnds \/ BotStep \/ BotStops
       \/ \E c \in Clients :
             \/ Connect(c) \/ Receive(c) \/ LeaveStep(c)
             \/ WriteStep(c) \/ WriterSucceeds(c) \/ PeerBreaks(c)

Spec == Init /\ [][Next]_vars

(* Goroutines that can run do run, a failed Read or Write returns, and     *)
(* handleControl returns.  Nothing makes a peer accept what is written to  *)
(* it (WriterSucceeds), whatsmeow deliver events or pairing end.           *)
FairSpec ==
    /\ Spec
    /\ \A s \in Casters : WF_vars(Alive /\ CastStep(s))
    /\ WF_vars(Alive /\ BotStep)
    /\ \A c \in Clients : /\ WF_vars(Alive /\ LeaveStep(c))
                          /\ WF_vars(Alive /\ WriteStep(c))

-----------------------------------------------------------------------------
(* Types.                                                                  *)

Events ==
    [src : Clients, n : 1 .. MaxControls]
    \cup [src : Sources, n : 1 .. MaxEvents]
    \cup [src : {Bot}, n : 1 .. Len(answers)]

(* Every variable has a value of its type, and no channel exceeds its      *)
(* capacity.                                                               *)
TypeOK ==
    /\ phase \in {"pairing", "running", "stopped", "crashed"}
    /\ clients \subseteq Clients
    /\ Control \in Seq(ControlId) /\ Len(Control) <= ControlCap
    /\ inHand \in ControlId \cup {None}
    /\ answers \in Seq(ControlId \cup {None})
    /\ \A s \in Casters :
          /\ count[s] \in Nat
          /\ bcast[s] # None => /\ bcast[s].evt = Event(s, count[s])
                                /\ bcast[s].todo \in (SUBSET Clients) \ {{}}
    /\ peer \in [Clients -> {"up", "down"}]
    /\ reader \in [Clients -> {"off", "reading", "leaving", "done"}]
    /\ cancelled \in [Clients -> BOOLEAN]
    /\ sent \in [Clients -> 0 .. MaxControls]
    /\ closed \in [Clients -> BOOLEAN]
    /\ \A c \in Clients :
          /\ send[c] \in Seq(Events) /\ Len(send[c]) <= SendCap
          /\ writer[c] \in [at : {"off", "idle", "done"}]
                           \cup [at : {"write"}, evt : Events]
          /\ out[c] \in Seq(Events)

-----------------------------------------------------------------------------
(* Safety.                                                                 *)

(* A channel is closed exactly for the connections that were registered    *)
(* and are no longer: a caster meets a closed channel only if the client   *)
(* left after its snapshot (deferred function of ServeWS).                 *)
ClosedMeansGone ==
    \A c \in Clients :
        /\ closed[c] <=> reader[c] = "done"
        /\ c \in clients <=> reader[c] \in {"reading", "leaving"}

(* All that was put into the channel of c, in that order, except for the   *)
(* event a failing writer held.                                            *)
Stream(c) ==
    out[c] \o (IF writer[c].at = "write" THEN <<writer[c].evt>> ELSE <<>>) \o send[c]

(* No client sees the events of one goroutine out of order or twice,       *)
(* whatever is dropped, and whoever else broadcasts (Broadcast, writer).   *)
StreamsAreOrdered ==
    \A c \in Clients :
        LET e == Stream(c)
        IN  \A i, j \in DOMAIN e : i < j /\ e[i].src = e[j].src => e[i].n < e[j].n

(* The control message an event answers, None for codes and WA events.     *)
AnswerTo(e) ==
    CASE e.src \in Clients -> <<e.src, e.n>>
      [] e.src = Bot       -> answers[e.n]
      [] OTHER             -> None

(* A control message is answered at most once, also across clients: never  *)
(* both by "server busy" and by the bot's ack, never before it was taken   *)
(* from Control (the reader loop's "no optimistic ack").                   *)
OneAnswerPerControl ==
    \A c, d \in Clients :
        \A i \in DOMAIN Stream(c), j \in DOMAIN Stream(d) :
            LET e == Stream(c)[i]
                f == Stream(d)[j]
            IN  AnswerTo(e) # None =>
                   /\ AnswerTo(e) = AnswerTo(f) => e = f
                   /\ AnswerTo(e) # inHand
                   /\ \A k \in DOMAIN Control : Control[k] # AnswerTo(e)

(* A broadcast ends only when it was offered to every client that is still *)
(* connected ("Broadcast sends an event to all connected WebSocket         *)
(* clients").                                                              *)
BroadcastReachesConnected ==
    [][\A s \in Casters :
          bcast[s] # None /\ bcast'[s] = None =>
              \A c \in bcast[s].todo \cap clients : bcast[s].todo = {c}]_vars

-----------------------------------------------------------------------------
(* Liveness.                                                               *)

(* Once the context of a connection is cancelled, by its reader or by its  *)
(* writer, the other one ends too and the client is unregistered: no       *)
(* goroutine leaks and no dead client stays in the map.                    *)
CancelledConnectionsEnd ==
    \A c \in Clients :
        cancelled[c] ~> (~Alive \/ (c \notin clients /\ writer[c].at = "done"))

(* The control loop answers every message it accepted, however slow or     *)
(* dead the clients are, unless the process ends.                          *)
AcceptedControlsAreAnswered ==
    \A m \in ControlId :
        (phase = "running" /\ \E k \in DOMAIN Control : Control[k] = m)
            ~> (~Alive \/ \E k \in DOMAIN answers : answers[k] = m)
=============================================================================
