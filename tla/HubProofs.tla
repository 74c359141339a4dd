----------------------------- MODULE HubProofs -----------------------------
(***************************************************************************)
(* Theorems about Hub, for any clients, goroutines and capacities: no      *)
(* client sees the events of a goroutine out of order or twice, a control  *)
(* message is answered at most once, and a channel is closed exactly when  *)
(* its client is gone.                                                     *)
(***************************************************************************)
EXTENDS Hub, TLAPS

-----------------------------------------------------------------------------
(* The inductive invariant, in named parts.                                *)

AnyEvent == [src : Clients \cup Casters, n : Nat]

Offers == [evt : AnyEvent, todo : (SUBSET Clients) \ {{}}]

Writers == [at : {"off", "idle", "done"}] \cup [at : {"write"}, evt : AnyEvent]

Types ==
    /\ phase \in {"pairing", "running", "stopped", "crashed"}
    /\ clients \subseteq Clients
    /\ Control \in Seq(ControlId) /\ Len(Control) <= ControlCap
    /\ inHand \in ControlId \cup {None}
    /\ answers \in Seq(ControlId \cup {None})
    /\ count \in [Casters -> Nat]
    /\ bcast \in [Casters -> Offers \cup {None}]
    /\ peer \in [Clients -> {"up", "down"}]
    /\ reader \in [Clients -> {"off", "reading", "leaving", "done"}]
    /\ cancelled \in [Clients -> BOOLEAN]
    /\ sent \in [Clients -> 0 .. MaxControls]
    /\ closed \in [Clients -> BOOLEAN]
    /\ send \in [Clients -> Seq(AnyEvent)]
    /\ \A c \in Clients : Len(send[c]) <= SendCap
    /\ writer \in [Clients -> Writers]
    /\ out \in [Clients -> Seq(AnyEvent)]

\* What a caster offers is its newest event, and every event is counted.
Counted ==
    /\ \A s \in Casters : bcast[s] # None => bcast[s].evt = Event(s, count[s]) /\ count[s] > 0
    /\ \A s \in Sources : count[s] <= MaxEvents
    /\ count[Bot] = Len(answers)

\* Where an event in the stream of c comes from: the newest of a caster is not
\* among them while it is still to be offered to c.
MadeFor(c, e) ==
    \/ e.src = c /\ e.n \in 1 .. sent[c]
    \/ /\ e.src \in Casters /\ e.n \in 1 .. count[e.src]
       /\ bcast[e.src] # None /\ c \in bcast[e.src].todo => e.n < count[e.src]

Made == \A c \in Clients : \A i \in DOMAIN Stream(c) : MadeFor(c, Stream(c)[i])

\* Where a control message that was received is: never at two places.
Read(m, n) == m[2] <= n[m[1]]

ControlsAreDistinct ==
    /\ \A k \in DOMAIN Control : Read(Control[k], sent) /\ Control[k] # inHand
    /\ \A k, l \in DOMAIN Control : Control[k] = Control[l] => k = l
    /\ inHand # None => Read(inHand, sent)

AnswersAreDistinct ==
    /\ \A i \in DOMAIN answers : answers[i] # None =>
          /\ Read(answers[i], sent) /\ answers[i] # inHand
          /\ \A k \in DOMAIN Control : Control[k] # answers[i]
    /\ \A i, j \in DOMAIN answers : answers[i] # None /\ answers[i] = answers[j] => i = j

\* A message that was refused is neither waiting nor answered by the bot.
Refused(m) ==
    /\ m # inHand
    /\ \A k \in DOMAIN Control : Control[k] # m
    /\ \A i \in DOMAIN answers : answers[i] # m

RefusedIsForgotten ==
    \A c \in Clients : \A i \in DOMAIN Stream(c) :
        Stream(c)[i].src = c => Refused(<<c, Stream(c)[i].n>>)

IInv == /\ Types /\ ClosedMeansGone /\ Counted /\ Made /\ StreamsAreOrdered
        /\ ControlsAreDistinct /\ AnswersAreDistinct /\ RefusedIsForgotten

-----------------------------------------------------------------------------
(* Streams as sequences.                                                   *)

\* What the writer of c has in hand.
Held(c) == IF writer[c].at = "write" THEN <<writer[c].evt>> ELSE <<>>

LEMMA StreamIs ==
    ASSUME NEW c
    PROVE  Stream(c) = (out[c] \o Held(c)) \o send[c]
BY DEF Stream, Held

LEMMA StreamType ==
    ASSUME Types, NEW c \in Clients
    PROVE  /\ out[c] \in Seq(AnyEvent) /\ Held(c) \in Seq(AnyEvent) /\ send[c] \in Seq(AnyEvent)
           /\ Stream(c) \in Seq(AnyEvent)
<1>1. out[c] \in Seq(AnyEvent) /\ send[c] \in Seq(AnyEvent)
  BY DEF Types
<1>2. Held(c) \in Seq(AnyEvent)
  <2>1. writer[c].at = "write" => writer[c].evt \in AnyEvent
    BY DEF Types, Writers
  <2> QED
    BY <2>1 DEF Held
<1>3. (out[c] \o Held(c)) \o send[c] \in Seq(AnyEvent)
  BY <1>1, <1>2
<1> QED
  BY <1>1, <1>2, <1>3, StreamIs

\* s is t without some of its events.
Within(s, t) ==
    \E f \in [DOMAIN s -> DOMAIN t] :
        /\ \A i, j \in DOMAIN s : i < j => f[i] < f[j]
        /\ \A i \in DOMAIN s : s[i] = t[f[i]]

Ordered(s) == \A i, j \in DOMAIN s : i < j /\ s[i].src = s[j].src => s[i].n < s[j].n

LEMMA WithinItself ==
    ASSUME NEW s \in Seq(AnyEvent)
    PROVE  Within(s, s)
<1> DEFINE f == [i \in DOMAIN s |-> i]
<1>1. /\ f \in [DOMAIN s -> DOMAIN s]
      /\ \A i, j \in DOMAIN s : i < j => f[i] < f[j]
      /\ \A i \in DOMAIN s : s[i] = s[f[i]]
  OBVIOUS
<1> QED
  BY <1>1 DEF Within

LEMMA WithinWithout ==
    ASSUME NEW a \in Seq(AnyEvent), NEW h \in Seq(AnyEvent), NEW q \in Seq(AnyEvent)
    PROVE  Within((a \o <<>>) \o q, (a \o h) \o q)
<1> DEFINE s == (a \o <<>>) \o q
           t == (a \o h) \o q
           f == [i \in DOMAIN s |-> IF i <= Len(a) THEN i ELSE i + Len(h)]
<1>1. /\ s \in Seq(AnyEvent) /\ t \in Seq(AnyEvent)
      /\ Len(s) = Len(a) + Len(q) /\ Len(t) = Len(a) + Len(h) + Len(q)
  OBVIOUS
<1>2. f \in [DOMAIN s -> DOMAIN t]
  BY <1>1
<1>3. \A i, j \in DOMAIN s : i < j => f[i] < f[j]
  BY <1>1
<1>4. \A i \in DOMAIN s : s[i] = t[f[i]]
  BY <1>1
<1> QED
  BY <1>2, <1>3, <1>4 DEF Within

LEMMA Parts ==
    ASSUME NEW a \in Seq(AnyEvent), NEW h \in Seq(AnyEvent), NEW q \in Seq(AnyEvent),
           NEW s, s = (a \o h) \o q
    PROVE  /\ Len(s) = Len(a) + Len(h) + Len(q)
           /\ \A i \in DOMAIN a : i \in DOMAIN s /\ s[i] = a[i]
           /\ \A i \in DOMAIN h : i + Len(a) \in DOMAIN s /\ s[i + Len(a)] = h[i]
           /\ \A i \in DOMAIN q : /\ i + Len(a) + Len(h) \in DOMAIN s
                                  /\ s[i + Len(a) + Len(h)] = q[i]
OBVIOUS

LEMMA OrderedWithin ==
    ASSUME NEW s \in Seq(AnyEvent), NEW t \in Seq(AnyEvent), Ordered(t), Within(s, t)
    PROVE  Ordered(s)
BY DEF Ordered, Within

LEMMA OrderedAppend ==
    ASSUME NEW s \in Seq(AnyEvent), NEW e \in AnyEvent, Ordered(s),
           \A i \in DOMAIN s : s[i].src = e.src => s[i].n < e.n
    PROVE  Ordered(Append(s, e))
<1>1. DOMAIN Append(s, e) = 1 .. Len(s) + 1 /\ DOMAIN s = 1 .. Len(s)
  OBVIOUS
<1>2. \A i \in 1 .. Len(s) : Append(s, e)[i] = s[i]
  OBVIOUS
<1>3. Append(s, e)[Len(s) + 1] = e
  OBVIOUS
<1> QED
  BY <1>1, <1>2, <1>3 DEF Ordered

LEMMA AppendToStream ==
    ASSUME NEW b \in Seq(AnyEvent), NEW q \in Seq(AnyEvent), NEW e \in AnyEvent
    PROVE  b \o Append(q, e) = Append(b \o q, e)
OBVIOUS

LEMMA TakeFromStream ==
    ASSUME NEW a \in Seq(AnyEvent), NEW q \in Seq(AnyEvent), q # <<>>
    PROVE  (a \o <<Head(q)>>) \o Tail(q) = (a \o <<>>) \o q
OBVIOUS

LEMMA WriteToStream ==
    ASSUME NEW a \in Seq(AnyEvent), NEW q \in Seq(AnyEvent), NEW e \in AnyEvent
    PROVE  (Append(a, e) \o <<>>) \o q = (a \o <<e>>) \o q
OBVIOUS

-----------------------------------------------------------------------------
(* Types, and who is registered.                                           *)

LEMMA PublishTypes ==
    ASSUME Types, NEW s \in Casters, Publish(s)
    PROVE  /\ count' \in [Casters -> Nat] /\ bcast' \in [Casters -> Offers \cup {None}]
           /\ count'[s] = count[s] + 1 /\ \A r \in Casters \ {s} : count'[r] = count[r]
           /\ \A r \in Casters \ {s} : bcast'[r] = bcast[r]
           /\ \/ clients = {} /\ bcast' = bcast
              \/ bcast'[s].evt = Event(s, count'[s]) /\ bcast'[s].todo = clients
<1>1. /\ count \in [Casters -> Nat] /\ bcast \in [Casters -> Offers \cup {None}]
      /\ clients \subseteq Clients
  BY DEF Types
<1>2. count' = [count EXCEPT ![s] = @ + 1]
  BY DEF Publish
<1>3. Event(s, count[s] + 1) \in AnyEvent
  BY <1>1 DEF Event, AnyEvent
<1>4. clients # {} => [evt |-> Event(s, count[s] + 1), todo |-> clients] \in Offers
  <2>1. clients \in SUBSET Clients
    BY <1>1
  <2>2. PICK e \in AnyEvent : e = Event(s, count[s] + 1)
    BY <1>3
  <2> QED
    BY <2>1, <2>2 DEF Offers
<1>5. /\ count' \in [Casters -> Nat] /\ count'[s] = count[s] + 1
      /\ \A r \in Casters \ {s} : count'[r] = count[r]
  BY <1>1, <1>2
<1>6. CASE clients = {}
  BY <1>1, <1>5, <1>6 DEF Publish
<1>7. CASE clients # {}
  <2>1. PICK o \in Offers : o = [evt |-> Event(s, count[s] + 1), todo |-> clients]
    BY <1>4, <1>7
  <2>2. o.evt = Event(s, count[s] + 1) /\ o.todo = clients
    BY <2>1
  <2>3. bcast' = [bcast EXCEPT ![s] = o]
    BY <1>7, <2>1 DEF Publish
  <2> QED
    BY <1>1, <1>5, <2>2, <2>3
<1> QED
  BY <1>6, <1>7

LEMMA OfferedType ==
    ASSUME NEW q \in Seq(AnyEvent), NEW e \in AnyEvent, Len(q) <= SendCap
    PROVE  Offered(q, e) \in Seq(AnyEvent) /\ Len(Offered(q, e)) <= SendCap
BY HubAssumption DEF Offered

LEMMA TakenType ==
    ASSUME NEW S, NEW q \in Seq(S), q # <<>>
    PROVE  /\ Head(q) \in S /\ Tail(q) \in Seq(S)
           /\ Len(Tail(q)) = Len(q) - 1
           /\ \A i \in DOMAIN Tail(q) : i + 1 \in DOMAIN q /\ Tail(q)[i] = q[i + 1]
           /\ 1 \in DOMAIN q /\ Head(q) = q[1]
OBVIOUS

LEMMA CastTypes ==
    ASSUME Types, NEW s \in Casters, NEW c \in Clients, Offer(s, c) \/ OfferPanics(s, c)
    PROVE  Types'
<1>1. bcast' \in [Casters -> Offers \cup {None}]
  <2>1. bcast \in [Casters -> Offers \cup {None}] /\ bcast[s] \in Offers
    BY DEF Types, Offer, OfferPanics
  <2>2. CASE Offer(s, c)
    <3>1. bcast[s].todo # {c} => [evt |-> bcast[s].evt, todo |-> bcast[s].todo \ {c}] \in Offers
      BY <2>1, <2>2 DEF Offers, Offer
    <3>2. PICK o : /\ o = IF bcast[s].todo = {c} THEN None
                          ELSE [evt |-> bcast[s].evt, todo |-> bcast[s].todo \ {c}]
                   /\ o \in Offers \cup {None}
      BY <3>1
    <3>3. bcast' = [bcast EXCEPT ![s] = o]
      BY <2>2, <3>2 DEF Offer
    <3> QED
      BY <2>1, <3>2, <3>3
  <2>3. CASE OfferPanics(s, c)
    BY <2>1, <2>3 DEF OfferPanics
  <2> QED
    BY <2>2, <2>3
<1>2. /\ send' \in [Clients -> Seq(AnyEvent)]
      /\ \A d \in Clients : Len(send'[d]) <= SendCap
  <2>1. bcast[s].evt \in AnyEvent
    BY DEF Types, Offer, OfferPanics, Offers
  <2>2. /\ Offered(send[c], bcast[s].evt) \in Seq(AnyEvent)
        /\ Len(Offered(send[c], bcast[s].evt)) <= SendCap
    BY <2>1, OfferedType DEF Types
  <2>3. CASE Offer(s, c)
    <3>1. send' = [send EXCEPT ![c] = Offered(send[c], bcast[s].evt)]
      BY <2>3 DEF Offer
    <3> QED
      BY <2>2, <3>1 DEF Types
  <2>4. CASE OfferPanics(s, c)
    BY <2>4 DEF OfferPanics, Types
  <2> QED
    BY <2>3, <2>4
<1>3. /\ UNCHANGED <<clients, botVars, count, connVars, closed>>
      /\ phase' \in {phase, "crashed"}
  BY DEF Offer, OfferPanics
<1> QED
  BY <1>1, <1>2, <1>3 DEF Types, botVars, connVars

LEMMA BotTypes ==
    ASSUME Types,
           (\E s \in Sources : WAEvent(s)) \/ ShowCode \/ PairingEnds \/ BotStep \/ BotStops
    PROVE  Types'
<1>1. ASSUME NEW s \in Sources, WAEvent(s)
      PROVE  Types'
  BY <1>1, PublishTypes DEF WAEvent, Casters, Types, botVars, connVars
<1>2. CASE ShowCode
  <2>1. count' \in [Casters -> Nat] /\ bcast' \in [Casters -> Offers \cup {None}]
    BY <1>2, PublishTypes DEF ShowCode, Casters
  <2>2. answers' \in Seq(ControlId \cup {None})
    BY <1>2 DEF ShowCode, Types
  <2> QED
    BY <1>2, <2>1, <2>2 DEF ShowCode, Types, connVars
<1>3. CASE PairingEnds \/ BotStops
  BY <1>3 DEF PairingEnds, BotStops, Types, botVars, castVars, connVars
<1>4. CASE TakeControl
  <2>1. /\ inHand' \in ControlId /\ Control' \in Seq(ControlId)
        /\ Len(Control') = Len(Control) - 1
    BY <1>4, TakenType DEF TakeControl, Types
  <2> QED
    BY <1>4, <2>1, HubAssumption DEF TakeControl, Types, castVars, connVars
<1>5. CASE AnswerControl
  <2>1. count' \in [Casters -> Nat] /\ bcast' \in [Casters -> Offers \cup {None}]
    BY <1>5, PublishTypes DEF AnswerControl, Casters
  <2>2. answers' \in Seq(ControlId \cup {None})
    BY <1>5 DEF AnswerControl, Types
  <2> QED
    BY <1>5, <2>1, <2>2 DEF AnswerControl, Types, connVars
<1> QED
  BY <1>1, <1>2, <1>3, <1>4, <1>5 DEF BotStep

LEMMA ConnectionTypes ==
    ASSUME Types, NEW c \in Clients,
           Connect(c) \/ Receive(c) \/ LeaveStep(c) \/ PeerBreaks(c)
    PROVE  Types'
<1> USE DEF botVars, castVars, connVars
<1>1. CASE Connect(c)
  <2>1. At("idle") \in Writers
    BY DEF At, Writers
  <2> QED
    BY <1>1, <2>1 DEF Connect, Types
<1>2. CASE Receive(c)
  <2>1. sent[c] + 1 \in 1 .. MaxControls /\ sent' = [sent EXCEPT ![c] = sent[c] + 1]
    BY <1>2, HubAssumption DEF Receive, Types
  <2>2. sent' \in [Clients -> 0 .. MaxControls]
    BY <2>1 DEF Types
  <2>3. Control' \in Seq(ControlId) /\ Len(Control') <= ControlCap
    <3>1. <<c, sent[c] + 1>> \in ControlId
      BY <2>1 DEF ControlId
    <3>2. Control \in Seq(ControlId) /\ Len(Control) <= ControlCap /\ ControlCap \in Nat
      BY HubAssumption DEF Types
    <3>3. CASE Len(Control) < ControlCap /\ Control' = Append(Control, <<c, sent[c] + 1>>)
      BY <3>1, <3>2, <3>3
    <3> QED
      BY <1>2, <3>2, <3>3 DEF Receive
  <2>4. /\ send' \in [Clients -> Seq(AnyEvent)]
        /\ \A d \in Clients : Len(send'[d]) <= SendCap
    <3>1. Event(c, sent[c] + 1) \in AnyEvent
      BY <2>1 DEF Event, AnyEvent
    <3>2. /\ Offered(send[c], Event(c, sent[c] + 1)) \in Seq(AnyEvent)
          /\ Len(Offered(send[c], Event(c, sent[c] + 1))) <= SendCap
      BY <3>1, OfferedType DEF Types
    <3>3. \/ send' = send
          \/ send' = [send EXCEPT ![c] = Offered(send[c], Event(c, sent[c] + 1))]
      BY <1>2 DEF Receive
    <3> QED
      BY <3>2, <3>3 DEF Types
  <2> QED
    BY <1>2, <2>2, <2>3, <2>4 DEF Receive, Types
<1>3. CASE ReadFails(c)
  BY <1>3 DEF ReadFails, Types
<1>4. CASE Unregister(c)
  BY <1>4 DEF Unregister, Types
<1>5. CASE PeerBreaks(c)
  BY <1>5 DEF PeerBreaks, Types
<1> QED
  BY <1>1, <1>2, <1>3, <1>4, <1>5 DEF LeaveStep

LEMMA WriterTypes ==
    ASSUME Types, NEW c \in Clients, WriteStep(c) \/ WriterSucceeds(c)
    PROVE  Types'
<1> USE DEF botVars, castVars
<1>0. At("idle") \in Writers /\ At("done") \in Writers
  BY DEF At, Writers
<1>1. CASE WriterTakes(c)
  <2>1. /\ Head(send[c]) \in AnyEvent /\ Tail(send[c]) \in Seq(AnyEvent)
        /\ Len(Tail(send[c])) = Len(send[c]) - 1
    BY <1>1, TakenType DEF WriterTakes, Types
  <2>2. [at |-> "write", evt |-> Head(send[c])] \in Writers
    BY <2>1 DEF Writers
  <2>3. writer' \in [Clients -> Writers]
    BY <1>1, <2>2 DEF WriterTakes, Types
  <2>4. send' = [send EXCEPT ![c] = Tail(send[c])]
    BY <1>1 DEF WriterTakes
  <2>5. /\ send' \in [Clients -> Seq(AnyEvent)]
        /\ \A d \in Clients : Len(send'[d]) <= SendCap
    BY <2>1, <2>4, HubAssumption DEF Types
  <2> QED
    BY <1>1, <2>3, <2>5 DEF WriterTakes, Types
<1>2. CASE WriterSucceeds(c)
  <2>1. writer[c].evt \in AnyEvent
    BY <1>2 DEF WriterSucceeds, Types, Writers
  <2>2. out' = [out EXCEPT ![c] = Append(out[c], writer[c].evt)]
    BY <1>2 DEF WriterSucceeds
  <2>3. out' \in [Clients -> Seq(AnyEvent)]
    BY <2>1, <2>2 DEF Types
  <2> QED
    BY <1>0, <1>2, <2>3 DEF WriterSucceeds, Types
<1>3. CASE WriterFails(c)
  BY <1>0, <1>3 DEF WriterFails, Types
<1>4. CASE WriterStops(c)
  BY <1>0, <1>4 DEF WriterStops, Types
<1> QED
  BY <1>1, <1>2, <1>3, <1>4 DEF WriteStep

\* Everything a step can do.
LEMMA Steps ==
    ASSUME Next
    PROVE  \/ (\E s \in Sources : WAEvent(s)) \/ ShowCode \/ PairingEnds \/ BotStep \/ BotStops
           \/ \E s \in Casters, c \in Clients : Offer(s, c) \/ OfferPanics(s, c)
           \/ \E c \in Clients : Connect(c) \/ Receive(c) \/ LeaveStep(c) \/ PeerBreaks(c)
           \/ \E c \in Clients : WriteStep(c) \/ WriterSucceeds(c)
BY DEF Next, CastStep

LEMMA TypesStep == Types /\ [Next]_vars => Types'
<1> SUFFICES ASSUME Types, [Next]_vars
             PROVE  Types'
  OBVIOUS
<1>1. CASE Next
  BY <1>1, Steps, CastTypes, BotTypes, ConnectionTypes, WriterTypes
<1>2. CASE UNCHANGED vars
  BY <1>2 DEF vars, Types, botVars, castVars, connVars
<1> QED
  BY <1>1, <1>2

\* A client is registered from Connect to Unregister, which closes its channel.
LEMMA ClosedStep == Types /\ ClosedMeansGone /\ [Next]_vars => ClosedMeansGone'
<1> SUFFICES ASSUME Types, ClosedMeansGone, [Next]_vars
             PROVE  ClosedMeansGone'
  OBVIOUS
<1>1. ASSUME NEW c \in Clients, Connect(c)
      PROVE  ClosedMeansGone'
  BY <1>1 DEF Connect, Types, ClosedMeansGone
<1>2. ASSUME NEW c \in Clients, ReadFails(c)
      PROVE  ClosedMeansGone'
  BY <1>2 DEF ReadFails, Types, ClosedMeansGone
<1>3. ASSUME NEW c \in Clients, Unregister(c)
      PROVE  ClosedMeansGone'
  BY <1>3 DEF Unregister, Types, ClosedMeansGone
<1>4. UNCHANGED <<clients, closed, reader>> => ClosedMeansGone'
  BY DEF ClosedMeansGone
<1>5. CASE (\E s \in Sources : WAEvent(s)) \/ ShowCode \/ PairingEnds \/ BotStep \/ BotStops
  BY <1>4, <1>5 DEF WAEvent, ShowCode, PairingEnds, BotStep, BotStops, TakeControl,
                    AnswerControl, connVars
<1>6. CASE \E s \in Casters, c \in Clients : Offer(s, c) \/ OfferPanics(s, c)
  BY <1>4, <1>6 DEF Offer, OfferPanics, connVars
<1>7. CASE \E c \in Clients : Receive(c) \/ PeerBreaks(c)
  BY <1>4, <1>7 DEF Receive, PeerBreaks
<1>8. CASE \E c \in Clients : WriteStep(c) \/ WriterSucceeds(c)
  BY <1>4, <1>8 DEF WriteStep, WriterTakes, WriterFails, WriterStops, WriterSucceeds
<1>9. CASE UNCHANGED vars
  BY <1>4, <1>9 DEF vars, connVars
<1> QED
  BY <1>1, <1>2, <1>3, <1>5, <1>6, <1>7, <1>8, <1>9, Steps DEF LeaveStep

-----------------------------------------------------------------------------
(* What a step does to the casters, the streams and the controls.          *)

\* A caster publishes, or gets on with what it offers, or neither.
LEMMA CastersStep ==
    ASSUME Types, [Next]_vars, NEW s \in Casters
    PROVE  \/ /\ count'[s] = count[s]
              /\ \/ bcast'[s] = bcast[s] \/ bcast'[s] = None
                 \/ /\ bcast[s] # None /\ bcast'[s].evt = bcast[s].evt
                    /\ bcast'[s].todo \subseteq bcast[s].todo
           \/ /\ count'[s] = count[s] + 1 /\ Publish(s) /\ bcast[s] = None
              /\ \/ bcast'[s] = None
                 \/ bcast'[s].evt = Event(s, count'[s]) /\ bcast'[s].todo = clients
<1>1. ASSUME NEW r \in Casters, Publish(r)
      PROVE  \/ count'[s] = count[s] /\ bcast'[s] = bcast[s]
             \/ /\ count'[s] = count[s] + 1 /\ Publish(s) /\ bcast[s] = None
                /\ \/ bcast'[s] = None
                   \/ bcast'[s].evt = Event(s, count'[s]) /\ bcast'[s].todo = clients
  <2>1. bcast[r] = None
    BY <1>1 DEF Publish
  <2>2. CASE r = s
    BY <1>1, <2>1, <2>2, PublishTypes
  <2>3. CASE r # s
    BY <1>1, <2>3, PublishTypes
  <2> QED
    BY <2>2, <2>3
<1>2. ASSUME NEW r \in Casters, NEW c \in Clients, Offer(r, c)
      PROVE  /\ count'[s] = count[s]
             /\ \/ bcast'[s] = bcast[s] \/ bcast'[s] = None
                \/ /\ bcast[s] # None /\ bcast'[s].evt = bcast[s].evt
                   /\ bcast'[s].todo \subseteq bcast[s].todo
  BY <1>2 DEF Offer, Types
<1>3. ASSUME NEW r \in Casters, NEW c \in Clients, OfferPanics(r, c)
      PROVE  count'[s] = count[s] /\ (bcast'[s] = bcast[s] \/ bcast'[s] = None)
  BY <1>3 DEF OfferPanics, Types
<1>4. CASE (\E r \in Sources : WAEvent(r)) \/ ShowCode \/ AnswerControl
  BY <1>1, <1>4 DEF WAEvent, ShowCode, AnswerControl, Casters
<1>5. CASE PairingEnds \/ TakeControl \/ BotStops \/ UNCHANGED vars
  BY <1>5 DEF PairingEnds, TakeControl, BotStops, vars, castVars
<1>6. CASE \E c \in Clients : Connect(c) \/ Receive(c) \/ LeaveStep(c) \/ PeerBreaks(c)
  BY <1>6 DEF Connect, Receive, LeaveStep, ReadFails, Unregister, PeerBreaks, castVars
<1>7. CASE \E c \in Clients : WriteStep(c) \/ WriterSucceeds(c)
  BY <1>7 DEF WriteStep, WriterTakes, WriterFails, WriterStops, WriterSucceeds, castVars
<1> QED
  BY <1>2, <1>3, <1>4, <1>5, <1>6, <1>7, Steps DEF BotStep

\* The stream of d gets one event more, or none.
LEMMA StreamStep ==
    ASSUME Types, [Next]_vars, NEW d \in Clients
    PROVE  \/ Within(Stream(d)', Stream(d))
           \/ \E s \in Casters : Offer(s, d) /\ Stream(d)' = Append(Stream(d), bcast[s].evt)
           \/ /\ Receive(d) /\ UNCHANGED Control
              /\ Stream(d)' = Append(Stream(d), Event(d, sent[d] + 1))
<1> DEFINE Same == Stream(d)' = Stream(d)
<1>1. Stream(d) \in Seq(AnyEvent)
  BY StreamType
<1>2. Same => Within(Stream(d)', Stream(d))
  BY <1>1, WithinItself
<1>3. out[d] \in Seq(AnyEvent) /\ Held(d) \in Seq(AnyEvent) /\ send[d] \in Seq(AnyEvent)
  BY StreamType
<1>4. /\ Stream(d)  = (out[d] \o Held(d)) \o send[d]
      /\ Stream(d)' = (out'[d] \o Held(d)') \o send'[d]
  BY StreamIs DEF Stream, Held
<1>5. writer'[d] = writer[d] => Held(d)' = Held(d)
  BY DEF Held
<1> HIDE DEF Same
<1>6. ASSUME out'[d] = out[d], writer'[d] = writer[d], send'[d] = send[d]
      PROVE  Same
  BY <1>4, <1>5, <1>6 DEF Same
<1>7. ASSUME NEW e \in AnyEvent, out'[d] = out[d], writer'[d] = writer[d],
             send'[d] = Offered(send[d], e)
      PROVE  Same \/ Stream(d)' = Append(Stream(d), e)
  <2>1. CASE send'[d] = send[d]
    BY <1>6, <1>7, <2>1
  <2>2. CASE send'[d] = Append(send[d], e)
    <3>1. out[d] \o Held(d) \in Seq(AnyEvent)
      BY <1>3
    <3>2. Stream(d)' = (out[d] \o Held(d)) \o Append(send[d], e)
      BY <1>4, <1>5, <1>7, <2>2
    <3>3. (out[d] \o Held(d)) \o Append(send[d], e)
             = Append((out[d] \o Held(d)) \o send[d], e)
      BY <1>3, <3>1, AppendToStream
    <3> QED
      BY <1>4, <3>2, <3>3
  <2> QED
    BY <1>7, <2>1, <2>2 DEF Offered
<1>8. ASSUME out'[d] = out[d], send'[d] = send[d], writer'[d].at # "write"
      PROVE  Within(Stream(d)', Stream(d))
  <2>1. Held(d)' = <<>>
    BY <1>8 DEF Held
  <2> QED
    BY <1>3, <1>4, <1>8, <2>1, WithinWithout
<1>9. ASSUME NEW s \in Casters, NEW c \in Clients, Offer(s, c)
      PROVE  Same \/ (c = d /\ Stream(d)' = Append(Stream(d), bcast[s].evt))
  <2>1. bcast[s].evt \in AnyEvent
    BY <1>9 DEF Offer, Types, Offers
  <2>2. UNCHANGED <<out, writer>> /\ send' = [send EXCEPT ![c] = Offered(send[c], bcast[s].evt)]
    BY <1>9 DEF Offer, connVars
  <2>3. send'[d] = IF c = d THEN Offered(send[d], bcast[s].evt) ELSE send[d]
    BY <2>2 DEF Types
  <2> QED
    BY <1>6, <1>7, <2>1, <2>2, <2>3
<1>10. ASSUME NEW c \in Clients, Receive(c)
       PROVE  \/ Same
              \/ /\ c = d /\ UNCHANGED Control
                 /\ Stream(d)' = Append(Stream(d), Event(d, sent[d] + 1))
  <2>1. Event(d, sent[d] + 1) \in AnyEvent
    BY HubAssumption DEF Types, Event, AnyEvent
  <2>2. /\ UNCHANGED <<out, writer>>
        /\ \/ send' = send
           \/ /\ UNCHANGED Control
              /\ send' = [send EXCEPT ![c] = Offered(send[c], Event(c, sent[c] + 1))]
    BY <1>10 DEF Receive
  <2>3. \/ send'[d] = send[d]
        \/ /\ UNCHANGED Control /\ c = d
           /\ send'[d] = Offered(send[d], Event(d, sent[d] + 1))
    BY <2>2 DEF Types
  <2> QED
    BY <1>6, <1>7, <2>1, <2>2, <2>3
<1>11. ASSUME NEW c \in Clients, WriterTakes(c)
       PROVE  Same
  <2>1. CASE c = d
    <3>1. /\ out'[d] = out[d] /\ send[d] # <<>> /\ send'[d] = Tail(send[d])
          /\ writer[d].at # "write" /\ writer'[d] = [at |-> "write", evt |-> Head(send[d])]
      BY <1>11, <2>1 DEF WriterTakes, Types
    <3>2. Held(d) = <<>> /\ Held(d)' = <<Head(send[d])>>
      BY <3>1 DEF Held
    <3> QED
      BY <1>3, <1>4, <3>1, <3>2, TakeFromStream DEF Same
  <2>2. CASE c # d
    BY <1>6, <1>11, <2>2 DEF WriterTakes, Types
  <2> QED
    BY <2>1, <2>2
<1>12. ASSUME NEW c \in Clients, WriterSucceeds(c)
       PROVE  Same
  <2>1. CASE c = d
    <3>1. /\ out'[d] = Append(out[d], writer[d].evt) /\ send'[d] = send[d]
          /\ writer[d].at = "write" /\ writer'[d].at # "write"
      BY <1>12, <2>1 DEF WriterSucceeds, Types, At
    <3>2. Held(d) = <<writer[d].evt>> /\ Held(d)' = <<>> /\ writer[d].evt \in AnyEvent
      BY <3>1 DEF Held, Types, Writers
    <3> QED
      BY <1>3, <1>4, <3>1, <3>2, WriteToStream DEF Same
  <2>2. CASE c # d
    BY <1>6, <1>12, <2>2 DEF WriterSucceeds, Types
  <2> QED
    BY <2>1, <2>2
<1>13. ASSUME NEW c \in Clients, Connect(c) \/ WriterFails(c) \/ WriterStops(c)
       PROVE  Same \/ Within(Stream(d)', Stream(d))
  <2>1. CASE c = d
    BY <1>8, <1>13, <2>1 DEF Connect, WriterFails, WriterStops, Types, At
  <2>2. CASE c # d
    BY <1>6, <1>13, <2>2 DEF Connect, WriterFails, WriterStops, Types
  <2> QED
    BY <2>1, <2>2
<1>14. UNCHANGED <<out, writer, send>> => Same
  BY <1>6
<1>15. CASE (\E s \in Sources : WAEvent(s)) \/ ShowCode \/ PairingEnds \/ BotStep \/ BotStops
  BY <1>2, <1>14, <1>15 DEF WAEvent, ShowCode, PairingEnds, BotStep, TakeControl, AnswerControl,
                           BotStops, connVars
<1>16. ASSUME NEW s \in Casters, NEW c \in Clients, OfferPanics(s, c)
       PROVE  Same
  BY <1>14, <1>16 DEF OfferPanics, connVars
<1>17. CASE \E c \in Clients : LeaveStep(c) \/ PeerBreaks(c)
  BY <1>2, <1>14, <1>17 DEF LeaveStep, ReadFails, Unregister, PeerBreaks
<1>18. CASE UNCHANGED vars
  BY <1>2, <1>14, <1>18 DEF vars, connVars
<1> QED
  BY <1>2, <1>9, <1>10, <1>11, <1>12, <1>13, <1>15, <1>16, <1>17, <1>18, Steps DEF WriteStep

\* A control message is received, taken or answered, or a code is shown.
LEMMA ControlsStep ==
    ASSUME Types, [Next]_vars
    PROVE  \/ UNCHANGED <<Control, inHand, answers, sent>>
           \/ \E d \in Clients : /\ sent' = [sent EXCEPT ![d] = sent[d] + 1]
                                 /\ \/ UNCHANGED Control
                                    \/ Control' = Append(Control, <<d, sent[d] + 1>>)
                                 /\ UNCHANGED <<inHand, answers>>
           \/ /\ inHand = None /\ Control # <<>>
              /\ inHand' = Head(Control) /\ Control' = Tail(Control)
              /\ UNCHANGED <<answers, sent>>
           \/ /\ \/ answers' = Append(answers, None) /\ UNCHANGED inHand
                 \/ inHand # None /\ answers' = Append(answers, inHand) /\ inHand' = None
              /\ UNCHANGED <<Control, sent>>
<1>1. ASSUME NEW c \in Clients, Receive(c)
      PROVE  /\ sent' = [sent EXCEPT ![c] = sent[c] + 1]
             /\ UNCHANGED Control \/ Control' = Append(Control, <<c, sent[c] + 1>>)
             /\ UNCHANGED <<inHand, answers>>
  BY <1>1 DEF Receive
<1>2. CASE BotStep \/ ShowCode
  BY <1>2 DEF BotStep, ShowCode, TakeControl, AnswerControl, BotAtSelect, connVars
<1>3. CASE (\E s \in Sources : WAEvent(s)) \/ PairingEnds \/ BotStops \/ UNCHANGED vars
  BY <1>3 DEF WAEvent, PairingEnds, BotStops, vars, botVars, connVars
<1>4. CASE \E s \in Casters, c \in Clients : Offer(s, c) \/ OfferPanics(s, c)
  BY <1>4 DEF Offer, OfferPanics, botVars, connVars
<1>5. CASE \E c \in Clients : Connect(c) \/ LeaveStep(c) \/ PeerBreaks(c)
  BY <1>5 DEF Connect, LeaveStep, ReadFails, Unregister, PeerBreaks, botVars
<1>6. CASE \E c \in Clients : WriteStep(c) \/ WriterSucceeds(c)
  BY <1>6 DEF WriteStep, WriterTakes, WriterFails, WriterStops, WriterSucceeds, botVars
<1> QED
  BY <1>1, <1>2, <1>3, <1>4, <1>5, <1>6, Steps

-----------------------------------------------------------------------------
(* Events are made in order, and each is offered once.                     *)

LEMMA CountedStep ==
    ASSUME Types, Counted, [Next]_vars
    PROVE  Counted'
<1>1. \A s \in Casters : bcast'[s] # None => bcast'[s].evt = Event(s, count'[s]) /\ count'[s] > 0
  <2> SUFFICES ASSUME NEW s \in Casters, bcast'[s] # None
               PROVE  bcast'[s].evt = Event(s, count'[s]) /\ count'[s] > 0
    OBVIOUS
  <2>1. /\ count[s] \in Nat
        /\ bcast[s] # None => bcast[s].evt = Event(s, count[s]) /\ count[s] > 0
    BY DEF Types, Counted
  <2>2. \/ count'[s] = count[s] /\ bcast[s] # None /\ bcast'[s].evt = bcast[s].evt
        \/ count'[s] = count[s] + 1 /\ bcast'[s].evt = Event(s, count'[s])
    BY CastersStep
  <2> QED
    BY <2>1, <2>2
<1>2. (\A s \in Sources : count'[s] <= MaxEvents) /\ count'[Bot] = Len(answers')
  <2>1. ASSUME NEW s \in Sources, WAEvent(s)
        PROVE  (\A r \in Sources : count'[r] <= MaxEvents) /\ count'[Bot] = Len(answers')
    <3>1. /\ count[s] < MaxEvents /\ count'[s] = count[s] + 1 /\ answers' = answers
          /\ \A r \in Casters \ {s} : count'[r] = count[r]
      BY <2>1, PublishTypes DEF WAEvent, Casters, botVars
    <3>2. count[s] \in Nat /\ MaxEvents \in Nat /\ Bot \in Casters \ {s}
      BY HubAssumption DEF Types, Casters
    <3>3. count'[s] <= MaxEvents
      BY <3>1, <3>2
    <3>4. count'[Bot] = Len(answers')
      BY <3>1, <3>2 DEF Counted
    <3>5. \A r \in Sources \ {s} : count'[r] <= MaxEvents
      BY <3>1 DEF Counted, Casters
    <3> QED
      BY <3>3, <3>4, <3>5
  <2>2. CASE ShowCode \/ AnswerControl
    <3>1. /\ count'[Bot] = count[Bot] + 1 /\ \A r \in Casters \ {Bot} : count'[r] = count[r]
          /\ \E m \in ControlId \cup {None} : answers' = Append(answers, m)
      BY <2>2, PublishTypes DEF ShowCode, AnswerControl, Casters, Types
    <3>2. Len(answers') = Len(answers) + 1
      BY <3>1 DEF Types
    <3> QED
      BY <3>1, <3>2, HubAssumption DEF Counted, Casters
  <2>3. CASE UNCHANGED <<count, answers>>
    BY <2>3 DEF Counted
  <2>4. CASE PairingEnds \/ TakeControl \/ BotStops \/ UNCHANGED vars
    BY <2>3, <2>4 DEF PairingEnds, TakeControl, BotStops, vars, castVars, botVars
  <2>5. CASE \E s \in Casters, c \in Clients : Offer(s, c) \/ OfferPanics(s, c)
    BY <2>3, <2>5 DEF Offer, OfferPanics, botVars
  <2>6. CASE \E c \in Clients : Connect(c) \/ Receive(c) \/ LeaveStep(c) \/ PeerBreaks(c)
    BY <2>3, <2>6 DEF Connect, Receive, LeaveStep, ReadFails, Unregister, PeerBreaks,
                      castVars, botVars
  <2>7. CASE \E c \in Clients : WriteStep(c) \/ WriterSucceeds(c)
    BY <2>3, <2>7 DEF WriteStep, WriterTakes, WriterFails, WriterStops, WriterSucceeds,
                      castVars, botVars
  <2> QED
    BY <2>1, <2>2, <2>4, <2>5, <2>6, <2>7, Steps DEF BotStep
<1> QED
  BY <1>1, <1>2 DEF Counted

LEMMA MadeStays ==
    ASSUME Types, [Next]_vars, NEW c \in Clients, NEW e, MadeFor(c, e)
    PROVE  MadeFor(c, e)'
<1>1. CASE e.src = c /\ e.n \in 1 .. sent[c]
  <2>1. sent[c] \in Nat /\ sent \in [Clients -> 0 .. MaxControls]
    BY HubAssumption DEF Types
  <2>2. sent' = sent \/ \E d \in Clients : sent' = [sent EXCEPT ![d] = sent[d] + 1]
    BY ControlsStep
  <2>3. sent'[c] \in {sent[c], sent[c] + 1}
    BY <2>1, <2>2
  <2> QED
    BY <1>1, <2>1, <2>3 DEF MadeFor
<1>2. CASE /\ e.src \in Casters /\ e.n \in 1 .. count[e.src]
           /\ bcast[e.src] # None /\ c \in bcast[e.src].todo => e.n < count[e.src]
  <2>1. PICK s \in Casters : s = e.src
    BY <1>2
  <2>2. count[s] \in Nat
    BY DEF Types
  <2>3. \/ count'[s] = count[s] + 1
        \/ count'[s] = count[s] /\ bcast'[s] = None
        \/ /\ count'[s] = count[s]
           /\ bcast'[s] # None => bcast[s] # None /\ bcast'[s].todo \subseteq bcast[s].todo
    BY CastersStep
  <2> QED
    BY <1>2, <2>1, <2>2, <2>3 DEF MadeFor
<1> QED
  BY <1>1, <1>2 DEF MadeFor

\* What is put into a channel is newer than all of its goroutine before it.
LEMMA NewestIsPut ==
    ASSUME Types, Counted, Made, NEW c \in Clients, NEW e \in AnyEvent,
           \/ e = Event(c, sent[c] + 1)
           \/ \E s \in Casters : bcast[s] # None /\ c \in bcast[s].todo /\ e = bcast[s].evt
    PROVE  \A i \in DOMAIN Stream(c) : Stream(c)[i].src = e.src => Stream(c)[i].n < e.n
<1>1. CASE e = Event(c, sent[c] + 1)
  <2>1. e.src = c /\ e.n = sent[c] + 1
    BY <1>1 DEF Event
  <2>2. c \notin Casters /\ sent[c] \in Nat
    BY HubAssumption DEF Casters, Types
  <2> QED
    BY <2>1, <2>2 DEF Made, MadeFor
<1>2. CASE \E s \in Casters : bcast[s] # None /\ c \in bcast[s].todo /\ e = bcast[s].evt
  <2>1. PICK s \in Casters : bcast[s] # None /\ c \in bcast[s].todo /\ e = bcast[s].evt
    BY <1>2
  <2>2. bcast[s].evt = Event(s, count[s])
    BY <2>1 DEF Counted
  <2>3. e.src = s /\ e.n = count[s]
    BY <2>1, <2>2 DEF Event
  <2>4. s # c
    BY HubAssumption DEF Casters
  <2> QED
    BY <2>1, <2>3, <2>4 DEF Made, MadeFor
<1> QED
  BY <1>1, <1>2

Streams == \A d \in Clients : Stream(d) \in Seq(AnyEvent)

LEMMA StreamTypes == Types => Streams
BY StreamType DEF Streams

LEMMA StreamsStep ==
    ASSUME Types, Counted, Made, StreamsAreOrdered, [Next]_vars
    PROVE  Made' /\ StreamsAreOrdered'
<1> SUFFICES ASSUME NEW c \in Clients
             PROVE  /\ (\A i \in DOMAIN Stream(c) : MadeFor(c, Stream(c)[i]))'
                    /\ Ordered(Stream(c)')
  BY DEF Made, StreamsAreOrdered, Ordered
<1> DEFINE new == Stream(c)'
<1>1. Stream(c) \in Seq(AnyEvent) /\ new \in Seq(AnyEvent)
  <2>1. Types'
    BY TypesStep
  <2>2. Streams'
    BY <2>1, StreamTypes, PTL
  <2> QED
    BY <2>2, StreamType DEF Streams
<1>2. Ordered(Stream(c))
  BY DEF StreamsAreOrdered, Ordered
<1>3. \A e : MadeFor(c, e) => MadeFor(c, e)'
  BY MadeStays
<1>4. CASE Within(new, Stream(c))
  <2>1. Ordered(new)
    BY <1>1, <1>2, <1>4, OrderedWithin
  <2>2. \A i \in DOMAIN new : \E j \in DOMAIN Stream(c) : new[i] = Stream(c)[j]
    BY <1>4 DEF Within
  <2>3. \A i \in DOMAIN new : \A e : e = new[i] => MadeFor(c, e)'
    BY <1>3, <2>2 DEF Made
  <2> QED
    BY <2>1, <2>3
<1>5. ASSUME NEW e \in AnyEvent, new = Append(Stream(c), e), MadeFor(c, e)',
             \A i \in DOMAIN Stream(c) : Stream(c)[i].src = e.src => Stream(c)[i].n < e.n
      PROVE  /\ (\A i \in DOMAIN Stream(c) : MadeFor(c, Stream(c)[i]))'
             /\ Ordered(new)
  <2>1. Ordered(new)
    BY <1>1, <1>2, <1>5, OrderedAppend
  <2>2. \A i \in DOMAIN new : new[i] = e \/ \E j \in DOMAIN Stream(c) : new[i] = Stream(c)[j]
    BY <1>1, <1>5
  <2>3. \A i \in DOMAIN new : \A d : d = new[i] => MadeFor(c, d)'
    BY <1>3, <1>5, <2>2 DEF Made
  <2> QED
    BY <2>1, <2>3
<1>6. ASSUME NEW s \in Casters, Offer(s, c), new = Append(Stream(c), bcast[s].evt)
      PROVE  /\ (\A i \in DOMAIN Stream(c) : MadeFor(c, Stream(c)[i]))'
             /\ Ordered(new)
  <2>1. bcast[s] # None /\ c \in bcast[s].todo /\ bcast[s] \in Offers
    BY <1>6 DEF Offer, Types
  <2>2. PICK e \in AnyEvent : e = bcast[s].evt
    BY <2>1 DEF Offers
  <2>3. e.src = s /\ e.n = count[s] /\ count[s] \in Nat /\ count[s] > 0
    <3>1. bcast[s].evt = Event(s, count[s]) /\ count[s] > 0
      BY <2>1 DEF Counted
    <3> QED
      BY <2>2, <3>1 DEF Event, Types
  <2>4. count' = count /\ (bcast'[s] # None => c \notin bcast'[s].todo)
    BY <1>6 DEF Offer, Types
  <2>5. MadeFor(c, e)'
    BY <2>3, <2>4 DEF MadeFor
  <2> QED
    BY <1>5, <1>6, <2>1, <2>2, <2>5, NewestIsPut
<1>7. ASSUME Receive(c), new = Append(Stream(c), Event(c, sent[c] + 1))
      PROVE  /\ (\A i \in DOMAIN Stream(c) : MadeFor(c, Stream(c)[i]))'
             /\ Ordered(new)
  <2>1. sent[c] \in Nat /\ sent'[c] = sent[c] + 1
    BY <1>7, HubAssumption DEF Receive, Types
  <2>2. Event(c, sent[c] + 1) \in AnyEvent
    BY <2>1 DEF Event, AnyEvent
  <2>3. PICK e \in AnyEvent : e = Event(c, sent[c] + 1)
    BY <2>2
  <2>4. MadeFor(c, e)'
    BY <2>1, <2>3 DEF MadeFor, Event
  <2> QED
    BY <1>5, <1>7, <2>3, <2>4, NewestIsPut
<1> QED
  BY <1>4, <1>6, <1>7, StreamStep

-----------------------------------------------------------------------------
(* A control message is at one place: refused, waiting in Control, in the  *)
(* hands of the bot, or answered.                                          *)

LEMMA ReadStays ==
    ASSUME Types, [Next]_vars, NEW m \in ControlId, Read(m, sent)
    PROVE  Read(m, sent')
<1>1. m[1] \in Clients /\ m[2] \in Nat
  BY DEF ControlId
<1>2. sent \in [Clients -> 0 .. MaxControls] /\ \A c \in Clients : sent[c] \in Nat
  BY HubAssumption DEF Types
<1>3. sent' = sent \/ \E d \in Clients : sent' = [sent EXCEPT ![d] = sent[d] + 1]
  BY ControlsStep
<1>4. sent'[m[1]] \in {sent[m[1]], sent[m[1]] + 1}
  BY <1>1, <1>2, <1>3
<1> QED
  BY <1>1, <1>2, <1>4 DEF Read

\* The next message of a client is at no place yet.
LEMMA NextIsNew ==
    ASSUME Types, ControlsAreDistinct, AnswersAreDistinct, NEW d \in Clients
    PROVE  Refused(<<d, sent[d] + 1>>)
<1> DEFINE m == <<d, sent[d] + 1>>
<1>1. sent[d] \in Nat /\ m[1] = d /\ m[2] = sent[d] + 1
  BY HubAssumption DEF Types
<1>2. ~Read(m, sent) /\ m # None
  BY <1>1, HubAssumption DEF Read
<1> QED
  BY <1>2 DEF Refused, ControlsAreDistinct, AnswersAreDistinct

LEMMA PlacesStep ==
    ASSUME Types, ControlsAreDistinct, AnswersAreDistinct, [Next]_vars
    PROVE  ControlsAreDistinct' /\ AnswersAreDistinct'
<1>1. /\ Control \in Seq(ControlId) /\ answers \in Seq(ControlId \cup {None})
      /\ inHand \in ControlId \cup {None} /\ None \notin ControlId
  BY HubAssumption DEF Types, ControlId
<1>2. /\ \A k \in DOMAIN Control : Control[k] \in ControlId /\ Read(Control[k], sent')
      /\ \A i \in DOMAIN answers : answers[i] # None =>
            answers[i] \in ControlId /\ Read(answers[i], sent')
      /\ inHand # None => inHand \in ControlId /\ Read(inHand, sent')
  <2>1. \A m \in ControlId : Read(m, sent) => Read(m, sent')
    BY ReadStays
  <2>2. /\ \A k \in DOMAIN Control : Control[k] \in ControlId
        /\ \A i \in DOMAIN answers : answers[i] # None => answers[i] \in ControlId
    BY <1>1
  <2> QED
    BY <1>1, <2>1, <2>2 DEF ControlsAreDistinct, AnswersAreDistinct
<1>3. CASE UNCHANGED <<Control, inHand, answers, sent>>
  BY <1>3 DEF ControlsAreDistinct, AnswersAreDistinct
<1>4. ASSUME NEW d \in Clients, UNCHANGED <<inHand, answers>>,
             sent' = [sent EXCEPT ![d] = sent[d] + 1],
             UNCHANGED Control \/ Control' = Append(Control, <<d, sent[d] + 1>>)
      PROVE  ControlsAreDistinct' /\ AnswersAreDistinct'
  <2> DEFINE m == <<d, sent[d] + 1>>
  <2>1. Refused(m)
    BY NextIsNew
  <2>2. m \in Clients \X Nat /\ Read(m, sent')
    BY <1>4, HubAssumption DEF Types, Read
  <2> HIDE DEF m
  <2>3. CASE UNCHANGED Control
    BY <1>2, <1>4, <2>3 DEF ControlsAreDistinct, AnswersAreDistinct
  <2>4. CASE Control' = Append(Control, m)
    <3>1. /\ DOMAIN Control' = DOMAIN Control \cup {Len(Control) + 1}
          /\ Control'[Len(Control) + 1] = m
          /\ \A k \in DOMAIN Control : Control'[k] = Control[k]
      BY <1>1, <2>4
    <3>2. ControlsAreDistinct'
      BY <1>2, <1>4, <2>1, <2>2, <3>1 DEF ControlsAreDistinct, Refused
    <3>3. AnswersAreDistinct'
      BY <1>2, <1>4, <2>1, <3>1 DEF AnswersAreDistinct, Refused
    <3> QED
      BY <3>2, <3>3
  <2> QED
    BY <1>4, <2>3, <2>4 DEF m
<1>5. CASE /\ inHand = None /\ Control # <<>>
           /\ inHand' = Head(Control) /\ Control' = Tail(Control)
           /\ UNCHANGED <<answers, sent>>
  <2>1. /\ 1 \in DOMAIN Control /\ inHand' = Control[1]
        /\ \A k \in DOMAIN Control' : /\ k + 1 \in DOMAIN Control /\ k \in Nat \ {0}
                                      /\ Control'[k] = Control[k + 1]
    BY <1>1, <1>5
  <2>2. ControlsAreDistinct'
    BY <1>2, <1>5, <2>1 DEF ControlsAreDistinct
  <2>3. AnswersAreDistinct'
    BY <1>2, <1>5, <2>1 DEF AnswersAreDistinct
  <2> QED
    BY <2>2, <2>3
<1>6. CASE /\ answers' = Append(answers, None) /\ UNCHANGED inHand
           /\ UNCHANGED <<Control, sent>>
  <2>1. /\ DOMAIN answers' = DOMAIN answers \cup {Len(answers) + 1}
        /\ answers'[Len(answers) + 1] = None
        /\ \A k \in DOMAIN answers : answers'[k] = answers[k]
    BY <1>1, <1>6
  <2> QED
    BY <1>6, <2>1 DEF ControlsAreDistinct, AnswersAreDistinct
<1>7. CASE /\ inHand # None /\ answers' = Append(answers, inHand) /\ inHand' = None
           /\ UNCHANGED <<Control, sent>>
  <2>1. /\ DOMAIN answers' = DOMAIN answers \cup {Len(answers) + 1}
        /\ answers'[Len(answers) + 1] = inHand
        /\ \A k \in DOMAIN answers : answers'[k] = answers[k]
    BY <1>1, <1>7
  <2>2. ControlsAreDistinct'
    BY <1>1, <1>2, <1>7 DEF ControlsAreDistinct
  <2>3. AnswersAreDistinct'
    BY <1>7, <2>1 DEF ControlsAreDistinct, AnswersAreDistinct
  <2> QED
    BY <2>2, <2>3
<1> QED
  BY <1>3, <1>4, <1>5, <1>6, <1>7, ControlsStep

LEMMA RefusedStays ==
    ASSUME Types, [Next]_vars, NEW m \in ControlId, Read(m, sent), Refused(m)
    PROVE  Refused(m)'
<1>1. /\ Control \in Seq(ControlId) /\ answers \in Seq(ControlId \cup {None})
      /\ m # None /\ m[2] \in Nat
  BY HubAssumption DEF Types, ControlId
<1>2. CASE UNCHANGED <<Control, inHand, answers>>
  BY <1>2 DEF Refused
<1>3. ASSUME NEW d \in Clients, UNCHANGED <<inHand, answers>>,
             Control' = Append(Control, <<d, sent[d] + 1>>)
      PROVE  Refused(m)'
  <2>1. m # <<d, sent[d] + 1>>
    BY <1>1, HubAssumption DEF Read, Types
  <2>2. \A k \in DOMAIN Control' : \/ k \in DOMAIN Control /\ Control'[k] = Control[k]
                                   \/ Control'[k] = <<d, sent[d] + 1>>
    BY <1>1, <1>3
  <2> QED
    BY <1>3, <2>1, <2>2 DEF Refused
<1>4. CASE /\ Control # <<>> /\ inHand' = Head(Control) /\ Control' = Tail(Control)
           /\ UNCHANGED answers
  <2>1. /\ 1 \in DOMAIN Control /\ inHand' = Control[1]
        /\ \A k \in DOMAIN Control' : k + 1 \in DOMAIN Control /\ Control'[k] = Control[k + 1]
    BY <1>1, <1>4
  <2> QED
    BY <1>4, <2>1 DEF Refused
<1>5. CASE /\ \/ answers' = Append(answers, None) /\ UNCHANGED inHand
              \/ inHand # None /\ answers' = Append(answers, inHand) /\ inHand' = None
           /\ UNCHANGED Control
  <2>1. PICK x \in {None, inHand} : answers' = Append(answers, x)
    BY <1>5
  <2>2. \A i \in DOMAIN answers' : \/ i \in DOMAIN answers /\ answers'[i] = answers[i]
                                   \/ answers'[i] = x
    BY <1>1, <2>1
  <2> QED
    BY <1>1, <1>5, <2>2 DEF Refused
<1> QED
  BY <1>2, <1>3, <1>4, <1>5, ControlsStep

LEMMA RefusedStep ==
    ASSUME Types, Counted, Made, ControlsAreDistinct, AnswersAreDistinct,
           RefusedIsForgotten, [Next]_vars
    PROVE  RefusedIsForgotten'
<1> SUFFICES ASSUME NEW c \in Clients
             PROVE  (\A i \in DOMAIN Stream(c) :
                        Stream(c)[i].src = c => Refused(<<c, Stream(c)[i].n>>))'
  BY DEF RefusedIsForgotten
<1> DEFINE new == Stream(c)'
<1>1. c \notin Casters /\ sent[c] \in 0 .. MaxControls /\ MaxControls \in Nat
  BY HubAssumption DEF Casters, Types
<1>2. \A i \in DOMAIN Stream(c) : Stream(c)[i].src = c => Stream(c)[i].n \in 1 .. sent[c]
  BY <1>1 DEF Made, MadeFor
<1>3. \A n \in 1 .. sent[c] : Refused(<<c, n>>) => Refused(<<c, n>>)'
  BY <1>1, RefusedStays DEF ControlId, Read
<1>4. CASE \A i \in DOMAIN new : \E j \in DOMAIN Stream(c) : new[i] = Stream(c)[j]
  <2>1. \A i \in DOMAIN new : \A n : new[i].src = c /\ n = new[i].n => Refused(<<c, n>>)'
    BY <1>2, <1>3, <1>4 DEF RefusedIsForgotten
  <2> QED
    BY <2>1
<1>5. ASSUME NEW e \in AnyEvent, new = Append(Stream(c), e),
             e.src = c => Refused(<<c, e.n>>)'
      PROVE  (\A i \in DOMAIN Stream(c) :
                  Stream(c)[i].src = c => Refused(<<c, Stream(c)[i].n>>))'
  <2>1. \A i \in DOMAIN new : new[i] = e \/ \E j \in DOMAIN Stream(c) : new[i] = Stream(c)[j]
    BY <1>5, StreamType
  <2>2. \A i \in DOMAIN new : \A n : new[i].src = c /\ n = new[i].n => Refused(<<c, n>>)'
    BY <1>2, <1>3, <1>5, <2>1 DEF RefusedIsForgotten
  <2> QED
    BY <2>2
<1>6. CASE Within(new, Stream(c))
  BY <1>4, <1>6 DEF Within
<1>7. ASSUME NEW s \in Casters, bcast[s].evt \in AnyEvent, bcast[s].evt.src = s,
             new = Append(Stream(c), bcast[s].evt)
      PROVE  (\A i \in DOMAIN Stream(c) :
                  Stream(c)[i].src = c => Refused(<<c, Stream(c)[i].n>>))'
  BY <1>1, <1>5, <1>7
<1>8. ASSUME Receive(c), UNCHANGED Control, new = Append(Stream(c), Event(c, sent[c] + 1))
      PROVE  (\A i \in DOMAIN Stream(c) :
                  Stream(c)[i].src = c => Refused(<<c, Stream(c)[i].n>>))'
  <2>1. Event(c, sent[c] + 1) \in AnyEvent
    BY <1>1 DEF Event, AnyEvent
  <2>2. PICK e \in AnyEvent, n \in Nat : e = Event(c, sent[c] + 1) /\ n = sent[c] + 1 /\ e.n = n
    BY <1>1, <2>1 DEF Event
  <2>3. Refused(<<c, n>>)
    BY <2>2, NextIsNew
  <2>4. Refused(<<c, n>>)'
    BY <1>8, <2>3 DEF Refused, Receive
  <2>5. e.src = c => Refused(<<c, e.n>>)'
    BY <2>2, <2>4
  <2> QED
    BY <1>5, <1>8, <2>2, <2>5
<1>9. \A s \in Casters : bcast[s] # None => bcast[s].evt \in AnyEvent /\ bcast[s].evt.src = s
  <2> SUFFICES ASSUME NEW s \in Casters, bcast[s] # None
               PROVE  bcast[s].evt \in AnyEvent /\ bcast[s].evt.src = s
    OBVIOUS
  <2>1. bcast[s] \in Offers /\ bcast[s].evt = Event(s, count[s])
    BY DEF Types, Counted
  <2> QED
    BY <2>1 DEF Offers, Event
<1> QED
  BY <1>6, <1>7, <1>8, <1>9, StreamStep DEF Offer

-----------------------------------------------------------------------------
(* The theorems.                                                           *)

LEMMA InitInv == Init => IInv
<1> SUFFICES ASSUME Init
             PROVE  IInv
  OBVIOUS
<1> USE DEF Init
<1>1. Types
  <2>1. At("off") \in Writers
    BY DEF At, Writers
  <2> QED
    BY <2>1, HubAssumption DEF Types
<1>2. ClosedMeansGone
  BY DEF ClosedMeansGone
<1>3. Counted
  BY HubAssumption DEF Counted, Casters
<1>4. \A c \in Clients : DOMAIN Stream(c) = {}
  <2> SUFFICES ASSUME NEW c \in Clients
               PROVE  DOMAIN Stream(c) = {}
    OBVIOUS
  <2>1. out[c] = <<>> /\ Held(c) = <<>> /\ send[c] = <<>>
    BY DEF Held, At
  <2>2. Len(Stream(c)) = 0
    BY <1>1, <2>1, StreamIs, StreamType, Parts
  <2> QED
    BY <1>1, <2>2, StreamType
<1>5. Made /\ StreamsAreOrdered /\ RefusedIsForgotten
  BY <1>4 DEF Made, StreamsAreOrdered, RefusedIsForgotten
<1>6. ControlsAreDistinct /\ AnswersAreDistinct
  BY DEF ControlsAreDistinct, AnswersAreDistinct
<1> QED
  BY <1>1, <1>2, <1>3, <1>5, <1>6 DEF IInv

LEMMA InvStep == IInv /\ [Next]_vars => IInv'
BY TypesStep, ClosedStep, CountedStep, StreamsStep, PlacesStep, RefusedStep DEF IInv

(* The invariant holds in every state.                                     *)
THEOREM InductiveInvariant == Spec => []IInv
BY InitInv, InvStep, PTL DEF Spec

\* The events in a stream are those of TypeOK.
LEMMA StreamEvents ==
    ASSUME Types, Counted, Made, NEW c \in Clients
    PROVE  \A i \in DOMAIN Stream(c) : Stream(c)[i] \in Events
<1> SUFFICES ASSUME NEW i \in DOMAIN Stream(c)
             PROVE  Stream(c)[i] \in Events
  OBVIOUS
<1>1. PICK e \in AnyEvent : e = Stream(c)[i]
  BY StreamType
<1>2. MadeFor(c, e)
  BY <1>1 DEF Made
<1>3. CASE e.src = c /\ e.n \in 1 .. sent[c]
  <2>1. e.n \in 1 .. MaxControls
    BY <1>3, HubAssumption DEF Types
  <2>2. e \in [src : Clients, n : 1 .. MaxControls]
    BY <1>1, <1>3, <2>1 DEF AnyEvent
  <2> QED
    BY <1>1, <2>2 DEF Events
<1>4. CASE e.src \in Sources /\ e.n \in 1 .. count[e.src]
  <2>1. e.n \in 1 .. MaxEvents
    <3>1. count[e.src] \in Nat /\ count[e.src] <= MaxEvents
      BY <1>4 DEF Types, Counted, Casters
    <3> QED
      BY <1>4, <3>1, HubAssumption
  <2>2. e \in [src : Sources, n : 1 .. MaxEvents]
    BY <1>1, <1>4, <2>1 DEF AnyEvent
  <2> QED
    BY <1>1, <2>2 DEF Events
<1>5. CASE e.src = Bot /\ e.n \in 1 .. count[Bot]
  <2>1. e \in [src : {Bot}, n : 1 .. Len(answers)]
    BY <1>1, <1>5 DEF AnyEvent, Counted
  <2> QED
    BY <1>1, <2>1 DEF Events
<1> QED
  BY <1>2, <1>3, <1>4, <1>5 DEF MadeFor, Casters

LEMMA InvTypeOK == IInv => TypeOK
<1> SUFFICES ASSUME IInv
             PROVE  TypeOK
  OBVIOUS
<1>1. Types /\ Counted /\ Made
  BY DEF IInv
<1>2. \A s \in Casters :
          /\ count[s] \in Nat
          /\ bcast[s] # None => /\ bcast[s].evt = Event(s, count[s])
                                /\ bcast[s].todo \in (SUBSET Clients) \ {{}}
  BY <1>1 DEF Types, Counted, Offers
<1>3. ASSUME NEW c \in Clients
      PROVE  /\ send[c] \in Seq(Events) /\ Len(send[c]) <= SendCap
             /\ writer[c] \in [at : {"off", "idle", "done"}]
                              \cup [at : {"write"}, evt : Events]
             /\ out[c] \in Seq(Events)
  <2>1. out[c] \in Seq(AnyEvent) /\ Held(c) \in Seq(AnyEvent) /\ send[c] \in Seq(AnyEvent)
    BY <1>1, StreamType
  <2>2. \A i \in DOMAIN Stream(c) : Stream(c)[i] \in Events
    BY <1>1, StreamEvents
  <2>3. /\ \A i \in DOMAIN out[c] : out[c][i] \in Events
        /\ \A i \in DOMAIN Held(c) : Held(c)[i] \in Events
        /\ \A i \in DOMAIN send[c] : send[c][i] \in Events
    <3>1. PICK a \in Seq(AnyEvent), h \in Seq(AnyEvent), q \in Seq(AnyEvent) :
              a = out[c] /\ h = Held(c) /\ q = send[c]
      BY <2>1
    <3>2. Stream(c) = (a \o h) \o q
      BY <3>1, StreamIs
    <3>3. PICK s : s = Stream(c)
      OBVIOUS
    <3>4. /\ \A i \in DOMAIN a : i \in DOMAIN s /\ s[i] = a[i]
          /\ \A i \in DOMAIN h : i + Len(a) \in DOMAIN s /\ s[i + Len(a)] = h[i]
          /\ \A i \in DOMAIN q : /\ i + Len(a) + Len(h) \in DOMAIN s
                                 /\ s[i + Len(a) + Len(h)] = q[i]
      BY <3>2, <3>3, Parts
    <3> QED
      BY <2>2, <3>1, <3>3, <3>4
  <2>4. writer[c].at = "write" => writer[c].evt \in Events
    BY <2>3 DEF Held
  <2>5. writer[c] \in [at : {"off", "idle", "done"}] \cup [at : {"write"}, evt : Events]
    BY <1>1, <2>4 DEF Types, Writers
  <2>6. send[c] \in Seq(Events) /\ out[c] \in Seq(Events)
    BY <2>1, <2>3
  <2> QED
    BY <1>1, <2>5, <2>6 DEF Types
<1> QED
  BY <1>1, <1>2, <1>3 DEF Types, TypeOK

\* Two events that answer the same message are one.
LEMMA InvOneAnswer == IInv => OneAnswerPerControl
<1> SUFFICES ASSUME IInv, NEW c \in Clients, NEW d \in Clients,
                    NEW i \in DOMAIN Stream(c), NEW j \in DOMAIN Stream(d),
                    AnswerTo(Stream(c)[i]) # None
             PROVE  /\ AnswerTo(Stream(c)[i]) = AnswerTo(Stream(d)[j]) =>
                           Stream(c)[i] = Stream(d)[j]
                    /\ AnswerTo(Stream(c)[i]) # inHand
                    /\ \A k \in DOMAIN Control : Control[k] # AnswerTo(Stream(c)[i])
  BY DEF OneAnswerPerControl
<1>1. PICK e \in AnyEvent, f \in AnyEvent : e = Stream(c)[i] /\ f = Stream(d)[j]
  BY StreamType DEF IInv
<1>2. ASSUME NEW b \in Clients, NEW k \in DOMAIN Stream(b), NEW g \in AnyEvent,
             g = Stream(b)[k], AnswerTo(g) # None
      PROVE  \/ /\ g.src = b /\ AnswerTo(g) = <<b, g.n>> /\ Refused(<<b, g.n>>)
             \/ /\ g.src = Bot /\ g.n \in DOMAIN answers /\ AnswerTo(g) = answers[g.n]
  <2>1. MadeFor(b, g)
    BY <1>2 DEF IInv, Made
  <2>2. CASE g.src = b
    <3>1. AnswerTo(g) = <<b, g.n>>
      BY <2>2, HubAssumption DEF AnswerTo
    <3>2. Refused(<<b, g.n>>)
      BY <1>2, <2>2 DEF IInv, RefusedIsForgotten
    <3> QED
      BY <2>2, <3>1, <3>2
  <2>3. CASE g.src = Bot
    <3>1. g.n \in 1 .. Len(answers)
      BY <2>1, <2>3, HubAssumption DEF MadeFor, IInv, Counted
    <3>2. DOMAIN answers = 1 .. Len(answers)
      BY DEF IInv, Types
    <3>3. AnswerTo(g) = answers[g.n]
      BY <2>3, HubAssumption DEF AnswerTo
    <3> QED
      BY <2>3, <3>1, <3>2, <3>3
  <2>4. CASE g.src \in Sources
    BY <1>2, <2>4, HubAssumption DEF AnswerTo
  <2> QED
    BY <2>1, <2>2, <2>3, <2>4 DEF MadeFor, Casters
<1>3. AnswerTo(e) # inHand /\ \A k \in DOMAIN Control : Control[k] # AnswerTo(e)
  BY <1>1, <1>2 DEF Refused, IInv, AnswersAreDistinct
<1>4. ASSUME AnswerTo(e) = AnswerTo(f)
      PROVE  e.src = f.src /\ e.n = f.n
  <2>1. \/ e.src = c /\ AnswerTo(e) = <<c, e.n>> /\ Refused(<<c, e.n>>)
        \/ e.src = Bot /\ e.n \in DOMAIN answers /\ AnswerTo(e) = answers[e.n]
    BY <1>1, <1>2
  <2>2. \/ f.src = d /\ AnswerTo(f) = <<d, f.n>> /\ Refused(<<d, f.n>>)
        \/ f.src = Bot /\ f.n \in DOMAIN answers /\ AnswerTo(f) = answers[f.n]
    BY <1>1, <1>2, <1>4
  <2>3. \A k, l \in DOMAIN answers : answers[k] # None /\ answers[k] = answers[l] => k = l
    BY DEF IInv, AnswersAreDistinct
  <2>4. \A m, k : Refused(m) /\ k \in DOMAIN answers => answers[k] # m
    BY DEF Refused
  <2> QED
    BY <1>1, <1>4, <2>1, <2>2, <2>3, <2>4
<1> QED
  BY <1>1, <1>3, <1>4 DEF AnyEvent

(* Types, and no channel beyond its capacity, whatever the capacities are. *)
THEOREM Typed == Spec => []TypeOK
BY InvTypeOK, InductiveInvariant, PTL

(* The deferred function of ServeWS closes the channel of the client it    *)
(* takes from the map, and only that, however often clients come and go.   *)
THEOREM GoneIsClosed == Spec => []ClosedMeansGone
<1>1. IInv => ClosedMeansGone
  BY DEF IInv
<1> QED
  BY <1>1, InductiveInvariant, PTL

(* Broadcasts of any number of goroutines reach a client in the order in   *)
(* which each of them made its events, none twice, whatever is dropped.    *)
THEOREM OrderedStreams == Spec => []StreamsAreOrdered
<1>1. IInv => StreamsAreOrdered
  BY DEF IInv
<1> QED
  BY <1>1, InductiveInvariant, PTL

(* No control message is answered twice or before the bot has taken it:    *)
(* what the reader refuses never comes to the bot.                         *)
THEOREM OneAnswer == Spec => []OneAnswerPerControl
BY InvOneAnswer, InductiveInvariant, PTL

=============================================================================
