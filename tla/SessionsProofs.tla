--------------------------- MODULE SessionsProofs ---------------------------
(***************************************************************************)
(* Theorems about Sessions, for any persons, goroutines, sessions and      *)
(* messages: no state of a session is used for two messages, a session is  *)
(* at one address and only advances, and what counts as migrated is moved; *)
(* with the exceptions that Sessions names, and no others.                 *)
(***************************************************************************)
EXTENDS Sessions, TLAPS

-----------------------------------------------------------------------------
(* The inductive invariant, in named parts.                                *)

Hand  == [addr : Address, rec : Record]
Entry == [dirty : BOOLEAN, rec : Record]
Jobs  == [kind : {"work"}, cached : BOOLEAN, hand : Hand \cup {Nothing},
          outbox : SUBSET Session, ready : SUBSET Session,
          cache : [Address -> Entry \cup {Absent}]]
Ops   == {Idle} \cup Jobs \cup [kind : {"migrate"}, person : Persons]

Types ==
    /\ rows \in [Address -> Record]
    /\ migrated \in SUBSET Persons
    /\ op \in [Threads -> Ops]
    /\ made \in 0 .. MaxMade
    /\ used \in SUBSET Session /\ again \in SUBSET Session
    /\ mixed \in SUBSET Persons /\ left \in SUBSET Persons
    /\ \A t \in Threads, a \in Address :
          op[t].kind = "work" /\ ~op[t].cached => op[t].cache[a] = Absent

\* The copies of sessions: what t has of the address a in the cache of its
\* context and in the hands of libsignal.
Working(t)   == op[t].kind = "work"
Cached(t, a) == Working(t) /\ op[t].cache[a] # Absent
InHand(t, a) == Working(t) /\ op[t].hand # Nothing /\ op[t].hand.addr = a

CopyOf(t, a, r) == \/ Cached(t, a) /\ op[t].cache[a].rec = r
                   \/ InHand(t, a) /\ op[t].hand.rec = r

\* r is the session of a, in the table or in a copy.
At(a, r) == rows[a] = r \/ \E t \in Threads : CopyOf(t, a, r)

\* A message of t was encrypted with s; and the session that follows s is stored.
UsedBy(t, s)  == Working(t) /\ s \in op[t].ready \cup op[t].outbox
SpentBy(t, s) == Working(t) /\ (s \in op[t].ready \/ (s \in op[t].outbox /\ ~op[t].cached))

Known(s) == s \in used \/ \E t \in Threads : UsedBy(t, s)
Spent(s) == s \in used \/ \E t \in Threads : SpentBy(t, s)

\* The identity of a session tells its person, ...
OneOwner ==
    /\ \A a \in Address, r \in Session : At(a, r) => r.who = a[1] /\ r.id <= made
    /\ \A s \in Session : Known(s) => s.id <= made
    /\ \A s \in Session, a \in Address, r \in Session :
          Known(s) /\ At(a, r) /\ s.id = r.id => s.who = r.who

\* ... and its address, unless the person is mixed: all copies and the row.
OneHome ==
    \A a, b \in Address : \A r, s \in Session :
        At(a, r) /\ At(b, s) /\ r.id = s.id =>
            a = b \/ (a[1] = b[1] /\ a[1] \in mixed)

\* What is in hand is what the cache has.
HandFits(t, a) ==
    InHand(t, a) /\ Cached(t, a) => op[t].hand.rec = op[t].cache[a].rec

\* A copy is what the row still is, or was until it was deleted; a dirty one
\* is ahead of it.
Current(t, a) ==
    /\ Cached(t, a) /\ ~op[t].cache[a].dirty =>
          rows[a] \in {op[t].cache[a].rec, NoSession}
    /\ Cached(t, a) /\ op[t].cache[a].dirty /\ rows[a] # NoSession =>
          /\ rows[a].id = op[t].cache[a].rec.id
          /\ rows[a].state < op[t].cache[a].rec.state
    /\ InHand(t, a) /\ ~Cached(t, a) => rows[a] \in {op[t].hand.rec, NoSession}

\* A context has the session that follows each state it encrypted with,
\* dirty, until it is flushed.
Covered(t) ==
    /\ \A a \in Address :
          Cached(t, a) /\ op[t].cache[a].dirty => op[t].cache[a].rec # NoSession
    /\ \A s \in Session :
          Working(t) /\ op[t].cached /\ s \in op[t].outbox =>
              \E a \in Address : /\ Cached(t, a) /\ op[t].cache[a].dirty
                                 /\ op[t].cache[a].rec.id = s.id
                                 /\ op[t].cache[a].rec.state > s.state

CopiesFit ==
    \A t \in Threads :
        /\ \A a \in Address : HandFits(t, a) /\ (a[1] \notin mixed => Current(t, a))
        /\ Covered(t)

\* Every copy of a session is past the states that are spent.
SpentIsPast ==
    \A s \in Session, a \in Address, r \in Session :
        Spent(s) /\ At(a, r) /\ s.id = r.id => r.state > s.state \/ s.who \in mixed

\* A state that is spent is spent by one goroutine, once, and not used already.
SpentOnce ==
    \A s \in Session : s.who \notin mixed =>
        /\ s \in used => \A t \in Threads : ~UsedBy(t, s)
        /\ \A t, v \in Threads : SpentBy(t, s) /\ UsedBy(v, s) => t = v
        /\ \A t \in Threads : ~(Working(t) /\ s \in op[t].ready /\ s \in op[t].outbox)

\* What the cache of migrated PNs says is so, will be, or went wrong.
Moved(u) == \/ rows[PN(u)] = NoSession
            \/ u \in left
            \/ \E t \in Threads : op[t].kind = "migrate" /\ op[t].person = u

MigratedAreMoved ==
    /\ \A u \in migrated : Moved(u)
    /\ \A t \in Threads : op[t].kind = "migrate" => op[t].person \in migrated
    /\ ret.kind = "migrated" => ret.person \in migrated

IInv ==
    /\ Types
    /\ OneOwner
    /\ OneHome
    /\ CopiesFit
    /\ SpentIsPast
    /\ SpentOnce
    /\ MigratedAreMoved
    /\ StatesAreUsedOnce

-----------------------------------------------------------------------------
(* Types.                                                                  *)

LEMMA AddressParts ==
    ASSUME NEW a \in Address
    PROVE  a[1] \in Persons /\ a[2] \in {"pn", "lid"} /\ a = <<a[1], a[2]>>
BY DEF Address

LEMMA JobParts ==
    ASSUME Types, NEW t \in Threads, Working(t)
    PROVE  /\ op[t] \in Jobs
           /\ op[t].cached \in BOOLEAN
           /\ op[t].hand \in Hand \cup {Nothing}
           /\ op[t].outbox \in SUBSET Session /\ op[t].ready \in SUBSET Session
           /\ op[t].cache \in [Address -> Entry \cup {Absent}]
<1>1. op[t] \in Ops
  BY DEF Types
<1>2. op[t] \in Jobs
  BY <1>1 DEF Ops, Working, Idle
<1> QED
  BY <1>2 DEF Jobs

LEMMA HandParts ==
    ASSUME Types, NEW t \in Threads, Working(t), op[t].hand # Nothing
    PROVE  op[t].hand.addr \in Address /\ op[t].hand.rec \in Record
BY JobParts DEF Hand

LEMMA EntryParts ==
    ASSUME Types, NEW t \in Threads, NEW a \in Address, Cached(t, a)
    PROVE  op[t].cache[a].dirty \in BOOLEAN /\ op[t].cache[a].rec \in Record
BY JobParts DEF Cached, Entry

LEMMA SessionParts ==
    ASSUME NEW r \in Session
    PROVE  /\ r.who \in Persons /\ r.id \in 1 .. MaxMade /\ r.state \in 0 .. MaxState
           /\ r \in Record /\ r # NoSession
BY SessionsAssumption DEF Session, Record

LEMMA MixedType ==
    ASSUME Types, NEW t \in Threads, mixed' = mixed \cup Mixing(t)
    PROVE  mixed' \in SUBSET Persons /\ mixed \subseteq mixed'
<1>1. Mixing(t) \subseteq Persons
  BY AddressParts DEF Mixing
<1> QED
  BY <1>1 DEF Types

\* One goroutine goes on to p.
Only(t) == \A s \in Threads : s # t => op'[s] = op[s]

LEMMA OpStep ==
    ASSUME Types, NEW t \in Threads, NEW p, op' = [op EXCEPT ![t] = p]
    PROVE  op'[t] = p /\ Only(t)
BY DEF Types, Only

LEMMA TypesStep ==
    ASSUME Types, NEW t \in Threads, NEW p \in Ops, op' = [op EXCEPT ![t] = p],
           p.kind = "work" /\ ~p.cached => \A a \in Address : p.cache[a] = Absent,
           rows' \in [Address -> Record], migrated' \in SUBSET Persons,
           made' \in 0 .. MaxMade, used' \in SUBSET Session,
           again' \in SUBSET Session, mixed' \in SUBSET Persons,
           left' \in SUBSET Persons
    PROVE  Types'
<1>1. op' \in [Threads -> Ops]
  BY DEF Types
<1>2. op'[t] = p /\ Only(t)
  BY OpStep
<1>3. ASSUME NEW s \in Threads, NEW a \in Address, op'[s].kind = "work", ~op'[s].cached
      PROVE  op'[s].cache[a] = Absent
  <2>1. CASE s = t
    BY <1>2, <1>3, <2>1
  <2>2. CASE s # t
    BY <1>2, <1>3, <2>2 DEF Types, Only
  <2> QED
    BY <2>1, <2>2
<1> QED
  BY <1>1, <1>3 DEF Types

-----------------------------------------------------------------------------
(* What a step of one goroutine leaves as it is.                           *)

LEMMA Holding ==
    ASSUME NEW s, NEW a, NEW r, CopyOf(s, a, r)
    PROVE  Holds(s, a)
BY DEF CopyOf, Cached, InHand, Holds, Working

\* The definition of `mixed'.
LEMMA MixedBy ==
    ASSUME NEW t \in Threads, NEW s \in Threads, s # t, mixed' = mixed \cup Mixing(t),
           NEW a \in Address, Holds(s, a), rows'[a] # rows[a]
    PROVE  a[1] \in mixed'
BY DEF Mixing

LEMMA AtStep ==
    ASSUME NEW t \in Threads, Only(t), NEW a, NEW r, At(a, r)'
    PROVE  rows'[a] = r \/ CopyOf(t, a, r)' \/ \E s \in Threads \ {t} : CopyOf(s, a, r)
<1>1. ASSUME NEW s \in Threads, s # t, CopyOf(s, a, r)'
      PROVE  CopyOf(s, a, r)
  BY <1>1 DEF Only, CopyOf, Cached, InHand, Working
<1> QED
  BY <1>1 DEF At

LEMMA UsedStep ==
    ASSUME NEW t \in Threads, Only(t), NEW v \in Threads, v # t, NEW s
    PROVE  (UsedBy(v, s)' <=> UsedBy(v, s)) /\ (SpentBy(v, s)' <=> SpentBy(v, s))
BY DEF Only, UsedBy, SpentBy, Working

LEMMA KnownStep ==
    ASSUME NEW t \in Threads, Only(t), NEW s
    PROVE  /\ Known(s)' => s \in used' \/ UsedBy(t, s)' \/ Known(s)
           /\ Spent(s)' => s \in used' \/ SpentBy(t, s)' \/ Spent(s)
BY UsedStep DEF Known, Spent

LEMMA SpentIsKnown == \A s : Spent(s) => Known(s)
BY DEF Spent, Known, SpentBy, UsedBy

\* What the other goroutines have stays right: where the row changes they
\* are mixed.
LEMMA OthersFit ==
    ASSUME CopiesFit, NEW t \in Threads, Only(t), mixed' = mixed \cup Mixing(t),
           NEW s \in Threads, s # t
    PROVE  /\ \A a \in Address : HandFits(s, a)' /\ (a[1] \notin mixed' => Current(s, a)')
           /\ Covered(s)'
<1>1. op'[s] = op[s]
  BY DEF Only
<1>2. \A a : /\ Cached(s, a)' <=> Cached(s, a)
             /\ InHand(s, a)' <=> InHand(s, a)
  BY <1>1 DEF Cached, InHand, Working
<1>3. Covered(s)'
  BY <1>1, <1>2 DEF CopiesFit, Covered, Working
<1>4. ASSUME NEW a \in Address
      PROVE  HandFits(s, a)' /\ (a[1] \notin mixed' => Current(s, a)')
  <2>1. HandFits(s, a)'
    BY <1>1, <1>2 DEF CopiesFit, HandFits
  <2>2. ASSUME a[1] \notin mixed' PROVE Current(s, a)'
    <3>1. CASE Holds(s, a)
      <4>1. rows'[a] = rows[a] /\ Current(s, a)
        BY <2>2, <3>1, MixedBy DEF CopiesFit
      <4> QED
        BY <1>1, <1>2, <4>1 DEF Current
    <3>2. CASE ~Holds(s, a)
      BY <1>2, <3>2 DEF Current, Holds, Cached, InHand, Working
    <3> QED
      BY <3>1, <3>2
  <2> QED
    BY <2>1, <2>2
<1> QED
  BY <1>3, <1>4

LEMMA AllFit ==
    ASSUME CopiesFit, NEW t \in Threads, Only(t), mixed' = mixed \cup Mixing(t),
           \A a \in Address : HandFits(t, a)' /\ (a[1] \notin mixed' => Current(t, a)'),
           Covered(t)'
    PROVE  CopiesFit'
BY OthersFit DEF CopiesFit

\* A goroutine that does not work on sessions has no copies.
LEMMA IdleFits ==
    ASSUME NEW t, ~Working(t)'
    PROVE  /\ \A a \in Address : HandFits(t, a)' /\ Current(t, a)'
           /\ Covered(t)'
           /\ \A a, r : ~CopyOf(t, a, r)'
           /\ \A s : ~UsedBy(t, s)' /\ ~SpentBy(t, s)'
BY DEF HandFits, Current, Covered, Cached, InHand, CopyOf, UsedBy, SpentBy

\* Nothing new is known of any session.
LEMMA NothingNew ==
    ASSUME OneOwner, OneHome, SpentIsPast, Types, mixed \subseteq mixed',
           made' = made,
           \A a \in Address, r \in Session : At(a, r)' => At(a, r),
           \A s \in Session : (Known(s)' => Known(s)) /\ (Spent(s)' => Spent(s))
    PROVE  OneOwner' /\ OneHome' /\ SpentIsPast'
<1>1. OneOwner'
  BY DEF OneOwner
<1>2. OneHome'
  BY DEF OneHome
<1>3. SpentIsPast'
  BY DEF SpentIsPast
<1> QED
  BY <1>1, <1>2, <1>3

LEMMA NothingSpent ==
    ASSUME SpentOnce, NEW t \in Threads, Only(t), mixed \subseteq mixed', used' = used,
           \A s \in Session : (UsedBy(t, s)' => UsedBy(t, s))
                              /\ (SpentBy(t, s)' => SpentBy(t, s)),
           \A s \in Session : Working(t)' /\ s \in op'[t].ready /\ s \in op'[t].outbox =>
                              Working(t) /\ s \in op[t].ready /\ s \in op[t].outbox
    PROVE  SpentOnce'
<1> SUFFICES ASSUME NEW s \in Session, s.who \notin mixed'
             PROVE  /\ s \in used => \A v \in Threads : ~UsedBy(v, s)'
                    /\ \A v, w \in Threads : SpentBy(v, s)' /\ UsedBy(w, s)' => v = w
                    /\ \A v \in Threads : ~(Working(v)' /\ s \in op'[v].ready
                                            /\ s \in op'[v].outbox)
  BY DEF SpentOnce
<1>1. \A v \in Threads : (UsedBy(v, s)' => UsedBy(v, s)) /\ (SpentBy(v, s)' => SpentBy(v, s))
  BY UsedStep
<1>2. \A v \in Threads : Working(v)' /\ s \in op'[v].ready /\ s \in op'[v].outbox =>
                         Working(v) /\ s \in op[v].ready /\ s \in op[v].outbox
  BY DEF Only, Working
<1>3. s.who \notin mixed
  OBVIOUS
<1> QED
  BY <1>1, <1>2, <1>3 DEF SpentOnce

\* What was migrated stays so, unless a session of the PN is stored.
LEMMA MovedStays ==
    ASSUME MigratedAreMoved, NEW t \in Threads, Only(t),
           op[t].kind # "migrate", op'[t].kind # "migrate",
           migrated' = migrated, left \subseteq left', ret'.kind # "migrated",
           \A u \in migrated : \/ rows'[PN(u)] \in {NoSession, rows[PN(u)]}
                               \/ u \in left'
    PROVE  MigratedAreMoved'
<1>1. \A v \in Threads : /\ op[v].kind = "migrate" => op'[v] = op[v]
                         /\ op'[v].kind = "migrate" => op'[v] = op[v]
  BY DEF Only
<1>2. ASSUME NEW u \in migrated PROVE Moved(u)'
  <2>1. Moved(u)
    BY DEF MigratedAreMoved
  <2>2. CASE rows[PN(u)] = NoSession
    BY <2>2 DEF Moved, PN
  <2>3. CASE u \in left
    BY <2>3 DEF Moved
  <2>4. CASE \E v \in Threads : op[v].kind = "migrate" /\ op[v].person = u
    BY <1>1, <2>4 DEF Moved
  <2> QED
    BY <2>1, <2>2, <2>3, <2>4 DEF Moved
<1> QED
  BY <1>1, <1>2 DEF MigratedAreMoved

-----------------------------------------------------------------------------
(* The steps.  First those that make nothing new: a copy of what is there, *)
(* a goroutine that ends, messages that are sent.                          *)

LEMMA InitIInv == Init => IInv
<1> SUFFICES ASSUME Init PROVE IInv
  OBVIOUS
<1> USE SessionsAssumption DEF Init, Idle
<1>1. Types
  BY DEF Types, Ops, Record
<1>2. \A a \in Address, r \in Session : ~At(a, r)
  BY SessionParts DEF At, CopyOf, Cached, InHand, Working
<1>3. \A s : ~Known(s) /\ ~Spent(s)
  BY DEF Known, Spent, UsedBy, SpentBy, Working
<1>4. OneOwner /\ OneHome /\ SpentIsPast
  BY <1>2, <1>3 DEF OneOwner, OneHome, SpentIsPast
<1>5. CopiesFit
  BY DEF CopiesFit, HandFits, Current, Covered, Cached, InHand, Working
<1>6. SpentOnce
  BY DEF SpentOnce, UsedBy, SpentBy, Working
<1>7. MigratedAreMoved /\ StatesAreUsedOnce
  BY DEF MigratedAreMoved, StatesAreUsedOnce, NoReply
<1> QED
  BY <1>1, <1>4, <1>5, <1>6, <1>7 DEF IInv

\* A goroutine that does not work on sessions, or not any more.
LEMMA StepEnds ==
    ASSUME IInv, NEW t \in Threads, mixed' = mixed \cup Mixing(t),
           NEW p \in Ops, p.kind # "work", op' = [op EXCEPT ![t] = p], UNCHANGED <<rows, made, used, again>>,
           migrated' \in SUBSET Persons, left' \in SUBSET Persons
    PROVE  /\ Types' /\ OneOwner' /\ OneHome' /\ CopiesFit' /\ SpentIsPast' /\ SpentOnce'
           /\ StatesAreUsedOnce'
<1> USE DEF IInv
<1>1. op'[t] = p /\ Only(t) /\ ~Working(t)'
  BY OpStep DEF Working
<1>2. mixed' \in SUBSET Persons /\ mixed \subseteq mixed'
  BY MixedType
<1>3. Types'
  BY <1>2, TypesStep DEF Types
<1>4. \A a \in Address, r \in Session : At(a, r)' => At(a, r)
  BY <1>1, AtStep, IdleFits DEF At
<1>5. \A s \in Session : (Known(s)' => Known(s)) /\ (Spent(s)' => Spent(s))
  BY <1>1, KnownStep, IdleFits DEF Known, Spent
<1>6. OneOwner' /\ OneHome' /\ SpentIsPast'
  BY <1>2, <1>4, <1>5, NothingNew
<1>7. CopiesFit'
  BY <1>1, AllFit, IdleFits
<1>8. SpentOnce'
  BY <1>1, <1>2, NothingSpent, IdleFits
<1>9. StatesAreUsedOnce'
  BY <1>2 DEF StatesAreUsedOnce
<1> QED
  BY <1>3, <1>6, <1>7, <1>8, <1>9

LEMMA IdleOp == Idle \in Ops /\ Idle.kind = "idle"
BY DEF Ops, Idle

LEMMA StepLeave ==
    ASSUME IInv, NEW t \in Threads, Leave(t), mixed' = mixed \cup Mixing(t)
    PROVE  IInv'
<1>1. /\ op' = [op EXCEPT ![t] = Idle] /\ ret' = NoReply
      /\ UNCHANGED <<rows, migrated, made, used, again, left>>
      /\ op[t].kind = "work"
  BY DEF Leave, Return
<1>2. op'[t] = Idle /\ Only(t)
  BY <1>1, OpStep DEF IInv
<1>3. MigratedAreMoved'
  BY <1>1, <1>2, IdleOp, MovedStays DEF IInv, NoReply
<1>4. migrated' \in SUBSET Persons /\ left' \in SUBSET Persons
  BY <1>1 DEF IInv, Types
<1> QED
  BY <1>1, <1>3, <1>4, IdleOp, StepEnds DEF IInv

\* A context begins, empty or with sessions from the table.
LEMMA StepBegins ==
    ASSUME IInv, NEW t \in Threads, mixed' = mixed \cup Mixing(t),
           op[t].kind = "idle", NEW p \in Jobs, op' = [op EXCEPT ![t] = p],
           p.hand = Nothing, p.outbox = {}, p.ready = {},
           \A a \in Address : p.cache[a] # Absent =>
              p.cached /\ p.cache[a].rec = rows[a] /\ ~p.cache[a].dirty,
           UNCHANGED <<rows, migrated, made, used, again, left>>, ret' = NoReply
    PROVE  IInv'
<1> USE DEF IInv
<1>1. op'[t] = p /\ Only(t)
  BY OpStep
<1>2. mixed' \in SUBSET Persons /\ mixed \subseteq mixed'
  BY MixedType
<1>3. Types'
  <2>1. p \in Ops
    BY DEF Ops
  <2> QED
    BY <1>2, <2>1, TypesStep DEF Types
<1>4. \A a \in Address, r \in Session : At(a, r)' => At(a, r)
  <2>1. \A a \in Address : \A r : CopyOf(t, a, r)' => rows[a] = r
    BY <1>1 DEF CopyOf, Cached, InHand
  <2> QED
    BY <1>1, <2>1, AtStep DEF At
<1>5. \A s : ~UsedBy(t, s)' /\ ~SpentBy(t, s)'
  BY <1>1 DEF UsedBy, SpentBy
<1>6. \A s \in Session : (Known(s)' => Known(s)) /\ (Spent(s)' => Spent(s))
  BY <1>1, <1>5, KnownStep DEF Known, Spent
<1>7. OneOwner' /\ OneHome' /\ SpentIsPast'
  BY <1>2, <1>4, <1>6, NothingNew
<1>8. CopiesFit'
  <2>1. \A a \in Address : HandFits(t, a)' /\ Current(t, a)'
    BY <1>1 DEF HandFits, Current, Cached, InHand
  <2>2. Covered(t)'
    BY <1>1 DEF Covered, Cached
  <2> QED
    BY <1>1, <2>1, <2>2, AllFit
<1>9. SpentOnce'
  BY <1>1, <1>2, <1>5, NothingSpent
<1>10. MigratedAreMoved'
  <2>1. p.kind = "work"
    BY DEF Jobs
  <2> QED
    BY <1>1, <2>1, MovedStays DEF NoReply
<1>11. StatesAreUsedOnce'
  BY <1>2 DEF StatesAreUsedOnce
<1> QED
  BY <1>3, <1>7, <1>8, <1>9, <1>10, <1>11

LEMMA StepWith ==
    ASSUME IInv, NEW t \in Threads, NEW A \in SUBSET Address, WithCachedSessions(t, A),
           mixed' = mixed \cup Mixing(t)
    PROVE  IInv'
<1> DEFINE cache == [a \in Address |-> IF a \in A THEN [dirty |-> FALSE, rec |-> rows[a]]
                                                  ELSE Absent]
           p == [kind |-> "work", cached |-> TRUE, hand |-> Nothing,
                 outbox |-> {}, ready |-> {}, cache |-> cache]
<1>1. /\ op' = [op EXCEPT ![t] = p] /\ ret' = NoReply /\ op[t].kind = "idle"
      /\ UNCHANGED <<rows, migrated, made, used, again, left>>
  BY DEF WithCachedSessions, Become
<1>2. cache \in [Address -> Entry \cup {Absent}]
  BY DEF IInv, Types, Entry
<1>3. p \in Jobs
  BY <1>2 DEF Jobs
<1>4. \A a \in Address : p.cache[a] # Absent =>
         p.cached /\ p.cache[a].rec = rows[a] /\ ~p.cache[a].dirty
  OBVIOUS
<1>5. p.hand = Nothing /\ p.outbox = {} /\ p.ready = {}
  OBVIOUS
<1> HIDE DEF p
<1> QED
  BY <1>1, <1>3, <1>4, <1>5, StepBegins

LEMMA StepWithout ==
    ASSUME IInv, NEW t \in Threads, WithoutCache(t), mixed' = mixed \cup Mixing(t)
    PROVE  IInv'
<1> DEFINE p == [kind |-> "work", cached |-> FALSE, hand |-> Nothing,
                 outbox |-> {}, ready |-> {}, cache |-> Empty]
<1>1. /\ op' = [op EXCEPT ![t] = p] /\ ret' = NoReply /\ op[t].kind = "idle"
      /\ UNCHANGED <<rows, migrated, made, used, again, left>>
  BY DEF WithoutCache, Become
<1>2. p \in Jobs
  BY DEF Jobs, Empty
<1>3. \A a \in Address : p.cache[a] = Absent
  BY DEF Empty
<1>4. p.hand = Nothing /\ p.outbox = {} /\ p.ready = {}
  OBVIOUS
<1> HIDE DEF p
<1> QED
  BY <1>1, <1>2, <1>3, <1>4, StepBegins

LEMMA StepLoad ==
    ASSUME IInv, NEW t \in Threads, NEW a \in Address, LoadSession(t, a),
           mixed' = mixed \cup Mixing(t)
    PROVE  IInv'
<1> USE DEF IInv
<1>1. PICK h : h = [addr |-> a, rec |-> Loaded(t, a)]
  OBVIOUS
<1>2. PICK p : p = [op[t] EXCEPT !.hand = h]
  OBVIOUS
<1>3. /\ op' = [op EXCEPT ![t] = p] /\ ret' = NoReply
      /\ Working(t) /\ op[t].hand = Nothing
      /\ UNCHANGED <<rows, migrated, made, used, again, left>>
  BY <1>1, <1>2 DEF LoadSession, Become, Working
<1>4. Loaded(t, a) \in Record
  BY <1>3, EntryParts DEF Loaded, Cached, Types
<1>5. h \in Hand /\ h.addr = a /\ h.rec = Loaded(t, a) /\ h # Nothing
  BY <1>1, <1>4, SessionsAssumption DEF Hand
<1>6. /\ p \in Jobs /\ p.kind = "work" /\ p.hand = h /\ p.cached = op[t].cached
      /\ p.outbox = op[t].outbox /\ p.ready = op[t].ready /\ p.cache = op[t].cache
  BY <1>2, <1>3, <1>5, JobParts DEF Jobs
<1>7. op'[t] = p /\ Only(t)
  BY <1>3, OpStep
<1>8. mixed' \in SUBSET Persons /\ mixed \subseteq mixed'
  BY MixedType
<1>9. Types'
  <2>1. p \in Ops
    BY <1>6 DEF Ops
  <2>2. ~p.cached => \A b \in Address : p.cache[b] = Absent
    BY <1>3, <1>6 DEF Types, Working
  <2> QED
    BY <1>3, <1>8, <2>1, <2>2, TypesStep DEF Types
<1>10. \A b : /\ Cached(t, b)' <=> Cached(t, b)
              /\ InHand(t, b)' <=> b = a
  BY <1>3, <1>5, <1>6, <1>7 DEF Cached, InHand, Working
<1>11. \A b \in Address, r \in Session : At(b, r)' => At(b, r)
  <2>1. ASSUME NEW b \in Address, NEW r \in Session, CopyOf(t, b, r)'
        PROVE  At(b, r)
    <3>1. CASE Cached(t, b) /\ op[t].cache[b].rec = r
      BY <3>1 DEF At, CopyOf
    <3>2. CASE b = a /\ Loaded(t, a) = r
      BY <1>3, <3>2 DEF At, CopyOf, Loaded, Cached
    <3> QED
      BY <1>5, <1>6, <1>7, <1>10, <2>1, <3>1, <3>2 DEF CopyOf
  <2> QED
    BY <1>3, <1>7, <2>1, AtStep DEF At
<1>12. \A s : /\ UsedBy(t, s)' <=> UsedBy(t, s)
              /\ SpentBy(t, s)' <=> SpentBy(t, s)
  BY <1>3, <1>6, <1>7 DEF UsedBy, SpentBy, Working
<1>13. \A s \in Session : (Known(s)' => Known(s)) /\ (Spent(s)' => Spent(s))
  BY <1>3, <1>7, <1>12, KnownStep DEF Known, Spent
<1>14. OneOwner' /\ OneHome' /\ SpentIsPast'
  BY <1>3, <1>8, <1>11, <1>13, NothingNew
<1>15. CopiesFit'
  <2>1. \A b \in Address : HandFits(t, b)'
    BY <1>5, <1>6, <1>7, <1>10 DEF HandFits, Loaded, Cached
  <2>2. ASSUME NEW b \in Address, b[1] \notin mixed' PROVE Current(t, b)'
    <3>1. Current(t, b)
      BY <1>8, <2>2 DEF CopiesFit
    <3>2. ~Cached(t, a) => h.rec = rows[a]
      BY <1>3, <1>5 DEF Loaded, Cached
    <3> QED
      BY <1>3, <1>5, <1>6, <1>7, <1>10, <3>1, <3>2 DEF Current
  <2>3. Covered(t)'
    BY <1>3, <1>6, <1>7, <1>10 DEF CopiesFit, Covered, Working
  <2> QED
    BY <1>7, <2>1, <2>2, <2>3, AllFit
<1>16. SpentOnce'
  BY <1>3, <1>6, <1>7, <1>8, <1>12, NothingSpent
<1>17. MigratedAreMoved'
  BY <1>3, <1>6, <1>7, MovedStays DEF NoReply, Working
<1>18. StatesAreUsedOnce'
  BY <1>3, <1>8 DEF StatesAreUsedOnce
<1> QED
  BY <1>9, <1>14, <1>15, <1>16, <1>17, <1>18

\* What is sent was spent by one goroutine, and by it for the first time.
LEMMA StepSend ==
    ASSUME IInv, NEW t \in Threads, Send(t), mixed' = mixed \cup Mixing(t)
    PROVE  IInv'
<1> USE DEF IInv
<1>1. PICK p : p = [op[t] EXCEPT !.ready = {}]
  OBVIOUS
<1>2. /\ op' = [op EXCEPT ![t] = p] /\ ret' = NoReply /\ Working(t)
      /\ used' = used \cup op[t].ready
      /\ again' = again \cup (used \cap op[t].ready)
      /\ UNCHANGED <<rows, migrated, made, left>>
  BY <1>1 DEF Send, Become, Working
<1>3. /\ p \in Jobs /\ p.kind = "work" /\ p.hand = op[t].hand /\ p.cached = op[t].cached
      /\ p.outbox = op[t].outbox /\ p.ready = {} /\ p.cache = op[t].cache
  BY <1>1, <1>2, JobParts DEF Jobs
<1>4. op'[t] = p /\ Only(t)
  BY <1>2, OpStep
<1>5. mixed' \in SUBSET Persons /\ mixed \subseteq mixed'
  BY MixedType
<1>6. Types'
  <2>1. p \in Ops
    BY <1>3 DEF Ops
  <2>2. ~p.cached => \A b \in Address : p.cache[b] = Absent
    BY <1>2, <1>3 DEF Types, Working
  <2>3. used' \in SUBSET Session /\ again' \in SUBSET Session
    BY <1>2, JobParts DEF Types
  <2> QED
    BY <1>2, <1>5, <2>1, <2>2, <2>3, TypesStep DEF Types
<1>7. \A b : /\ Cached(t, b)' <=> Cached(t, b)
             /\ InHand(t, b)' <=> InHand(t, b)
  BY <1>2, <1>3, <1>4 DEF Cached, InHand, Working
<1>8. \A b \in Address, r \in Session : At(b, r)' => At(b, r)
  <2>1. \A b, r : CopyOf(t, b, r)' => CopyOf(t, b, r)
    BY <1>3, <1>4, <1>7 DEF CopyOf
  <2> QED
    BY <1>2, <1>4, <2>1, AtStep DEF At
<1>9. \A s : /\ UsedBy(t, s)' <=> s \in op[t].outbox
             /\ SpentBy(t, s)' <=> s \in op[t].outbox /\ ~op[t].cached
             /\ UsedBy(t, s) <=> s \in op[t].outbox \cup op[t].ready
             /\ SpentBy(t, s) <=> s \in op[t].ready \/ (s \in op[t].outbox /\ ~op[t].cached)
  BY <1>2, <1>3, <1>4 DEF UsedBy, SpentBy, Working
<1>10. \A s \in Session : (Known(s)' => Known(s)) /\ (Spent(s)' => Spent(s))
  BY <1>2, <1>4, <1>9, KnownStep DEF Known, Spent
<1>11. OneOwner' /\ OneHome' /\ SpentIsPast'
  BY <1>2, <1>5, <1>8, <1>10, NothingNew
<1>12. CopiesFit'
  <2>1. \A b \in Address : HandFits(t, b)'
    BY <1>3, <1>4, <1>7 DEF HandFits, CopiesFit
  <2>2. ASSUME NEW b \in Address, b[1] \notin mixed' PROVE Current(t, b)'
    <3>1. Current(t, b)
      BY <1>5, <2>2 DEF CopiesFit
    <3> QED
      BY <1>2, <1>3, <1>4, <1>7, <3>1 DEF Current
  <2>3. Covered(t)'
    BY <1>2, <1>3, <1>4, <1>7 DEF CopiesFit, Covered, Working
  <2> QED
    BY <1>4, <2>1, <2>2, <2>3, AllFit
<1>13. SpentOnce'
  <2> SUFFICES ASSUME NEW s \in Session, s.who \notin mixed'
               PROVE  /\ s \in used' => \A v \in Threads : ~UsedBy(v, s)'
                      /\ \A v, w \in Threads : SpentBy(v, s)' /\ UsedBy(w, s)' => v = w
                      /\ \A v \in Threads : ~(Working(v)' /\ s \in op'[v].ready
                                              /\ s \in op'[v].outbox)
    BY DEF SpentOnce
  <2>1. /\ s \in used => \A v \in Threads : ~UsedBy(v, s)
        /\ \A v, w \in Threads : SpentBy(v, s) /\ UsedBy(w, s) => v = w
        /\ \A v \in Threads : ~(Working(v) /\ s \in op[v].ready /\ s \in op[v].outbox)
    BY <1>5 DEF SpentOnce
  <2>2. \A v \in Threads : v # t =>
           (UsedBy(v, s)' <=> UsedBy(v, s)) /\ (SpentBy(v, s)' <=> SpentBy(v, s))
    BY <1>4, UsedStep
  <2>3. s \in used' => \A v \in Threads : ~UsedBy(v, s)'
    BY <1>2, <1>9, <2>1, <2>2
  <2>4. \A v, w \in Threads : SpentBy(v, s)' /\ UsedBy(w, s)' => v = w
    BY <1>9, <2>1, <2>2
  <2>5. \A v \in Threads : ~(Working(v)' /\ s \in op'[v].ready /\ s \in op'[v].outbox)
    BY <1>3, <1>4, <2>1 DEF Only, Working
  <2> QED
    BY <2>3, <2>4, <2>5
<1>14. MigratedAreMoved'
  BY <1>2, <1>3, <1>4, MovedStays DEF NoReply, Working
<1>15. StatesAreUsedOnce'
  <2>1. ASSUME NEW s \in used \cap op[t].ready PROVE s.who \in mixed
    <3>1. s \in Session /\ s \in used /\ UsedBy(t, s)
      BY <1>9 DEF Types
    <3> QED
      BY <3>1 DEF SpentOnce
  <2> QED
    BY <1>2, <1>5, <2>1 DEF StatesAreUsedOnce
<1> QED
  BY <1>6, <1>11, <1>12, <1>13, <1>14, <1>15

-----------------------------------------------------------------------------
(* libsignal stores a session: a new one, or the one that follows h.       *)

Follows(r, h, a, S) ==
    \/ /\ h = NoSession /\ S = {}
       /\ r.who = a[1] /\ r.id = made + 1 /\ made' = made + 1
    \/ /\ h \in Session /\ S = {h}
       /\ r.who = h.who /\ r.id = h.id /\ r.state = h.state + 1 /\ made' = made

\* What is in hand is at its address.
LEMMA HandIsAt ==
    ASSUME NEW t \in Threads, NEW a, InHand(t, a)
    PROVE  At(a, op[t].hand.rec)
BY DEF At, CopyOf

\* The identity of what is stored is new, or is that of a session at a.
LEMMA StoreIds ==
    ASSUME OneOwner, OneHome, Types, mixed \subseteq mixed',
           NEW a \in Address, NEW h, h \in Session => At(a, h),
           NEW r \in Session, NEW S, Follows(r, h, a, S),
           \A b \in Address, x \in Session : At(b, x)' => At(b, x) \/ (b = a /\ x = r),
           \A s \in Session : Known(s)' => Known(s) \/ s \in S
    PROVE  /\ OneOwner' /\ OneHome'
           /\ r.who = a[1]
           /\ h = NoSession => /\ \A b \in Address, x \in Session : At(b, x) => x.id # r.id
                               /\ \A s \in Session : Known(s) => s.id # r.id
<1> USE DEF Follows
<1>1. made \in Nat /\ made' \in Nat /\ made <= made'
  BY SessionsAssumption DEF Types
<1>2. \A x \in Session : x.id \in Nat /\ x # NoSession
  BY SessionParts
<1>3. \A b \in Address, x \in Session : At(b, x) => x.who = b[1] /\ x.id <= made
  BY DEF OneOwner
<1>4. \A s \in Session : Known(s) => s.id <= made
  BY DEF OneOwner
<1>5. r.who = a[1] /\ r.id <= made'
  BY <1>1, <1>2, <1>3
<1>6. h = NoSession => /\ \A b \in Address, x \in Session : At(b, x) => x.id # r.id
                       /\ \A s \in Session : Known(s) => s.id # r.id
  BY <1>1, <1>2, <1>3, <1>4
<1>7. ASSUME NEW b \in Address, NEW x \in Session, At(b, x), x.id = r.id
      PROVE  h \in Session /\ At(a, h) /\ x.id = h.id
  BY <1>6, <1>7
<1>8. OneHome'
  <2> SUFFICES ASSUME NEW b \in Address, NEW c \in Address, NEW x \in Session,
                      NEW y \in Session, At(b, x)', At(c, y)', x.id = y.id
               PROVE  b = c \/ (b[1] = c[1] /\ b[1] \in mixed')
    BY DEF OneHome
  <2>1. CASE At(b, x) /\ At(c, y)
    BY <2>1 DEF OneHome
  <2>2. CASE b = a /\ x = r /\ At(c, y)
    BY <1>7, <2>2 DEF OneHome
  <2>3. CASE c = a /\ y = r /\ At(b, x)
    BY <1>7, <2>3 DEF OneHome
  <2> QED
    BY <2>1, <2>2, <2>3
<1>9. OneOwner'
  <2>1. \A b \in Address, x \in Session : At(b, x)' => x.who = b[1] /\ x.id <= made'
    BY <1>1, <1>2, <1>3, <1>5
  <2>2. \A s \in Session : Known(s)' => s.id <= made'
    BY <1>1, <1>2, <1>3, <1>4
  <2>3. ASSUME NEW s \in Session, NEW b \in Address, NEW x \in Session,
               Known(s)', At(b, x)', s.id = x.id
        PROVE  s.who = x.who
    <3>1. CASE Known(s) /\ At(b, x)
      BY <2>3, <3>1 DEF OneOwner
    <3>2. CASE Known(s) /\ b = a /\ x = r
      <4>1. h \in Session /\ At(a, h) /\ h.id = s.id /\ h.who = r.who
        BY <1>6, <2>3, <3>2
      <4> QED
        BY <3>2, <4>1 DEF OneOwner
    <3>3. CASE s \in S /\ At(b, x)
      <4>1. s = h /\ At(a, h)
        BY <3>3
      <4>2. a[1] = b[1]
        BY <2>3, <3>3, <4>1 DEF OneHome
      <4> QED
        BY <1>3, <3>3, <4>1, <4>2
    <3>4. CASE s \in S /\ x = r
      BY <3>4
    <3> QED
      BY <2>3, <3>1, <3>2, <3>3, <3>4
  <2> QED
    BY <2>1, <2>2, <2>3 DEF OneOwner
<1> QED
  BY <1>5, <1>6, <1>8, <1>9

\* Into the cache of a context: the state is not spent before the flush.
LEMMA StoreCached ==
    ASSUME IInv, NEW t \in Threads, mixed' = mixed \cup Mixing(t),
           op[t].cached, NEW a \in Address, InHand(t, a),
           NEW h, h = op[t].hand.rec, NEW r \in Session, NEW S, Follows(r, h, a, S),
           NEW p \in Jobs, op' = [op EXCEPT ![t] = p],
           p.cached, p.hand = Nothing, p.outbox = op[t].outbox \cup S,
           p.ready = op[t].ready,
           NEW e \in Entry, e.dirty, e.rec = r, p.cache = [op[t].cache EXCEPT ![a] = e],
           made' \in 0 .. MaxMade, UNCHANGED <<rows, migrated, used, again, left>>,
           ret' = NoReply
    PROVE  IInv'
<1> USE DEF IInv
<1>1. op'[t] = p /\ Only(t) /\ p.kind = "work" /\ Working(t)
  BY OpStep DEF Jobs, InHand
<1>2. mixed' \in SUBSET Persons /\ mixed \subseteq mixed'
  BY MixedType
<1>3. Types'
  <2>1. p \in Ops
    BY DEF Ops
  <2> QED
    BY <1>2, <2>1, TypesStep DEF Types
<1>4. /\ p.cache[a].dirty /\ p.cache[a].rec = r /\ p.cache[a] # Absent
      /\ \A b \in Address : b # a => p.cache[b] = op[t].cache[b]
  <2>1. op[t].cache \in [Address -> Entry \cup {Absent}]
    BY <1>1, JobParts
  <2>2. e # Absent
    BY SessionsAssumption DEF Entry
  <2> QED
    BY <2>1, <2>2
<1>5. \A b \in Address : /\ Cached(t, b)' <=> (b = a \/ Cached(t, b))
                         /\ ~InHand(t, b)'
  BY <1>1, <1>4 DEF Cached, InHand, Working
<1>6. \A b \in Address, x \in Session : At(b, x)' => At(b, x) \/ (b = a /\ x = r)
  <2>1. \A b \in Address : \A x : CopyOf(t, b, x)' => CopyOf(t, b, x) \/ (b = a /\ x = r)
    BY <1>1, <1>4, <1>5 DEF CopyOf
  <2> QED
    BY <1>1, <2>1, AtStep DEF At
<1>7. \A s : /\ UsedBy(t, s)' <=> (UsedBy(t, s) \/ s \in S)
             /\ SpentBy(t, s)' <=> SpentBy(t, s)
  BY <1>1 DEF UsedBy, SpentBy, Working
<1>8. \A s \in Session : (Known(s)' => Known(s) \/ s \in S) /\ (Spent(s)' => Spent(s))
  BY <1>1, <1>7, KnownStep DEF Known, Spent
<1>9. At(a, h)
  BY HandIsAt
<1>10. /\ OneOwner' /\ OneHome' /\ r.who = a[1]
       /\ h = NoSession => /\ \A b \in Address, x \in Session : At(b, x) => x.id # r.id
                           /\ \A s \in Session : Known(s) => s.id # r.id
  BY <1>2, <1>6, <1>8, <1>9, StoreIds
<1>11. SpentIsPast'
  <2> SUFFICES ASSUME NEW s \in Session, NEW b \in Address, NEW x \in Session,
                      Spent(s), At(b, x)', s.id = x.id, s.who \notin mixed'
               PROVE  x.state > s.state
    BY <1>8 DEF SpentIsPast
  <2>1. CASE At(b, x)
    BY <1>2, <2>1 DEF SpentIsPast
  <2>2. CASE b = a /\ x = r
    <3>1. h \in Session /\ r.id = h.id /\ r.state = h.state + 1
      BY <1>10, <2>2, SpentIsKnown DEF Follows
    <3>2. h.state > s.state
      BY <1>2, <1>9, <2>2, <3>1 DEF SpentIsPast
    <3> QED
      BY <2>2, <3>1, <3>2, SessionParts
  <2> QED
    BY <1>6, <2>1, <2>2
<1>12. CopiesFit'
  <2>1. \A b \in Address : HandFits(t, b)'
    BY <1>5 DEF HandFits
  <2>2. ASSUME NEW b \in Address, b[1] \notin mixed' PROVE Current(t, b)'
    <3>1. Current(t, b) /\ HandFits(t, b)
      BY <1>2, <2>2 DEF CopiesFit
    <3>2. CASE b # a
      BY <1>1, <1>4, <1>5, <3>1, <3>2 DEF Current
    <3>3. CASE b = a
      <4>1. rows[a] \in Record
        BY DEF Types
      <4>2. CASE h = NoSession
        <5>1. rows[a] = NoSession
          BY <3>1, <3>3, <4>2 DEF Current, HandFits, CopiesFit, Covered
        <5> QED
          BY <1>1, <1>4, <1>5, <3>3, <5>1 DEF Current
      <4>3. CASE h \in Session
        <5>1. r.id = h.id /\ r.state = h.state + 1
          BY <4>3, SessionParts DEF Follows
        <5>2. rows[a] # NoSession => rows[a].id = h.id /\ rows[a].state <= h.state
          BY <3>1, <3>3, <4>1, <4>3, EntryParts, SessionParts DEF Current, HandFits, Record
        <5>3. rows[a] # NoSession => rows[a].id = r.id /\ rows[a].state < r.state
          BY <4>1, <4>3, <5>1, <5>2, SessionParts DEF Record
        <5> QED
          BY <1>1, <1>4, <1>5, <3>3, <5>3 DEF Current
      <4> QED
        BY <4>2, <4>3 DEF Follows
    <3> QED
      BY <3>2, <3>3
  <2>3. Covered(t)'
    <3>1. Covered(t) /\ HandFits(t, a)
      BY DEF CopiesFit
    <3>2. ASSUME NEW b \in Address, Cached(t, b)', p.cache[b].dirty
          PROVE  p.cache[b].rec # NoSession
      <4>1. CASE b = a
        BY <1>4, <4>1, SessionParts
      <4>2. CASE b # a
        BY <1>4, <1>5, <3>1, <3>2, <4>2 DEF Covered
      <4> QED
        BY <4>1, <4>2
    <3>3. ASSUME NEW s \in Session, s \in p.outbox
          PROVE  \E b \in Address : /\ Cached(t, b)' /\ p.cache[b].dirty
                                    /\ p.cache[b].rec.id = s.id
                                    /\ p.cache[b].rec.state > s.state
      <4>1. CASE s \in S
        <5>1. s = h /\ r.id = s.id /\ r.state > s.state
          BY <3>3, <4>1, SessionParts DEF Follows
        <5> QED
          BY <1>4, <1>5, <5>1
      <4>2. CASE s \in op[t].outbox
        <5>1. PICK b \in Address : /\ Cached(t, b) /\ op[t].cache[b].dirty
                                   /\ op[t].cache[b].rec.id = s.id
                                   /\ op[t].cache[b].rec.state > s.state
          BY <1>1, <3>1, <4>2 DEF Covered
        <5>2. CASE b # a
          BY <1>4, <1>5, <5>1, <5>2
        <5>3. CASE b = a
          <6>1. h = op[t].cache[a].rec /\ h # NoSession
            BY <3>1, <5>1, <5>3 DEF HandFits, Covered
          <6>2. h \in Session /\ r.id = s.id /\ r.state = h.state + 1 /\ h.state > s.state
            BY <5>1, <5>3, <6>1 DEF Follows
          <6>3. r.state > s.state
            BY <6>2, <3>3, SessionParts
          <6> QED
            BY <1>4, <1>5, <6>2, <6>3
        <5> QED
          BY <5>2, <5>3
      <4> QED
        BY <3>3, <4>1, <4>2
    <3> QED
      BY <1>1, <3>2, <3>3 DEF Covered
  <2> QED
    BY <1>1, <2>1, <2>2, <2>3, AllFit
<1>13. SpentOnce'
  <2> SUFFICES ASSUME NEW s \in Session, s.who \notin mixed'
               PROVE  /\ s \in used => \A v \in Threads : ~UsedBy(v, s)'
                      /\ \A v, w \in Threads : SpentBy(v, s)' /\ UsedBy(w, s)' => v = w
                      /\ \A v \in Threads : ~(Working(v)' /\ s \in op'[v].ready
                                              /\ s \in op'[v].outbox)
    BY DEF SpentOnce
  <2>1. /\ s \in used => \A v \in Threads : ~UsedBy(v, s)
        /\ \A v, w \in Threads : SpentBy(v, s) /\ UsedBy(w, s) => v = w
        /\ \A v \in Threads : ~(Working(v) /\ s \in op[v].ready /\ s \in op[v].outbox)
    BY <1>2 DEF SpentOnce
  <2>2. s \in S => ~Spent(s)
    <3>1. SUFFICES ASSUME s \in S, Spent(s) PROVE FALSE
      OBVIOUS
    <3>2. s = h
      BY <3>1 DEF Follows
    <3>3. s.state > s.state
      BY <1>2, <1>9, <3>1, <3>2 DEF SpentIsPast
    <3> QED
      BY <3>3, SessionParts
  <2>3. \A v \in Threads : /\ SpentBy(v, s)' <=> SpentBy(v, s)
                           /\ UsedBy(v, s)' => UsedBy(v, s) \/ (v = t /\ s \in S)
    BY <1>1, <1>7, UsedStep
  <2>4. s \in used => \A v \in Threads : ~UsedBy(v, s)'
    BY <2>1, <2>2, <2>3 DEF Spent
  <2>5. \A v, w \in Threads : SpentBy(v, s)' /\ UsedBy(w, s)' => v = w
    BY <2>1, <2>2, <2>3 DEF Spent
  <2>6. \A v \in Threads : ~(Working(v)' /\ s \in op'[v].ready /\ s \in op'[v].outbox)
    <3>1. ~(s \in p.ready /\ s \in p.outbox)
      BY <1>1, <2>1, <2>2 DEF Spent, SpentBy
    <3> QED
      BY <1>1, <2>1, <3>1 DEF Only, Working
  <2> QED
    BY <2>4, <2>5, <2>6
<1>14. MigratedAreMoved'
  BY <1>1, MovedStays DEF NoReply, Working
<1>15. StatesAreUsedOnce'
  BY <1>2 DEF StatesAreUsedOnce
<1> QED
  BY <1>3, <1>10, <1>11, <1>12, <1>13, <1>14, <1>15

\* Into the table: who has a copy of the session is mixed from here on, so
\* that no other goroutine spends the state.
LEMMA StoreDirect ==
    ASSUME IInv, NEW t \in Threads, mixed' = mixed \cup Mixing(t),
           ~op[t].cached, NEW a \in Address, InHand(t, a),
           NEW h, h = op[t].hand.rec, NEW r \in Session, NEW S, Follows(r, h, a, S),
           NEW p \in Jobs, op' = [op EXCEPT ![t] = p],
           ~p.cached, p.hand = Nothing, p.outbox = op[t].outbox \cup S,
           p.ready = op[t].ready, p.cache = op[t].cache,
           made' \in 0 .. MaxMade, rows' = [rows EXCEPT ![a] = r],
           UNCHANGED <<migrated, used, again>>,
           left' \in SUBSET Persons, left \subseteq left',
           \A u \in migrated : a = PN(u) => u \in left',
           ret' = NoReply
    PROVE  IInv'
<1> USE DEF IInv
<1>1. op'[t] = p /\ Only(t) /\ p.kind = "work" /\ Working(t)
  BY OpStep DEF Jobs, InHand
<1>2. mixed' \in SUBSET Persons /\ mixed \subseteq mixed'
  BY MixedType
<1>3. \A b \in Address : op[t].cache[b] = Absent
  BY <1>1 DEF Types, Working
<1>4. /\ rows' \in [Address -> Record] /\ rows'[a] = r
      /\ \A b \in Address : b # a => rows'[b] = rows[b]
  BY SessionParts DEF Types
<1>5. Types'
  <2>1. p \in Ops
    BY DEF Ops
  <2> QED
    BY <1>2, <1>3, <1>4, <2>1, TypesStep DEF Types
<1>6. \A b \in Address : ~Cached(t, b)' /\ ~InHand(t, b)' /\ ~Cached(t, b)
  BY <1>1, <1>3 DEF Cached, InHand
<1>7. \A b \in Address, x \in Session :
         At(b, x)' => rows'[b] = x \/ \E v \in Threads \ {t} : CopyOf(v, b, x)
  BY <1>1, <1>6, AtStep DEF CopyOf
<1>8. \A b \in Address, x \in Session : At(b, x)' => At(b, x) \/ (b = a /\ x = r)
  BY <1>4, <1>7 DEF At
<1>9. \A s : /\ UsedBy(t, s)' <=> (UsedBy(t, s) \/ s \in S)
             /\ SpentBy(t, s)' <=> (SpentBy(t, s) \/ s \in S)
  BY <1>1 DEF UsedBy, SpentBy, Working
<1>10. \A s \in Session : /\ Known(s)' => Known(s) \/ s \in S
                          /\ Spent(s)' => Spent(s) \/ s \in S
  BY <1>1, <1>9, KnownStep DEF Known, Spent
<1>11. At(a, h)
  BY HandIsAt
<1>12. /\ OneOwner' /\ OneHome' /\ r.who = a[1]
       /\ h = NoSession => /\ \A b \in Address, x \in Session : At(b, x) => x.id # r.id
                           /\ \A s \in Session : Known(s) => s.id # r.id
  BY <1>2, <1>8, <1>10, <1>11, StoreIds
<1>13. h \in Session => h.who = a[1] /\ r.id = h.id /\ r.state = h.state + 1
  BY <1>11, SessionParts DEF Follows, OneOwner
<1>14. ASSUME a[1] \notin mixed' PROVE \A v \in Threads : Holds(v, a) => v = t
  <2>1. rows[a] \in {h, NoSession}
    BY <1>2, <1>6, <1>14 DEF CopiesFit, Current
  <2>2. rows[a] # r
    BY <1>13, <2>1, SessionParts DEF Follows
  <2> QED
    BY <1>4, <1>14, <2>2, MixedBy
<1>15. \A s \in S : s \in Session /\ s = h /\ s.who = a[1] /\ s.state \in Nat
  BY <1>13, SessionParts DEF Follows
<1>16. \A s \in S : s.who \notin mixed => ~Spent(s)
  BY <1>11, <1>15 DEF SpentIsPast
<1>17. SpentIsPast'
  <2> SUFFICES ASSUME NEW s \in Session, NEW b \in Address, NEW x \in Session,
                      Spent(s)', At(b, x)', s.id = x.id, s.who \notin mixed'
               PROVE  x.state > s.state
    BY DEF SpentIsPast
  <2>1. CASE Spent(s)
    <3>1. CASE At(b, x)
      BY <1>2, <2>1, <3>1 DEF SpentIsPast
    <3>2. CASE b = a /\ x = r
      <4>1. h \in Session /\ r.id = h.id /\ r.state = h.state + 1
        BY <1>12, <1>13, <2>1, <3>2, SpentIsKnown DEF Follows
      <4>2. h.state > s.state
        BY <1>2, <1>11, <2>1, <3>2, <4>1 DEF SpentIsPast
      <4> QED
        BY <3>2, <4>1, <4>2, SessionParts
    <3> QED
      BY <1>8, <3>1, <3>2
  <2>2. CASE s \in S
    <3>1. s = h /\ h \in Session /\ s.who = a[1]
      BY <1>15, <2>2
    <3>2. b = a
      BY <1>2, <1>8, <1>11, <1>13, <3>1 DEF OneHome
    <3>3. x = r
      BY <1>4, <1>7, <1>14, <3>1, <3>2, Holding
    <3> QED
      BY <1>13, <1>15, <2>2, <3>1, <3>3
  <2> QED
    BY <1>10, <2>1, <2>2
<1>18. CopiesFit'
  <2>1. \A b \in Address : HandFits(t, b)' /\ Current(t, b)'
    BY <1>6 DEF HandFits, Current
  <2>2. Covered(t)'
    BY <1>1, <1>6 DEF Covered
  <2> QED
    BY <1>1, <2>1, <2>2, AllFit
<1>19. SpentOnce'
  <2> SUFFICES ASSUME NEW s \in Session, s.who \notin mixed'
               PROVE  /\ s \in used => \A v \in Threads : ~UsedBy(v, s)'
                      /\ \A v, w \in Threads : SpentBy(v, s)' /\ UsedBy(w, s)' => v = w
                      /\ \A v \in Threads : ~(Working(v)' /\ s \in op'[v].ready
                                              /\ s \in op'[v].outbox)
    BY DEF SpentOnce
  <2>1. /\ s \in used => \A v \in Threads : ~UsedBy(v, s)
        /\ \A v, w \in Threads : SpentBy(v, s) /\ UsedBy(w, s) => v = w
        /\ \A v \in Threads : ~(Working(v) /\ s \in op[v].ready /\ s \in op[v].outbox)
    BY <1>2 DEF SpentOnce
  <2>2. s \in S => s \notin used /\ \A v \in Threads : ~SpentBy(v, s)
    BY <1>2, <1>16 DEF Spent
  <2>3. \A v \in Threads : /\ SpentBy(v, s)' => SpentBy(v, s) \/ (v = t /\ s \in S)
                           /\ UsedBy(v, s)' => UsedBy(v, s) \/ (v = t /\ s \in S)
    BY <1>1, <1>9, UsedStep
  <2>4. s \in used => \A v \in Threads : ~UsedBy(v, s)'
    BY <2>1, <2>2, <2>3
  <2>5. ASSUME s \in S, NEW w \in Threads, w # t, UsedBy(w, s)
        PROVE  FALSE
    <3>1. s = h /\ h \in Session /\ a[1] = s.who
      BY <1>15, <2>5
    <3>2. Working(w) /\ op[w].cached /\ s \in op[w].outbox /\ Covered(w)
      BY <2>2, <2>5, JobParts DEF UsedBy, SpentBy, CopiesFit
    <3>3. PICK b \in Address : /\ Cached(w, b) /\ op[w].cache[b].dirty
                               /\ op[w].cache[b].rec.id = s.id
      BY <3>2 DEF Covered
    <3>4. op[w].cache[b].rec \in Session
      BY <3>2, <3>3, EntryParts DEF Covered, Record
    <3>5. CopyOf(w, b, op[w].cache[b].rec)
      BY <3>3 DEF CopyOf
    <3>6. b = a
      BY <1>2, <1>11, <3>1, <3>3, <3>4, <3>5 DEF OneHome, At
    <3> QED
      BY <1>14, <2>5, <3>1, <3>5, <3>6, Holding
  <2>6. \A v, w \in Threads : SpentBy(v, s)' /\ UsedBy(w, s)' => v = w
    BY <2>1, <2>2, <2>3, <2>5
  <2>7. \A v \in Threads : ~(Working(v)' /\ s \in op'[v].ready /\ s \in op'[v].outbox)
    <3>1. ~(s \in p.ready /\ s \in p.outbox)
      BY <1>1, <2>1, <2>2 DEF SpentBy
    <3> QED
      BY <1>1, <2>1, <3>1 DEF Only, Working
  <2> QED
    BY <2>4, <2>6, <2>7
<1>20. MigratedAreMoved'
  <2>1. \A u \in migrated : rows'[PN(u)] \in {NoSession, rows[PN(u)]} \/ u \in left'
    BY <1>4 DEF Types, PN, Address
  <2> QED
    BY <1>1, <2>1, MovedStays DEF NoReply, Working
<1>21. StatesAreUsedOnce'
  BY <1>2 DEF StatesAreUsedOnce
<1> QED
  BY <1>5, <1>12, <1>17, <1>18, <1>19, <1>20, <1>21

LEMMA StepStore ==
    ASSUME IInv, NEW t \in Threads, mixed' = mixed \cup Mixing(t),
           Working(t), op[t].hand # Nothing, NEW r \in Session, NEW S,
           Follows(r, op[t].hand.rec, op[t].hand.addr, S), StoreSession(t, r, S),
           made' \in 0 .. MaxMade, UNCHANGED <<migrated, used, again>>
    PROVE  IInv'
<1> DEFINE a == op[t].hand.addr
           o == [op[t] EXCEPT !.hand = Nothing, !.outbox = @ \cup S]
<1>1. /\ a \in Address /\ InHand(t, a) /\ r \in Record
      /\ Follows(r, op[t].hand.rec, a, S)
  BY HandParts, SessionParts DEF IInv, InHand
<1>2. S \in SUBSET Session
  BY DEF Follows
<1>3. /\ o \in Jobs /\ o.cached = op[t].cached /\ o.hand = Nothing
      /\ o.outbox = op[t].outbox \cup S /\ o.ready = op[t].ready
      /\ o.cache = op[t].cache /\ o.cache \in [Address -> Entry \cup {Absent}]
      /\ o.cached \in BOOLEAN
  BY <1>2, JobParts DEF Jobs, IInv
<1>4. PICK p : p = Put(o, a, r)
  OBVIOUS
<1>5. /\ op' = [op EXCEPT ![t] = p] /\ ret' = NoReply
      /\ rows' = IF o.cached THEN rows ELSE [rows EXCEPT ![a] = r]
      /\ left' = IF ~o.cached /\ a[2] = "pn" /\ a[1] \in migrated
                 THEN left \cup {a[1]} ELSE left
  BY <1>4 DEF StoreSession, Become
<1> HIDE DEF o, a
<1>6. CASE op[t].cached
  <2>1. PICK e : e = [dirty |-> TRUE, rec |-> r]
    OBVIOUS
  <2>2. e \in Entry /\ e.dirty /\ e.rec = r
    BY <1>1, <2>1 DEF Entry
  <2>3. p = [o EXCEPT !.cache[a] = e]
    BY <1>3, <1>4, <1>6, <2>1 DEF Put
  <2>4. /\ p \in Jobs /\ p.cached /\ p.hand = Nothing
        /\ p.outbox = op[t].outbox \cup S /\ p.ready = op[t].ready
        /\ p.cache = [op[t].cache EXCEPT ![a] = e]
    BY <1>1, <1>3, <1>6, <2>2, <2>3 DEF Jobs
  <2>5. UNCHANGED <<rows, migrated, used, again, left>>
    BY <1>3, <1>5, <1>6
  <2> QED
    <3>1. PICK h : h = op[t].hand.rec
      OBVIOUS
    <3>2. /\ IInv /\ t \in Threads /\ mixed' = mixed \cup Mixing(t)
          /\ op[t].cached /\ a \in Address /\ InHand(t, a)
          /\ h = op[t].hand.rec /\ r \in Session /\ Follows(r, h, a, S)
          /\ p \in Jobs /\ op' = [op EXCEPT ![t] = p]
      BY <1>1, <1>5, <1>6, <2>4, <3>1
    <3>3. /\ p.cached /\ p.hand = Nothing /\ p.outbox = op[t].outbox \cup S
          /\ p.ready = op[t].ready
          /\ e \in Entry /\ e.dirty /\ e.rec = r /\ p.cache = [op[t].cache EXCEPT ![a] = e]
          /\ made' \in 0 .. MaxMade /\ UNCHANGED <<rows, migrated, used, again, left>>
          /\ ret' = NoReply
      BY <1>5, <2>2, <2>4, <2>5
    <3> HIDE DEF a
    <3> QED
      BY ONLY <3>2, <3>3, StoreCached
<1>7. CASE ~op[t].cached
  <2>1. p = o
    BY <1>3, <1>4, <1>7 DEF Put
  <2>2. /\ left' \in SUBSET Persons /\ left \subseteq left'
        /\ \A u \in migrated : a = PN(u) => u \in left'
    BY <1>1, <1>3, <1>5, <1>7, AddressParts DEF IInv, Types, PN
  <2> QED
    BY <1>1, <1>3, <1>5, <1>7, <2>1, <2>2, StoreDirect
<1> QED
  BY <1>6, <1>7

LEMMA StepEstablish ==
    ASSUME IInv, NEW t \in Threads, Establish(t), mixed' = mixed \cup Mixing(t)
    PROVE  IInv'
<1>1. PICK r : r = [who |-> op[t].hand.addr[1], id |-> made + 1, state |-> 0]
  OBVIOUS
<1>2. /\ Working(t) /\ op[t].hand # Nothing /\ op[t].hand.rec = NoSession
      /\ made' = made + 1 /\ made < MaxMade /\ made \in 0 .. MaxMade
      /\ StoreSession(t, r, {}) /\ UNCHANGED <<migrated, used, again>>
  BY <1>1 DEF Establish, Working, IInv, Types
<1>3. op[t].hand.addr[1] \in Persons
  BY <1>2, HandParts, AddressParts DEF IInv
<1>4. made + 1 \in 1 .. MaxMade /\ made' \in 0 .. MaxMade /\ 0 \in 0 .. MaxState
  BY <1>2, SessionsAssumption
<1>5. r \in Session
  BY <1>1, <1>3, <1>4 DEF Session
<1>6. Follows(r, op[t].hand.rec, op[t].hand.addr, {})
  BY <1>1, <1>2 DEF Follows
<1> QED
  BY <1>2, <1>4, <1>5, <1>6, StepStore

LEMMA StepEncrypt ==
    ASSUME IInv, NEW t \in Threads, Encrypt(t), mixed' = mixed \cup Mixing(t)
    PROVE  IInv'
<1>1. PICK h : h = op[t].hand.rec
  OBVIOUS
<1>2. PICK r : r = [h EXCEPT !.state = @ + 1]
  OBVIOUS
<1>3. /\ Working(t) /\ op[t].hand # Nothing /\ h # NoSession /\ h.state < MaxState
      /\ StoreSession(t, r, {h}) /\ UNCHANGED <<migrated, made, used, again>>
  BY <1>1, <1>2 DEF Encrypt, Working
<1>4. h \in Session
  BY <1>1, <1>3, HandParts DEF Record, IInv
<1>5. h.state + 1 \in 0 .. MaxState
  BY <1>3, <1>4, SessionParts, SessionsAssumption
<1>6. r \in Session /\ r.who = h.who /\ r.id = h.id /\ r.state = h.state + 1
  BY <1>2, <1>4, <1>5 DEF Session
<1>7. Follows(r, h, op[t].hand.addr, {h}) /\ made' \in 0 .. MaxMade
  BY <1>3, <1>4, <1>6 DEF Follows, IInv, Types
<1> QED
  BY <1>1, <1>3, <1>6, <1>7, StepStore

-----------------------------------------------------------------------------
(* The flush of a context.                                                 *)

\* Where the session is that follows a state that is used and not yet spent.
LEMMA CoveredAt ==
    ASSUME IInv, NEW t \in Threads, NEW s \in Session, UsedBy(t, s), ~SpentBy(t, s),
           s.who \notin mixed
    PROVE  \E c \in Address :
              /\ c[1] = s.who /\ Cached(t, c) /\ op[t].cache[c].dirty
              /\ op[t].cache[c].rec \in Session /\ op[t].cache[c].rec.state > s.state
              /\ \A b \in Address, x \in Session : At(b, x) /\ x.id = s.id => b = c
<1> USE DEF IInv
<1>1. Working(t) /\ op[t].cached /\ s \in op[t].outbox /\ Covered(t)
  BY JobParts DEF UsedBy, SpentBy, CopiesFit
<1>2. PICK c \in Address : /\ Cached(t, c) /\ op[t].cache[c].dirty
                           /\ op[t].cache[c].rec.id = s.id
                           /\ op[t].cache[c].rec.state > s.state
  BY <1>1 DEF Covered
<1>3. op[t].cache[c].rec \in Session
  BY <1>1, <1>2, EntryParts DEF Covered, Record
<1>4. At(c, op[t].cache[c].rec)
  BY <1>2 DEF At, CopyOf
<1>5. Known(s)
  BY DEF Known
<1>6. c[1] = s.who
  BY <1>2, <1>3, <1>4, <1>5 DEF OneOwner
<1> QED
  BY <1>2, <1>3, <1>4, <1>6 DEF OneHome

LEMMA StepFlush ==
    ASSUME IInv, NEW t \in Threads, PutCachedSessions(t), mixed' = mixed \cup Mixing(t)
    PROVE  IInv'
<1> USE DEF IInv
<1>1. PICK p : p = [op[t] EXCEPT !.cache = Empty, !.outbox = {},
                                 !.ready = @ \cup op[t].outbox]
  OBVIOUS
<1>2. /\ op' = [op EXCEPT ![t] = p] /\ ret' = NoReply
      /\ Working(t) /\ op[t].hand = Nothing
      /\ rows' = [b \in Address |-> IF b \in Dirty(t) THEN op[t].cache[b].rec
                                                     ELSE rows[b]]
      /\ left' = left \cup {u \in migrated : PN(u) \in Dirty(t)}
      /\ UNCHANGED <<migrated, made, used, again>>
  BY <1>1 DEF PutCachedSessions, Become, Working
<1>3. /\ p \in Jobs /\ p.kind = "work" /\ p.hand = Nothing
      /\ p.outbox = {} /\ p.ready = op[t].ready \cup op[t].outbox
      /\ \A b \in Address : p.cache[b] = Absent
  BY <1>1, <1>2, JobParts DEF Jobs, Empty
<1>4. op'[t] = p /\ Only(t)
  BY <1>2, OpStep
<1>5. mixed' \in SUBSET Persons /\ mixed \subseteq mixed'
  BY MixedType
<1>6. \A b \in Address : b \in Dirty(t) <=> Cached(t, b) /\ op[t].cache[b].dirty
  BY <1>2 DEF Dirty, Cached
<1>7. \A b \in Dirty(t) : op[t].cache[b].rec \in Session
  BY <1>6, EntryParts DEF Dirty, CopiesFit, Covered, Record
<1>8. rows' \in [Address -> Record]
  BY <1>2, <1>7, SessionParts DEF Types
<1>9. Types'
  <2>1. p \in Ops
    BY <1>3 DEF Ops
  <2>2. left' \in SUBSET Persons
    BY <1>2 DEF Types
  <2> QED
    BY <1>2, <1>3, <1>5, <1>8, <2>1, <2>2, TypesStep DEF Types
<1>10. \A b \in Address : ~Cached(t, b)' /\ ~InHand(t, b)'
  BY <1>3, <1>4 DEF Cached, InHand
<1>11. \A b \in Address, x \in Session :
          At(b, x)' => rows'[b] = x \/ \E v \in Threads \ {t} : CopyOf(v, b, x)
  BY <1>4, <1>10, AtStep DEF CopyOf
<1>12. \A b \in Address, x \in Session : At(b, x)' => At(b, x)
  BY <1>2, <1>6, <1>11 DEF At, CopyOf
<1>13. \A s : /\ UsedBy(t, s)' <=> UsedBy(t, s)
              /\ SpentBy(t, s)' <=> UsedBy(t, s)
  BY <1>2, <1>3, <1>4 DEF UsedBy, SpentBy, Working
<1>14. \A s \in Session : /\ Known(s)' => Known(s)
                          /\ Spent(s)' => Spent(s) \/ UsedBy(t, s)
  BY <1>2, <1>4, <1>13, KnownStep DEF Known, Spent
<1>15. OneOwner'
  BY <1>2, <1>12, <1>14 DEF OneOwner
<1>16. OneHome'
  BY <1>5, <1>12 DEF OneHome
\* What changes in the table is ahead of it, and no other goroutine has it.
<1>17. \A b \in Dirty(t) : b[1] \notin mixed' =>
          /\ rows'[b] = op[t].cache[b].rec
          /\ \A v \in Threads : Holds(v, b) => v = t
  <2> SUFFICES ASSUME NEW b \in Dirty(t), b[1] \notin mixed'
               PROVE  /\ rows'[b] = op[t].cache[b].rec
                      /\ \A v \in Threads : Holds(v, b) => v = t
    OBVIOUS
  <2>1. b \in Address /\ Cached(t, b) /\ op[t].cache[b].dirty
    BY <1>6 DEF Dirty
  <2>2. rows'[b] = op[t].cache[b].rec
    BY <1>2, <2>1
  <2>3. Current(t, b)
    BY <1>5, <2>1 DEF CopiesFit
  <2>4. rows'[b] # rows[b]
    BY <1>7, <2>1, <2>2, <2>3, SessionParts DEF Current
  <2> QED
    BY <2>1, <2>2, <2>4, MixedBy
<1>18. SpentIsPast'
  <2> SUFFICES ASSUME NEW s \in Session, NEW b \in Address, NEW x \in Session,
                      Spent(s)', At(b, x)', s.id = x.id, s.who \notin mixed'
               PROVE  x.state > s.state
    BY DEF SpentIsPast
  <2>1. At(b, x) /\ s.who \notin mixed
    BY <1>5, <1>12
  <2>2. CASE Spent(s)
    BY <2>1, <2>2 DEF SpentIsPast
  <2>3. CASE UsedBy(t, s) /\ ~Spent(s)
    <3>1. ~SpentBy(t, s)
      BY <2>3 DEF Spent
    <3>2. PICK c \in Address :
              /\ c[1] = s.who /\ Cached(t, c) /\ op[t].cache[c].dirty
              /\ op[t].cache[c].rec.state > s.state
              /\ At(b, x) /\ x.id = s.id => b = c
      BY <2>1, <2>3, <3>1, CoveredAt
    <3>3. b = c /\ b \in Dirty(t)
      BY <1>6, <2>1, <3>2
    <3>4. x = op[t].cache[c].rec
      BY <1>11, <1>17, <3>2, <3>3, Holding
    <3> QED
      BY <3>2, <3>4
  <2> QED
    BY <1>14, <2>2, <2>3
<1>19. CopiesFit'
  <2>1. \A b \in Address : HandFits(t, b)' /\ Current(t, b)'
    BY <1>10 DEF HandFits, Current
  <2>2. Covered(t)'
    BY <1>3, <1>4, <1>10 DEF Covered
  <2> QED
    BY <1>4, <2>1, <2>2, AllFit
<1>20. SpentOnce'
  <2> SUFFICES ASSUME NEW s \in Session, s.who \notin mixed'
               PROVE  /\ s \in used => \A v \in Threads : ~UsedBy(v, s)'
                      /\ \A v, w \in Threads : SpentBy(v, s)' /\ UsedBy(w, s)' => v = w
                      /\ \A v \in Threads : ~(Working(v)' /\ s \in op'[v].ready
                                              /\ s \in op'[v].outbox)
    BY <1>2 DEF SpentOnce
  <2>1. /\ s \in used => \A v \in Threads : ~UsedBy(v, s)
        /\ \A v, w \in Threads : SpentBy(v, s) /\ UsedBy(w, s) => v = w
        /\ \A v \in Threads : ~(Working(v) /\ s \in op[v].ready /\ s \in op[v].outbox)
    BY <1>5 DEF SpentOnce
  <2>2. \A v \in Threads : /\ UsedBy(v, s)' <=> UsedBy(v, s)
                           /\ v # t => (SpentBy(v, s)' <=> SpentBy(v, s))
    BY <1>4, <1>13, UsedStep
  <2>3. ASSUME UsedBy(t, s), ~SpentBy(t, s), NEW w \in Threads, w # t, UsedBy(w, s)
        PROVE  FALSE
    <3>1. s.who \notin mixed /\ ~SpentBy(w, s)
      BY <1>5, <2>1, <2>3
    <3>2. PICK c \in Address :
              /\ c[1] = s.who /\ Cached(t, c) /\ op[t].cache[c].dirty
              /\ \A b \in Address, x \in Session : At(b, x) /\ x.id = s.id => b = c
      BY <2>3, <3>1, CoveredAt
    <3>3. PICK d \in Address :
              /\ Cached(w, d) /\ op[w].cache[d].rec \in Session
              /\ op[w].cache[d].rec.id = s.id
      BY <2>3, <3>1, EntryParts, JobParts
      DEF UsedBy, SpentBy, CopiesFit, Covered, Record
    <3>4. CopyOf(w, d, op[w].cache[d].rec)
      BY <3>3 DEF CopyOf
    <3>5. d = c
      BY <3>2, <3>3, <3>4 DEF At
    <3> QED
      BY <1>6, <1>17, <2>3, <3>2, <3>4, <3>5, Holding
  <2>4. \A v, w \in Threads : SpentBy(v, s)' /\ UsedBy(w, s)' => v = w
    BY <1>13, <2>1, <2>2, <2>3
  <2>5. \A v \in Threads : ~(Working(v)' /\ s \in op'[v].ready /\ s \in op'[v].outbox)
    BY <1>3, <1>4, <2>1 DEF Only, Working
  <2> QED
    BY <2>1, <2>2, <2>4, <2>5
<1>21. MigratedAreMoved'
  <2>1. \A u \in migrated : rows'[PN(u)] \in {NoSession, rows[PN(u)]} \/ u \in left'
    BY <1>2 DEF Types, PN, Address
  <2> QED
    BY <1>2, <1>3, <1>4, <2>1, MovedStays DEF NoReply, Working
<1>22. StatesAreUsedOnce'
  BY <1>2, <1>5 DEF StatesAreUsedOnce
<1> QED
  BY <1>9, <1>15, <1>16, <1>18, <1>19, <1>20, <1>21, <1>22

-----------------------------------------------------------------------------
(* The migration.                                                          *)

LEMMA StepMigrate ==
    ASSUME IInv, NEW t \in Threads, NEW u \in Persons, MigratePNToLID(t, u),
           mixed' = mixed \cup Mixing(t)
    PROVE  IInv'
<1> USE DEF IInv
<1>1. /\ op[t].kind = "idle" /\ migrated' = migrated \cup {u}
      /\ UNCHANGED <<rows, made, used, again, left>>
  BY DEF MigratePNToLID
<1>2. PICK p : p = IF u \in migrated THEN Idle ELSE [kind |-> "migrate", person |-> u]
  OBVIOUS
<1>3. p \in Ops /\ p.kind # "work" /\ (p.kind = "migrate" => p.person = u)
  BY <1>2, IdleOp DEF Ops
<1>4. op' = [op EXCEPT ![t] = p]
  BY <1>2 DEF MigratePNToLID, Return, Become
<1>5. op'[t] = p /\ Only(t)
  BY <1>4, OpStep
<1>6. ret'.kind = "migrated" => ret'.person = u
  BY DEF MigratePNToLID, Return, Become, NoReply
<1>7. migrated' \in SUBSET Persons /\ left' \in SUBSET Persons
  BY <1>1 DEF Types
<1>8. ASSUME NEW w \in migrated' PROVE Moved(w)'
  <2>1. CASE w \in migrated
    <3>1. Moved(w)
      BY <2>1 DEF MigratedAreMoved
    <3>2. \A v \in Threads : op[v].kind = "migrate" => op'[v] = op[v]
      BY <1>1, <1>5 DEF Only
    <3> QED
      BY <1>1, <3>1, <3>2 DEF Moved
  <2>2. CASE w = u /\ u \notin migrated
    BY <1>2, <1>5, <2>2 DEF Moved
  <2> QED
    BY <1>1, <1>8, <2>1, <2>2
<1>9. \A v \in Threads : op'[v].kind = "migrate" => op'[v].person \in migrated'
  BY <1>1, <1>3, <1>5 DEF Only, MigratedAreMoved
<1>10. MigratedAreMoved'
  BY <1>1, <1>6, <1>8, <1>9 DEF MigratedAreMoved
<1> QED
  BY <1>1, <1>3, <1>4, <1>7, <1>10, StepEnds

LEMMA StepFails ==
    ASSUME IInv, NEW t \in Threads, MigrationFails(t), mixed' = mixed \cup Mixing(t)
    PROVE  IInv'
<1> USE DEF IInv
<1>1. /\ op[t].kind = "migrate" /\ left' = left \cup {op[t].person}
      /\ op' = [op EXCEPT ![t] = Idle] /\ ret'.kind # "migrated"
      /\ UNCHANGED <<rows, migrated, made, used, again>>
  BY DEF MigrationFails, Return
<1>2. op'[t].kind = "idle" /\ Only(t)
  BY <1>1, IdleOp, OpStep
<1>3. op[t].person \in migrated
  BY <1>1 DEF MigratedAreMoved
<1>4. migrated' \in SUBSET Persons /\ left' \in SUBSET Persons
  BY <1>1, <1>3 DEF Types
<1>5. \A v \in Threads : op'[v].kind = "migrate" => v # t /\ op'[v] = op[v]
  BY <1>2 DEF Only
<1>6. ASSUME NEW w \in migrated PROVE Moved(w)'
  <2>1. Moved(w)
    BY DEF MigratedAreMoved
  <2>2. \A v \in Threads : op[v].kind = "migrate" => v = t \/ op'[v] = op[v]
    BY <1>2 DEF Only
  <2> QED
    BY <1>1, <2>1, <2>2 DEF Moved
<1>7. MigratedAreMoved'
  BY <1>1, <1>5, <1>6 DEF MigratedAreMoved
<1> QED
  BY <1>1, <1>4, <1>7, IdleOp, StepEnds

\* The session of the PN is at the LID from here on: only a copy that another
\* goroutine has is still at the PN, and then the person is mixed.
LEMMA StepCommit ==
    ASSUME IInv, NEW t \in Threads, MigrationCommits(t), mixed' = mixed \cup Mixing(t)
    PROVE  IInv'
<1> USE DEF IInv
<1>1. PICK u : u = op[t].person
  OBVIOUS
<1>2. PICK m : m = rows[PN(u)]
  OBVIOUS
<1>3. /\ op[t].kind = "migrate" /\ left' = left \ {u}
      /\ rows' = [rows EXCEPT ![PN(u)] = NoSession,
                              ![LID(u)] = IF m = NoSession THEN @ ELSE m]
      /\ op' = [op EXCEPT ![t] = Idle] /\ ret' = [kind |-> "migrated", person |-> u]
      /\ UNCHANGED <<migrated, made, used, again>>
  BY <1>1, <1>2 DEF MigrationCommits, Return
<1>4. op'[t].kind = "idle" /\ Only(t) /\ ~Working(t)'
  BY <1>3, IdleOp, OpStep DEF Working
<1>5. mixed' \in SUBSET Persons /\ mixed \subseteq mixed'
  BY MixedType
<1>6. u \in migrated /\ u \in Persons
  BY <1>1, <1>3 DEF MigratedAreMoved, Types
<1>7. /\ PN(u) \in Address /\ LID(u) \in Address /\ PN(u) # LID(u)
      /\ PN(u)[1] = u /\ LID(u)[1] = u
  BY <1>6 DEF PN, LID, Address
<1>8. m \in Record
  BY <1>2, <1>7 DEF Types
<1>9. /\ rows' \in [Address -> Record]
      /\ rows'[PN(u)] = NoSession
      /\ rows'[LID(u)] = IF m = NoSession THEN rows[LID(u)] ELSE m
      /\ \A b \in Address : b \notin {PN(u), LID(u)} => rows'[b] = rows[b]
  BY <1>3, <1>7, <1>8, SessionsAssumption DEF Types, Record
<1>10. Types'
  <2>1. left' \in SUBSET Persons
    BY <1>3 DEF Types
  <2> QED
    BY <1>3, <1>5, <1>9, <2>1, IdleOp, TypesStep DEF Types
<1>11. \A b \in Address, x \in Session :
          At(b, x)' => rows'[b] = x \/ \E v \in Threads \ {t} : CopyOf(v, b, x)
  BY <1>4, AtStep, IdleFits
<1>12. m # NoSession => m \in Session /\ At(PN(u), m)
  BY <1>2, <1>8 DEF At, Record
<1>13. \A b \in Address, x \in Session :
          At(b, x)' => At(b, x) \/ (b = LID(u) /\ x = m)
  BY <1>9, <1>11, SessionParts DEF At
<1>14. \A s \in Session : (Known(s)' => Known(s)) /\ (Spent(s)' => Spent(s))
  BY <1>3, <1>4, KnownStep, IdleFits DEF Known, Spent
<1>15. OneOwner'
  <2>1. m \in Session => m.who = LID(u)[1] /\ m.id <= made
    BY <1>7, <1>12, SessionParts DEF OneOwner
  <2>2. \A b \in Address, x \in Session : At(b, x)' => x.who = b[1] /\ x.id <= made
    BY <1>13, <2>1 DEF OneOwner
  <2>3. \A s \in Session : Known(s)' => s.id <= made
    BY <1>14 DEF OneOwner
  <2>4. ASSUME NEW s \in Session, NEW b \in Address, NEW x \in Session,
               Known(s)', At(b, x)', s.id = x.id
        PROVE  s.who = x.who
    <3>1. \E c \in Address : At(c, x)
      BY <1>7, <1>12, <1>13, <2>4, SessionParts
    <3> QED
      BY <1>14, <2>4, <3>1 DEF OneOwner
  <2> QED
    BY <1>3, <2>2, <2>3, <2>4 DEF OneOwner
<1>16. ASSUME NEW c \in Address, NEW y \in Session, At(c, y)', m \in Session, y.id = m.id
       PROVE  c = LID(u) \/ (c[1] = u /\ u \in mixed')
  <2>1. CASE c = PN(u)
    <3>1. PICK v \in Threads \ {t} : CopyOf(v, c, y)
      BY <1>9, <1>11, <1>16, <2>1, SessionParts
    <3>2. rows'[c] # rows[c]
      BY <1>2, <1>9, <1>16, <2>1, SessionParts
    <3> QED
      BY <1>7, <2>1, <3>1, <3>2, Holding, MixedBy
  <2>2. CASE c \notin {PN(u), LID(u)}
    <3>1. At(c, y) /\ At(PN(u), m)
      BY <1>12, <1>13, <1>16, <2>2, SessionParts
    <3> QED
      BY <1>5, <1>7, <1>16, <2>2, <3>1 DEF OneHome
  <2> QED
    BY <2>1, <2>2
<1>17. OneHome'
  <2> SUFFICES ASSUME NEW b \in Address, NEW c \in Address, NEW x \in Session,
                      NEW y \in Session, At(b, x)', At(c, y)', x.id = y.id
               PROVE  b = c \/ (b[1] = c[1] /\ b[1] \in mixed')
    BY DEF OneHome
  <2>1. CASE At(b, x) /\ At(c, y)
    BY <1>5, <2>1 DEF OneHome
  <2>2. CASE b = LID(u) /\ x = m
    BY <1>7, <1>16, <2>2
  <2>3. CASE c = LID(u) /\ y = m
    BY <1>7, <1>16, <2>3
  <2> QED
    BY <1>13, <2>1, <2>2, <2>3
<1>18. SpentIsPast'
  <2> SUFFICES ASSUME NEW s \in Session, NEW b \in Address, NEW x \in Session,
                      Spent(s)', At(b, x)', s.id = x.id
               PROVE  x.state > s.state \/ s.who \in mixed'
    BY DEF SpentIsPast
  <2>1. \E c \in Address : At(c, x)
    BY <1>7, <1>12, <1>13, SessionParts
  <2> QED
    BY <1>5, <1>14, <2>1 DEF SpentIsPast
<1>19. CopiesFit'
  BY <1>4, AllFit, IdleFits
<1>20. SpentOnce'
  BY <1>3, <1>4, <1>5, NothingSpent, IdleFits
<1>21. MigratedAreMoved'
  <2>1. \A v \in Threads : op'[v].kind = "migrate" => v # t /\ op'[v] = op[v]
    BY <1>4 DEF Only
  <2>2. ASSUME NEW w \in migrated, w # u PROVE Moved(w)'
    <3>1. Moved(w)
      BY DEF MigratedAreMoved
    <3>2. PN(w) \in Address /\ PN(w) \notin {PN(u), LID(u)}
      BY <2>2 DEF Types, PN, LID, Address
    <3>3. \A v \in Threads : op[v].kind = "migrate" /\ op[v].person = w => op'[v] = op[v]
      BY <1>1, <1>4, <2>2 DEF Only
    <3> QED
      BY <1>3, <1>9, <2>2, <3>1, <3>2, <3>3 DEF Moved, PN
  <2>3. Moved(u)'
    BY <1>9 DEF Moved, PN
  <2> QED
    BY <1>3, <1>6, <2>1, <2>2, <2>3 DEF MigratedAreMoved
<1>22. StatesAreUsedOnce'
  BY <1>3, <1>5 DEF StatesAreUsedOnce
<1> QED
  BY <1>10, <1>15, <1>17, <1>18, <1>19, <1>20, <1>21, <1>22

-----------------------------------------------------------------------------
(* Steps that are of no goroutine.                                         *)

LEMMA StepDelete ==
    ASSUME IInv, NEW a \in Address, DeleteSession(a), UNCHANGED mixed
    PROVE  IInv'
<1> USE DEF IInv
<1>1. /\ rows' = [rows EXCEPT ![a] = NoSession] /\ ret' = NoReply
      /\ UNCHANGED <<migrated, op, made, used, again, mixed, left>>
  BY DEF DeleteSession
<1>2. /\ rows' \in [Address -> Record]
      /\ \A b \in Address : rows'[b] \in {rows[b], NoSession}
  BY <1>1 DEF Types, Record
<1>3. Types'
  BY <1>1, <1>2 DEF Types
<1>4. /\ \A s, b : /\ Cached(s, b)' <=> Cached(s, b)
                   /\ InHand(s, b)' <=> InHand(s, b)
      /\ \A s : Working(s)' <=> Working(s)
  BY <1>1 DEF Cached, InHand, Working
<1>5. \A s, b, x : CopyOf(s, b, x)' <=> CopyOf(s, b, x)
  BY <1>1, <1>4 DEF CopyOf
<1>6. \A b \in Address, x \in Session : At(b, x)' => At(b, x)
  BY <1>2, <1>5, SessionParts DEF At
<1>7. \A s, x : (UsedBy(s, x)' <=> UsedBy(s, x)) /\ (SpentBy(s, x)' <=> SpentBy(s, x))
  BY <1>1, <1>4 DEF UsedBy, SpentBy
<1>8. \A s : (Known(s)' <=> Known(s)) /\ (Spent(s)' <=> Spent(s))
  BY <1>1, <1>7 DEF Known, Spent
<1>9. OneOwner' /\ OneHome' /\ SpentIsPast'
  BY <1>1, <1>6, <1>8, NothingNew
<1>10. CopiesFit'
  <2>1. \A s \in Threads : Covered(s)'
    BY <1>1, <1>4 DEF CopiesFit, Covered
  <2>2. \A s \in Threads, b \in Address : HandFits(s, b)'
    BY <1>1, <1>4 DEF CopiesFit, HandFits
  <2>3. ASSUME NEW s \in Threads, NEW b \in Address, b[1] \notin mixed'
        PROVE  Current(s, b)'
    <3>1. Current(s, b)
      BY <1>1, <2>3 DEF CopiesFit
    <3>2. CASE rows'[b] = NoSession
      BY <3>2 DEF Current
    <3>3. CASE rows'[b] = rows[b]
      BY <1>1, <1>4, <3>1, <3>3 DEF Current
    <3> QED
      BY <1>2, <3>2, <3>3
  <2> QED
    BY <2>1, <2>2, <2>3 DEF CopiesFit
<1>11. SpentOnce'
  BY <1>1, <1>4, <1>7 DEF SpentOnce
<1>12. MigratedAreMoved'
  <2>1. ASSUME NEW u \in migrated PROVE Moved(u)'
    <3>1. Moved(u) /\ PN(u) \in Address
      BY DEF MigratedAreMoved, Types, PN, Address
    <3> QED
      BY <1>1, <1>2, <3>1 DEF Moved, PN
  <2> QED
    BY <1>1, <2>1 DEF MigratedAreMoved, NoReply
<1>13. StatesAreUsedOnce'
  BY <1>1 DEF StatesAreUsedOnce
<1> QED
  BY <1>3, <1>9, <1>10, <1>11, <1>12, <1>13

LEMMA StepRestart ==
    ASSUME IInv, Restart, UNCHANGED mixed
    PROVE  IInv'
<1> USE DEF IInv
<1>1. /\ migrated' = {} /\ op' = [t \in Threads |-> Idle] /\ ret' = NoReply /\ left' = {}
      /\ UNCHANGED <<rows, made, used, again, mixed>>
  BY DEF Restart
<1>2. \A t \in Threads : op'[t] = Idle /\ ~Working(t)'
  BY <1>1 DEF Working, Idle
<1>3. Types'
  <2>1. op' \in [Threads -> Ops]
    BY <1>1, IdleOp
  <2> QED
    BY <1>1, <1>2, <2>1 DEF Types, Idle
<1>4. \A b \in Address, x \in Session : At(b, x)' => At(b, x)
  BY <1>1, <1>2, IdleFits DEF At
<1>5. \A s \in Session : (Known(s)' => Known(s)) /\ (Spent(s)' => Spent(s))
  BY <1>1, <1>2, IdleFits DEF Known, Spent
<1>6. OneOwner' /\ OneHome' /\ SpentIsPast'
  BY <1>1, <1>4, <1>5, NothingNew
<1>7. CopiesFit'
  BY <1>2, IdleFits DEF CopiesFit
<1>8. SpentOnce'
  BY <1>2, IdleFits DEF SpentOnce
<1>9. MigratedAreMoved'
  BY <1>1, <1>2 DEF MigratedAreMoved, NoReply, Idle
<1>10. StatesAreUsedOnce'
  BY <1>1 DEF StatesAreUsedOnce
<1> QED
  BY <1>3, <1>6, <1>7, <1>8, <1>9, <1>10

LEMMA Stutter ==
    ASSUME IInv, UNCHANGED vars
    PROVE  IInv'
<1>1. \A s, b, x : CopyOf(s, b, x)' <=> CopyOf(s, b, x)
  BY DEF vars, CopyOf, Cached, InHand, Working
<1>2. \A b, x : At(b, x)' <=> At(b, x)
  BY <1>1 DEF At, vars
<1>3. \A s, x : (UsedBy(s, x)' <=> UsedBy(s, x)) /\ (SpentBy(s, x)' <=> SpentBy(s, x))
  BY DEF vars, UsedBy, SpentBy, Working
<1>4. \A s : (Known(s)' <=> Known(s)) /\ (Spent(s)' <=> Spent(s))
  BY <1>3 DEF Known, Spent, vars
<1>5. Types'
  BY DEF IInv, Types, vars
<1>6. OneOwner' /\ OneHome' /\ SpentIsPast'
  BY <1>2, <1>4, NothingNew DEF IInv, vars
<1>7. CopiesFit'
  BY DEF IInv, vars, CopiesFit, HandFits, Current, Covered, Cached, InHand, Working
<1>8. SpentOnce'
  BY <1>3 DEF IInv, vars, SpentOnce, Working
<1>9. MigratedAreMoved' /\ StatesAreUsedOnce'
  BY DEF IInv, vars, MigratedAreMoved, Moved, StatesAreUsedOnce
<1> QED
  BY <1>5, <1>6, <1>7, <1>8, <1>9 DEF IInv

LEMMA NextIInv ==
    ASSUME IInv, [Next]_vars
    PROVE  IInv'
<1>1. ASSUME NEW t \in Threads, Work(t), mixed' = mixed \cup Mixing(t)
      PROVE  IInv'
  <2>1. ASSUME NEW A \in (SUBSET Address) \ {{}}, WithCachedSessions(t, A) PROVE IInv'
    BY <1>1, <2>1, StepWith
  <2>2. CASE WithoutCache(t)
    BY <1>1, <2>2, StepWithout
  <2>3. ASSUME NEW a \in Address, LoadSession(t, a) PROVE IInv'
    BY <1>1, <2>3, StepLoad
  <2>4. CASE Establish(t)
    BY <1>1, <2>4, StepEstablish
  <2>5. CASE Encrypt(t)
    BY <1>1, <2>5, StepEncrypt
  <2>6. CASE PutCachedSessions(t)
    BY <1>1, <2>6, StepFlush
  <2>7. CASE Send(t)
    BY <1>1, <2>7, StepSend
  <2>8. CASE Leave(t)
    BY <1>1, <2>8, StepLeave
  <2>9. ASSUME NEW u \in Persons, MigratePNToLID(t, u) PROVE IInv'
    BY <1>1, <2>9, StepMigrate
  <2>10. CASE MigrationCommits(t)
    BY <1>1, <2>10, StepCommit
  <2>11. CASE MigrationFails(t)
    BY <1>1, <2>11, StepFails
  <2> QED
    BY <1>1, <2>1, <2>2, <2>3, <2>4, <2>5, <2>6, <2>7, <2>8, <2>9, <2>10, <2>11 DEF Work
<1>2. ASSUME NEW a \in Address, DeleteSession(a), UNCHANGED mixed PROVE IInv'
  BY <1>2, StepDelete
<1>3. CASE Restart /\ UNCHANGED mixed
  BY <1>3, StepRestart
<1>4. CASE UNCHANGED vars
  BY <1>4, Stutter
<1> QED
  BY <1>1, <1>2, <1>3, <1>4 DEF Next

-----------------------------------------------------------------------------
(* Results.                                                                *)

\* The inductive invariant holds: what the goroutines have of a session is
\* what the table has, or what follows it, unless the person is mixed.
THEOREM SessionsInvariance == Spec => []IInv
<1>1. Init => IInv
  BY InitIInv
<1>2. IInv /\ [Next]_vars => IInv'
  BY NextIInv
<1> QED
  BY <1>1, <1>2, PTL DEF Spec

\* No message is sent that was encrypted with the state another message was
\* sent with, over caches, failed flushes and restarts, for persons that are
\* not mixed.
THEOREM StatesUsedOnce == Spec => []StatesAreUsedOnce
<1>1. IInv => StatesAreUsedOnce
  BY DEF IInv
<1> QED
  BY <1>1, SessionsInvariance, PTL

LEMMA TypesImplyTypeOK ==
    ASSUME Types PROVE TypeOK
<1>1. ASSUME NEW t \in Threads PROVE op[t].kind \in {"idle", "work", "migrate"}
  <2>1. op[t] \in Ops
    BY DEF Types
  <2> QED
    BY <2>1, IdleOp DEF Ops, Jobs
<1>2. ASSUME NEW t \in Threads, Working(t)
      PROVE  /\ op[t].outbox \cup op[t].ready \subseteq Session
             /\ \A a \in Address : op[t].cache[a] # Absent =>
                   op[t].cached /\ op[t].cache[a].rec \in Record
  BY <1>2, JobParts, EntryParts DEF Types, Cached, Working
<1> QED
  BY <1>1, <1>2 DEF Types, TypeOK, Working

\* A session is at one address, its PN or its LID, for persons that are not
\* mixed: no flush brings back what the migration moved.
THEOREM AtOneAddress == Spec => []SessionInv
<1>1. ASSUME IInv PROVE OneAddressPerSession
  <2> SUFFICES ASSUME NEW a \in Address, NEW b \in Address, rows[a] # NoSession,
                      rows[b] # NoSession, rows[a].id = rows[b].id
               PROVE  a = b \/ a[1] \in mixed
    BY DEF OneAddressPerSession
  <2>1. /\ rows[a] \in Session /\ At(a, rows[a])
        /\ rows[b] \in Session /\ At(b, rows[b])
    BY <1>1 DEF IInv, Types, Record, At
  <2> QED
    BY <1>1, <2>1 DEF IInv, OneHome
<1>2. IInv => SessionInv
  BY <1>1, TypesImplyTypeOK DEF IInv, SessionInv
<1> QED
  BY <1>2, SessionsInvariance, PTL

\* When MigratePNToLID returns nil no session is left under the PN, unless the
\* transaction is still running elsewhere or went wrong in this process.
THEOREM MigratedMoved == Spec => []MigratedMeansMoved
<1>1. IInv => MigratedMeansMoved
  BY DEF IInv, MigratedAreMoved, Moved, MigratedMeansMoved
<1> QED
  BY <1>1, SessionsInvariance, PTL

\* What a step stores at b: a session not known before, or one that is not
\* behind the row it comes from.
Ahead(b) ==
    \/ rows'[b].id > made
    \/ \E c \in Address, h \in Session :
          /\ At(c, h) /\ h.id = rows'[b].id
          /\ c[1] \in mixed' \/ rows[c] = NoSession \/ rows[c].state <= rows'[b].state

LEMMA KeptIsAhead ==
    ASSUME IInv, NEW b \in Address, rows'[b] = rows[b], rows[b] # NoSession
    PROVE  Ahead(b)
<1>1. rows[b] \in Session /\ At(b, rows[b])
  BY DEF IInv, Types, Record, At
<1>2. rows[b].state <= rows[b].state
  BY <1>1, SessionParts
<1> QED
  BY <1>1, <1>2 DEF Ahead

LEMMA StoredIsAhead ==
    ASSUME IInv, NEW t \in Threads, Working(t), op[t].hand # Nothing,
           NEW r \in Session, NEW S, StoreSession(t, r, S),
           Follows(r, op[t].hand.rec, op[t].hand.addr, S), mixed \subseteq mixed',
           NEW b \in Address, rows'[b] # NoSession
    PROVE  Ahead(b)
<1> USE DEF IInv
<1>1. PICK a : a = op[t].hand.addr
  OBVIOUS
<1>2. PICK h : h = op[t].hand.rec
  OBVIOUS
<1>3. a \in Address /\ InHand(t, a) /\ h \in Record /\ At(a, h)
  BY <1>1, <1>2, HandParts, HandIsAt DEF InHand
<1>4. CASE rows'[b] = rows[b]
  BY <1>4, KeptIsAhead
<1>5. CASE rows'[b] # rows[b]
  <2>1. ~op[t].cached /\ rows' = [rows EXCEPT ![a] = r]
    <3>1. \A o : o = [op[t] EXCEPT !.hand = Nothing, !.outbox = @ \cup S] =>
                 o.cached = op[t].cached
      BY JobParts DEF Jobs
    <3> QED
      BY <1>1, <1>5, <3>1 DEF StoreSession
  <2>2. b = a /\ rows'[b] = r
    BY <1>3, <1>5, <2>1 DEF Types
  <2>3. CASE h = NoSession
    <3>1. r.id = made + 1 /\ made \in Nat
      BY <1>2, <2>3, SessionParts, SessionsAssumption DEF Follows, Types
    <3> QED
      BY <2>2, <3>1 DEF Ahead
  <2>4. CASE h \in Session
    <3>1. r.id = h.id /\ r.state = h.state + 1
      BY <1>2, <2>4, SessionParts DEF Follows
    <3>2. ~Cached(t, a)
      BY <1>3, <2>1 DEF Types, Cached, Working
    <3>3. a[1] \notin mixed' => rows[a] \in {h, NoSession}
      BY <1>2, <1>3, <3>2 DEF CopiesFit, Current
    <3>4. a[1] \in mixed' \/ rows[a] = NoSession \/ rows[a].state <= r.state
      BY <2>4, <3>1, <3>3, SessionParts
    <3> QED
      BY <1>3, <2>2, <2>4, <3>1, <3>4 DEF Ahead
  <2> QED
    BY <1>3, <2>3, <2>4 DEF Record
<1> QED
  BY <1>4, <1>5

LEMMA FlushedIsAhead ==
    ASSUME IInv, NEW t \in Threads, PutCachedSessions(t), mixed \subseteq mixed',
           NEW b \in Address, rows'[b] # NoSession
    PROVE  Ahead(b)
<1> USE DEF IInv
<1>1. Working(t) /\ rows' = [a \in Address |-> IF a \in Dirty(t) THEN op[t].cache[a].rec
                                                              ELSE rows[a]]
  BY DEF PutCachedSessions, Working
<1>2. CASE b \notin Dirty(t)
  BY <1>1, <1>2, KeptIsAhead
<1>3. CASE b \in Dirty(t)
  <2>1. /\ Cached(t, b) /\ op[t].cache[b].dirty
        /\ rows'[b] = op[t].cache[b].rec
    BY <1>1, <1>3 DEF Dirty, Cached
  <2>2. rows'[b] \in Session /\ At(b, rows'[b])
    BY <2>1, EntryParts DEF Record, At, CopyOf
  <2>3. rows[b] \in Record
    BY DEF Types
  <2>4. b[1] \in mixed' \/ rows[b] = NoSession \/ rows[b].state <= rows'[b].state
    BY <2>1, <2>2, <2>3, SessionParts DEF CopiesFit, Current, Record
  <2> QED
    BY <2>2, <2>4 DEF Ahead
<1> QED
  BY <1>2, <1>3

LEMMA MovedIsAhead ==
    ASSUME IInv, NEW t \in Threads, MigrationCommits(t),
           NEW b \in Address, rows'[b] # NoSession
    PROVE  Ahead(b)
<1> USE DEF IInv
<1>1. PICK u : u = op[t].person
  OBVIOUS
<1>2. u \in Persons
  BY <1>1 DEF MigrationCommits, MigratedAreMoved, Types
<1>3. PN(u) \in Address /\ LID(u) \in Address
  BY <1>2 DEF PN, LID, Address
<1>4. CASE rows'[b] = rows[b]
  BY <1>4, KeptIsAhead
<1>5. CASE rows'[b] # rows[b]
  <2>1. rows'[b] = rows[PN(u)]
    BY <1>1, <1>3, <1>5 DEF MigrationCommits, Types
  <2>2. rows[PN(u)] \in Session /\ At(PN(u), rows[PN(u)])
    BY <1>3, <2>1 DEF Types, Record, At
  <2>3. rows[PN(u)].state <= rows'[b].state
    BY <2>1, <2>2, SessionParts
  <2> QED
    BY <1>3, <2>1, <2>2, <2>3 DEF Ahead
<1> QED
  BY <1>4, <1>5

LEMMA NextIsAhead ==
    ASSUME IInv, [Next]_vars, NEW b \in Address, rows'[b] # NoSession
    PROVE  Ahead(b)
<1>1. ASSUME NEW t \in Threads, Work(t), mixed' = mixed \cup Mixing(t)
      PROVE  Ahead(b)
  <2>1. mixed \subseteq mixed'
    BY <1>1
  <2>2. CASE UNCHANGED rows
    BY <2>2, KeptIsAhead
  <2>3. CASE Establish(t)
    <3>1. PICK r : r = [who |-> op[t].hand.addr[1], id |-> made + 1, state |-> 0]
      OBVIOUS
    <3>2. /\ Working(t) /\ op[t].hand # Nothing /\ op[t].hand.rec = NoSession
          /\ made' = made + 1 /\ made < MaxMade /\ made \in 0 .. MaxMade
          /\ StoreSession(t, r, {})
      BY <2>3, <3>1 DEF Establish, Working, IInv, Types
    <3>3. r \in Session
      BY <3>1, <3>2, HandParts, AddressParts, SessionsAssumption DEF Session, IInv
    <3>4. Follows(r, op[t].hand.rec, op[t].hand.addr, {})
      BY <3>1, <3>2 DEF Follows
    <3> QED
      BY <2>1, <3>2, <3>3, <3>4, StoredIsAhead
  <2>4. CASE Encrypt(t)
    <3>1. PICK h : h = op[t].hand.rec
      OBVIOUS
    <3>2. PICK r : r = [h EXCEPT !.state = @ + 1]
      OBVIOUS
    <3>3. /\ Working(t) /\ op[t].hand # Nothing /\ h # NoSession /\ h.state < MaxState
          /\ StoreSession(t, r, {h}) /\ made' = made
      BY <2>4, <3>1, <3>2 DEF Encrypt, Working
    <3>4. h \in Session
      BY <3>1, <3>3, HandParts DEF Record, IInv
    <3>5. h.state + 1 \in 0 .. MaxState
      BY <3>3, <3>4, SessionParts, SessionsAssumption
    <3>6. r \in Session /\ r.who = h.who /\ r.id = h.id /\ r.state = h.state + 1
      BY <3>2, <3>4, <3>5 DEF Session
    <3>7. Follows(r, h, op[t].hand.addr, {h})
      BY <3>3, <3>4, <3>6 DEF Follows
    <3> QED
      BY <2>1, <3>1, <3>3, <3>6, <3>7, StoredIsAhead
  <2>5. CASE PutCachedSessions(t)
    BY <2>1, <2>5, FlushedIsAhead
  <2>6. CASE MigrationCommits(t)
    BY <2>6, MovedIsAhead
  <2> QED
    BY <1>1, <2>2, <2>3, <2>4, <2>5, <2>6
    DEF Work, WithCachedSessions, WithoutCache, LoadSession, Send, Leave,
        MigratePNToLID, MigrationFails
<1>2. ASSUME NEW a \in Address, DeleteSession(a)
      PROVE  Ahead(b)
  <2>1. rows'[b] = rows[b]
    BY <1>2 DEF DeleteSession, IInv, Types
  <2> QED
    BY <2>1, KeptIsAhead
<1>3. CASE UNCHANGED rows
  BY <1>3, KeptIsAhead
<1> QED
  BY <1>1, <1>2, <1>3 DEF Next, Restart, vars

LEMMA RowsAdvance ==
    ASSUME IInv, IInv', [Next]_vars, NEW a \in Address, NEW b \in Address,
           rows[a] # NoSession, rows'[b] # NoSession, rows[a].id = rows'[b].id
    PROVE  rows'[b].state >= rows[a].state \/ rows[a].who \in mixed'
<1>1. rows[a] \in Session /\ At(a, rows[a])
  BY DEF IInv, Types, Record, At
<1>2. rows[a].who = a[1] /\ rows[a].id <= made /\ made \in Nat
  BY <1>1, SessionsAssumption DEF IInv, OneOwner, Types
<1>3. mixed \subseteq mixed'
  BY DEF Next, vars
<1>4. rows'[b] \in Session
  BY DEF IInv, Types, Record
<1>5. Ahead(b)
  BY NextIsAhead
<1>6. ~(rows'[b].id > made)
  BY <1>1, <1>2, <1>4, SessionParts
<1>7. PICK c \in Address, h \in Session :
        /\ At(c, h) /\ h.id = rows'[b].id
        /\ c[1] \in mixed' \/ rows[c] = NoSession \/ rows[c].state <= rows'[b].state
  BY <1>5, <1>6 DEF Ahead
<1>8. a = c \/ a[1] \in mixed
  BY <1>1, <1>7 DEF IInv, OneHome
<1> QED
  BY <1>1, <1>2, <1>3, <1>4, <1>7, <1>8, SessionParts

\* No stored session is replaced by an older state of it, in its row or where
\* the migration moves it, for persons that are not mixed.
THEOREM SessionsAdvance == Spec => StoredSessionsAdvance
<1>1. IInv /\ IInv' /\ [Next]_vars =>
        [\A a, b \in Address :
           rows[a] # NoSession /\ rows'[b] # NoSession /\ rows[a].id = rows'[b].id
              => rows'[b].state >= rows[a].state \/ rows[a].who \in mixed']_vars
  BY RowsAdvance
<1> QED
  BY <1>1, SessionsInvariance, PTL DEF Spec, StoredSessionsAdvance

-----------------------------------------------------------------------------
(* Sessions implements Ratchet: sending is Send, everything else Store.    *)

LEMMA StoredRow ==
    ASSUME IInv, NEW r \in Stored
    PROVE  r \in Session /\ \E a \in Address : At(a, r)
<1>1. PICK a \in Address : rows[a] = r /\ r # NoSession
  BY DEF Stored
<1>2. r \in Session /\ At(a, r)
  BY <1>1 DEF IInv, Types, Record, At
<1> QED
  BY <1>2

LEMMA StoredIsPast ==
    ASSUME IInv, NEW r \in Stored, NEW s \in Session, Spent(s)
    PROVE  Promise!Past(r, s, mixed)
<1>1. r \in Session /\ \E a \in Address : At(a, r)
  BY StoredRow
<1> QED
  BY <1>1 DEF IInv, SpentIsPast, Promise!Past

LEMMA StepStores ==
    ASSUME IInv, IInv', [Next]_vars, UNCHANGED <<used, again>>
    PROVE  Promise!Store
<1>1. Stored' \subseteq Session
  BY DEF IInv, Types, Record, Stored
<1>2. mixed \subseteq mixed'
  BY DEF Next, vars
<1>3. ASSUME NEW r \in Stored', NEW s \in Stored, r.id = s.id
      PROVE  r.state >= s.state \/ s.who \in mixed'
  <2>1. PICK a \in Address : rows[a] = s /\ s # NoSession
    BY DEF Stored
  <2>2. PICK b \in Address : rows'[b] = r /\ r # NoSession
    BY DEF Stored
  <2> QED
    BY <1>3, <2>1, <2>2, RowsAdvance
<1>4. ASSUME NEW r \in Stored', NEW s \in Stored', r.id = s.id
      PROVE  r = s \/ s.who \in mixed'
  <2>1. \A p, q \in Address : \A x, y \in Session :
          (At(p, x) /\ At(q, y))' /\ x.id = y.id => p = q \/ (p[1] = q[1] /\ p[1] \in mixed')
    BY DEF IInv, OneHome
  <2>2. PICK a \in Address : rows'[a] = r /\ r # NoSession
    BY DEF Stored
  <2>3. PICK b \in Address : rows'[b] = s /\ s # NoSession
    BY DEF Stored
  <2>4. r \in Session /\ s \in Session /\ At(a, r)' /\ At(b, s)'
    BY <2>2, <2>3 DEF IInv, Types, Record, At
  <2>5. s.who = b[1]
    BY <2>4 DEF IInv, OneOwner
  <2> QED
    BY <1>4, <2>1, <2>2, <2>3, <2>4, <2>5
<1>5. ASSUME NEW r \in Stored', NEW s \in used
      PROVE  Promise!Past(r, s, mixed')
  <2>1. s \in Session /\ s \in used'
    BY DEF IInv, Types
  <2>2. PICK a \in Address : rows'[a] = r /\ r # NoSession
    BY DEF Stored
  <2>3. r \in Session /\ At(a, r)' /\ Spent(s)'
    BY <2>1, <2>2 DEF IInv, Types, Record, At, Spent
  <2> QED
    BY <2>1, <2>3 DEF IInv, SpentIsPast, Promise!Past
<1> QED
  BY <1>1, <1>2, <1>3, <1>4, <1>5 DEF Promise!Store

LEMMA StepSends ==
    ASSUME IInv, NEW t \in Threads, Send(t), mixed' = mixed \cup Mixing(t)
    PROVE  \E S \in SUBSET Session : Promise!Send(S)
<1>1. PICK S : S = op[t].ready
  OBVIOUS
<1>2. Working(t) /\ S \in SUBSET Session
  BY <1>1, JobParts DEF Send, Working, IInv
<1>3. mixed' = mixed /\ Stored' = Stored
  BY DEF Send, Mixing, Stored
<1>4. \A s \in S : UsedBy(t, s) /\ Spent(s) /\ s \in Session
  BY <1>1, <1>2 DEF UsedBy, SpentBy, Spent
<1>5. \A s \in S : s \notin used \/ s.who \in mixed
  BY <1>4 DEF IInv, SpentOnce
<1>6. \A r \in Stored, s \in S : Promise!Past(r, s, mixed)
  BY <1>4, StoredIsPast
<1>7. used' = used \cup S /\ again' = again \cup (used \cap S)
  BY <1>1 DEF Send
<1> QED
  BY <1>2, <1>3, <1>5, <1>6, <1>7 DEF Promise!Send

LEMMA StepImplements ==
    ASSUME IInv, IInv', [Next]_vars
    PROVE  Promise!Next
<1>1. CASE UNCHANGED <<used, again>>
  BY <1>1, StepStores DEF Promise!Next
<1>2. ASSUME NEW t \in Threads, Send(t), mixed' = mixed \cup Mixing(t)
      PROVE  Promise!Next
  BY <1>2, StepSends DEF Promise!Next
<1>3. UNCHANGED <<used, again>>
      \/ \E t \in Threads : Send(t) /\ mixed' = mixed \cup Mixing(t)
  <2>1. ASSUME NEW t \in Threads, Work(t), ~Send(t)
        PROVE  UNCHANGED <<used, again>>
    BY <2>1 DEF Work, WithCachedSessions, WithoutCache, LoadSession, Establish, Encrypt,
                PutCachedSessions, Leave, MigratePNToLID, MigrationCommits, MigrationFails
  <2>2. ASSUME NEW a \in Address, DeleteSession(a)
        PROVE  UNCHANGED <<used, again>>
    BY <2>2 DEF DeleteSession
  <2> QED
    BY <2>1, <2>2 DEF Next, Restart, vars
<1> QED
  BY <1>1, <1>2, <1>3

\* To its callers the store, with its caches, flushes, migrations and restarts,
\* is a set of counters that go up, each stored before what was encrypted with
\* its previous value is sent.
THEOREM SessionsRefinement == Spec => ImplementsRatchet
<1>1. Init => Promise!Init
  BY DEF Init, Promise!Init, Stored
<1>2. IInv /\ IInv' /\ [Next]_vars => [Promise!Next]_(Promise!vars)
  BY StepImplements
<1> QED
  BY <1>1, <1>2, SessionsInvariance, PTL DEF Spec, ImplementsRatchet, Promise!Spec
=============================================================================
