------------------------------- MODULE Ratchet -------------------------------
(***************************************************************************)
(* What the session store promises libsignal and those who send what it    *)
(* encrypts, without addresses, caches, transactions or a migration.  A    *)
(* session is a counter that goes up; it is stored once; a message is sent *)
(* with a value of the counter that no other message was sent with, and    *)
(* only when the stored counter is past that value, so that a process that *)
(* ends at any moment leaves nothing it could use again.  A session may be *)
(* lost, and come back as long as it is past all that was sent.            *)
(*                                                                         *)
(* Nothing is promised about persons on whose sessions two goroutines      *)
(* worked at the same time.                                                *)
(***************************************************************************)
EXTENDS Naturals

CONSTANT Session    \* records [who, id, state]

VARIABLES stored,   \* the sessions stored, a set
          used,     \* the states that messages were sent with
          again,    \* those that were sent with more than once
          mixed     \* the persons two goroutines worked with

vars == <<stored, used, again, mixed>>

Init == stored = {} /\ used = {} /\ again = {} /\ mixed = {}

\* The session r is past its state s, as far as something is promised.
Past(r, s, M) == r.id = s.id => r.state > s.state \/ s.who \in M

(* The store changes in whatever way: sessions appear, advance, are lost.  *)
Store ==
    /\ stored' \subseteq Session
    /\ mixed \subseteq mixed'
    /\ \A r \in stored', s \in stored :
          r.id = s.id => r.state >= s.state \/ s.who \in mixed'
    /\ \A r, s \in stored' : r.id = s.id => r = s \/ s.who \in mixed'
    /\ \A r \in stored', s \in used : Past(r, s, mixed')
    /\ UNCHANGED <<used, again>>

(* Messages are sent that were encrypted with the states S.                *)
Send(S) ==
    /\ \A s \in S : s \notin used \/ s.who \in mixed
    /\ \A r \in stored, s \in S : Past(r, s, mixed)
    /\ used' = used \cup S
    /\ again' = again \cup (used \cap S)
    /\ UNCHANGED <<stored, mixed>>

Next == Store \/ \E S \in SUBSET Session : Send(S)

Spec == Init /\ [][Next]_vars
=============================================================================
