------------------------------ MODULE LidTable ------------------------------
(***************************************************************************)
(* What the LID store promises its callers, without caches, locks or       *)
(* transactions: one table of LID/PN mappings in which every LID has one   *)
(* PN and every PN one LID, changed only by whole batches of puts.         *)
(*                                                                         *)
(* A batch may leave out the mappings the table holds already and the      *)
(* repetitions of an earlier one.  After a transaction has failed, that    *)
(* is all that can be said of a batch until the process restarts: the      *)
(* cache in front of the table may claim mappings that were never stored,  *)
(* so any of them may be left out (`trusted' is FALSE).                    *)
(***************************************************************************)
EXTENDS Naturals, Sequences

CONSTANTS Lids,     \* user parts of the LIDs (hidden user server)
          Pns,      \* user parts of the phone-number JIDs
          Batches   \* the batches a caller may put

VARIABLES table,    \* the mappings stored, as <<lid, pn>>
          trusted   \* no transaction has failed since the process started

vars == <<table, trusted>>

(* The row a mapping of a batch asks for.                                  *)
RowOf(m) == <<m.lid, m.pn>>

(* Two rows that cannot be stored together: they share one column only.    *)
Conflict(r, s) == ~((r[1] = s[1]) <=> (r[2] = s[2]))

(* The table R after the mappings of b at the indices K, put one after the *)
(* other: the later one of two conflicting mappings is the one that stays. *)
PutAll(R, b, K) ==
    {r \in R : \A i \in K : ~Conflict(RowOf(b[i]), r)}
    \cup {RowOf(b[i]) : i \in {i \in K : \A j \in K :
                                  j > i => ~Conflict(RowOf(b[j]), RowOf(b[i]))}}

(* The mappings of b that change nothing when they are left out.           *)
Redundant(R, b) ==
    {i \in DOMAIN b : \/ ~b[i].valid
                      \/ RowOf(b[i]) \in R
                      \/ \E j \in DOMAIN b : j < i /\ b[j] = b[i]}

OneToOneTable(R) == \A r, s \in R : ~Conflict(r, s)

-----------------------------------------------------------------------------
Init == /\ table \in {R \in SUBSET (Lids \X Pns) : OneToOneTable(R)}
        /\ trusted = TRUE

PutBatch(b) ==
    /\ \E K \in SUBSET {i \in DOMAIN b : b[i].valid} :
          /\ trusted => (DOMAIN b) \ K \subseteq Redundant(table, b)
          /\ table' = PutAll(table, b, K)
    /\ UNCHANGED trusted

Distrust == trusted' = FALSE /\ UNCHANGED table

Restart == trusted' = TRUE /\ UNCHANGED table

Next == (\E b \in Batches : PutBatch(b)) \/ Distrust \/ Restart

Spec == Init /\ [][Next]_vars
=============================================================================
