------------------------------ MODULE MCLidMap ------------------------------
(* Small instances of LidMap for TLC.                                      *)
EXTENDS LidMap, TLC

CONSTANTS l1, l2, p1, p2, t1, t2

\* A swap, a re-assignment of one PN that ends where a cache may say it is
\* already, and a batch with an invalid mapping and a repetition.
MCBatches ==
    LET M(l, p)   == [lid |-> l, pn |-> p, valid |-> TRUE]
        Bad(l, p) == [lid |-> l, pn |-> p, valid |-> FALSE]
    IN  { << M(l1, p2), M(l2, p1) >>,
          << M(l2, p1), M(l1, p1) >>,
          << Bad(l1, p1), M(l1, p1), M(l1, p1) >> }

MCLiveBatches == { << [lid |-> l1, pn |-> p1, valid |-> TRUE],
                    [lid |-> l2, pn |-> p1, valid |-> TRUE] >> }

ThreadSymmetry == Permutations(Threads)
=============================================================================
