----------------------------- MODULE MCPreKeys -----------------------------
(* Small instances of PreKeys for TLC.                                     *)
EXTENDS PreKeys, TLC

CONSTANTS t1, t2
=============================================================================
