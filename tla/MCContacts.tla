---------------------------- MODULE MCContacts ----------------------------
(* Small instances of Contacts for TLC.                                    *)
EXTENDS Contacts, TLC

CONSTANTS u1, u2, t1, t2, x, y

\* Two pairs with the same full name; in one of them the two names differ.
MCNames == {<<x, x>>, <<NoText, x>>}

Symmetry == Permutations(Threads) \cup Permutations(Users)
=============================================================================
