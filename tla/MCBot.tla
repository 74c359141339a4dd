------------------------------ MODULE MCBot ------------------------------
(* Model values for Bot.                                                   *)
EXTENDS Bot
CONSTANTS a1, a2
==========================================================================
