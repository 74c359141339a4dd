------------------------------ MODULE Companion ------------------------------
(***************************************************************************)
(* What the life of a companion device promises its owner, without the     *)
(* steps of main, pairing, commands and the connection.  There is one row  *)
(* at most, of the device the process works with.  A pairing stores a      *)
(* device whose keys no device ever had; only a device that is stored is   *)
(* linked to an account; who logs in is stored and linked.  While the      *)
(* process runs it gives its row up only when the server does not have the *)
(* device (any more): nobody's phone shows a device that was forgotten.    *)
(* The exceptions are the removal of the files of a process that does not  *)
(* run, and a save that was under way when its row was deleted.            *)
(***************************************************************************)
CONSTANT Device     \* pairs <<account, keys>>

VARIABLES
    running,
    stored,     \* the rows, a set of devices
    known,      \* the keys that were given to devices, stored or not
    linked,     \* the devices the server has
    online,     \* the device that is logged in, a set
    late        \* the device a save is about to store, a set

vars == <<running, stored, known, linked, online, late>>

Init == running = FALSE /\ stored = {} /\ known = {} /\ linked = {} /\ online = {} /\ late = {}

Start == ~running /\ running' = TRUE /\ UNCHANGED <<stored, known, linked, online, late>>

(* The process ends, however: a device it has not paired is given up.      *)
Stop ==
    /\ running /\ running' = FALSE
    /\ online' = {} /\ late' = {}
    /\ known \subseteq known'
    /\ UNCHANGED <<stored, linked>>

RemoveFiles ==
    /\ ~running
    /\ stored' = {}
    /\ UNCHANGED <<running, known, linked, online, late>>

Pair(d) ==
    /\ running /\ online = {} /\ stored = {}
    /\ d[2] \notin known
    /\ stored' = {d}
    /\ known' = known \cup {d[2]}
    /\ UNCHANGED <<running, linked, online, late>>

(* Its row cannot be written: the device will not be used.                 *)
GiveUp ==
    /\ running /\ online = {}
    /\ known \subseteq known'
    /\ UNCHANGED <<running, stored, linked, online, late>>

Link(d) ==
    /\ running /\ d \in stored
    /\ linked' = linked \cup {d}
    /\ UNCHANGED <<running, stored, known, online, late>>

(* By the owner of the account; also while the device is logged in.        *)
Unlink(d) ==
    /\ linked' = linked \ {d}
    /\ UNCHANGED <<running, stored, known, online, late>>

LogIn(d) ==
    /\ running /\ stored = {d} /\ d \in linked
    /\ online' = {d}
    /\ UNCHANGED <<running, stored, known, linked, late>>

GoOffline ==
    /\ online' = {}
    /\ UNCHANGED <<running, stored, known, linked, late>>

LogOut ==
    /\ online # {}
    /\ linked' = linked \ online
    /\ online' = {}
    /\ UNCHANGED <<running, stored, known, late>>

Delete ==
    /\ running /\ stored \cap linked = {}
    /\ stored' = {} /\ online' = {}
    /\ UNCHANGED <<running, known, linked, late>>

SaveBegins ==
    /\ online # {} /\ late = {}
    /\ late' = online
    /\ UNCHANGED <<running, stored, known, linked, online>>

(* A row that is there stays what it is.                                   *)
SaveEnds ==
    /\ late # {} /\ late' = {}
    /\ stored' = stored \/ (stored = {} /\ stored' = late)
    /\ UNCHANGED <<running, known, linked, online>>

Next ==
    \/ Start \/ Stop \/ RemoveFiles \/ GiveUp
    \/ \E d \in Device : Pair(d) \/ Link(d) \/ Unlink(d) \/ LogIn(d)
    \/ GoOffline \/ LogOut \/ Delete \/ SaveBegins \/ SaveEnds

Spec == Init /\ [][Next]_vars
==============================================================================
