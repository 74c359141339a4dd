------------------------------ MODULE BotProofs ------------------------------
(***************************************************************************)
(* Theorems about Bot, for any accounts and any number of devices: the     *)
(* table has the one device the process works with, a device that is       *)
(* logged in is stored, a deleted one is gone, an acknowledged logout is   *)
(* complete, and the life of a device is one that Companion allows.        *)
(***************************************************************************)
EXTENDS Bot, TLAPS

-----------------------------------------------------------------------------
(* The inductive invariant, in named parts.                                *)

\* Nothing in memory outlives the process.
OffMeansNothing ==
    ~Running => /\ dev = NoDevice /\ saving = None /\ ~pairing
                /\ conn = "down" /\ paired = None /\ ack = None

\* A device of the process has keys; once it has its JID it has its stores,
\* until it is deleted.
DeviceParts ==
    /\ Running => dev.keys \in Keys
    /\ dev.id # None => dev.init /\ ~dev.deleted

Stored == dev.id # None /\ device[dev.id] = dev.keys

\* The only row is that of the device of the process, unless it is deleted
\* and a Save was under way when it was.
RowIsTheDevices ==
    /\ Running /\ ~dev.deleted => \A a \in Accounts : device[a] # None => a = dev.id
    /\ dev.deleted => device = Empty \/ (raced /\ saving = None)
    /\ dev.deleted /\ saving # None => raced

\* Only a failed Save leaves a JID without its row, and the connection is
\* never opened again.
UnstoredIsDown ==
    dev.id # None /\ ~Stored => conn = "down" /\ ~pairing /\ proc # "connect"

\* Who is paired or logged in has a JID; a Save writes the row again.
JidIsNeeded ==
    /\ conn = "in" => dev.id # None /\ ~pairing
    /\ pairing => dev.id # None
    /\ saving # None /\ ~dev.deleted => Stored /\ saving = <<dev.id, dev.keys>>

\* Between the two halves of a logout the device is not linked any more, and
\* nobody links it or deletes it.
LogoutInBetween ==
    cmd = "delete" => /\ dev.id # None /\ conn = "down" /\ ~pairing
                      /\ <<dev.id, dev.keys>> \notin linked

\* runPairCode is told of a success only when the device was stored.
PairedMeansStored == paired = "ok" => Stored \/ dev.deleted

\* An ack is given when the loop goes on.
AckInLoop == ack # None => proc = "loop"

\* Which way of pairing was chosen.
QRIsWithoutCode == proc = "qr" => ~byCode

Memory == /\ OffMeansNothing /\ DeviceParts /\ RowIsTheDevices /\ UnstoredIsDown
          /\ JidIsNeeded /\ LogoutInBetween /\ PairedMeansStored /\ AckInLoop
          /\ QRIsWithoutCode

IInv == TypeOK /\ OneDevice /\ Memory /\ LoopMeansPaired

-----------------------------------------------------------------------------
(* Types.                                                                  *)

LEMMA TypeInit == Init => TypeOK
<1> SUFFICES ASSUME Init PROVE TypeOK
  OBVIOUS
<1>1. dev \in [keys : Keys \cup {0}, id : Accounts \cup {None},
              init : BOOLEAN, deleted : BOOLEAN]
  BY DEF Init, NoDevice
<1> QED
  BY <1>1 DEF Init, TypeOK, Empty

\* What a Device is.
DeviceType == [keys : Keys \cup {0}, id : Accounts \cup {None},
               init : BOOLEAN, deleted : BOOLEAN]

LEMMA DeleteType ==
    ASSUME TypeOK, DeleteDevice \/ DeleteFails
    PROVE  /\ device' \in [Accounts -> Keys \cup {None}]
           /\ dev' \in DeviceType
           /\ raced' \in BOOLEAN
<1>1. device \in [Accounts -> Keys \cup {None}] /\ dev \in DeviceType /\ raced \in BOOLEAN
  BY DEF TypeOK, DeviceType
<1>2. CASE DeleteDevice
  BY <1>1, <1>2 DEF DeleteDevice, DeviceType
<1>3. CASE DeleteFails
  BY <1>1, <1>3 DEF DeleteFails, store
<1> QED
  BY <1>2, <1>3

LEMMA ResultType ==
    ASSUME TypeOK, NEW r \in {"ok", "error"}, Result(r)
    PROVE  /\ paired' \in {None, "ok", "error"}
           /\ qrChan' \in {"open", "closed"} /\ pairing' \in BOOLEAN
BY DEF TypeOK, Result

LEMMA AnswerType ==
    ASSUME NEW c \in Commands \cup {"delete"}, NEW ok \in BOOLEAN, Answer(c, ok)
    PROVE  /\ proc' = "loop" /\ cmd' = None
           /\ ack' \in [cmd : Commands \cup {"delete"}, ok : BOOLEAN]
BY DEF Answer

LEMMA NewDeviceType ==
    ASSUME TypeOK, NewDevice
    PROVE  /\ dev' \in DeviceType /\ dev'.keys \in Keys
           /\ dev'.id = None /\ ~dev'.init /\ ~dev'.deleted
           /\ made' \in Keys
<1>1. made + 1 \in Keys
  BY BotAssumption DEF TypeOK, NewDevice, Keys
<1>2. dev' = [keys |-> made + 1, id |-> None, init |-> FALSE, deleted |-> FALSE]
  BY DEF NewDevice, NoDevice
<1>3. made' = made + 1
  BY DEF NewDevice
<1> HIDE DEF Keys
<1> QED
  BY <1>1, <1>2, <1>3 DEF DeviceType

(* Every step keeps the types: a Save and a link need a JID and keys.      *)
LEMMA TypeStep ==
    ASSUME TypeOK, OffMeansNothing, DeviceParts, JidIsNeeded, [Next]_vars
    PROVE  TypeOK'
<1> USE BotAssumption DEF TypeOK, Keys
<1>1. ASSUME NEW code \in BOOLEAN, Start(code)
      PROVE  TypeOK'
  <2>1. dev' \in DeviceType /\ made' \in Keys \cup {0}
    <3>1. CASE NewDevice
      BY <3>1, NewDeviceType
    <3>2. CASE StoredDevice
      BY <3>2 DEF StoredDevice, DeviceType
    <3> QED BY <1>1, <3>1, <3>2 DEF Start
  <2> QED
    BY <1>1, <2>1 DEF Start, DeviceType, whats, control
<1>2. ASSUME Kill
      PROVE  TypeOK'
  BY <1>2 DEF Kill, End, NoDevice, Running
<1>3. ASSUME Signal
      PROVE  TypeOK'
  BY <1>3 DEF Signal, store, whats
<1>4. ASSUME RemoveSession
      PROVE  TypeOK'
  BY <1>4 DEF RemoveSession, Empty, main, whats, control
<1>5. ASSUME Connect
      PROVE  TypeOK'
  BY <1>5 DEF Connect, GoTo, main, store, control
<1>6. ASSUME ConnectFails
      PROVE  TypeOK'
  BY <1>6 DEF ConnectFails, ReturnError, End, NoDevice
<1>7. ASSUME PairPhone
      PROVE  TypeOK'
  BY <1>7 DEF PairPhone, GoTo, main, store, control
<1>8. ASSUME PairPhoneFails
      PROVE  TypeOK'
  BY <1>8 DEF PairPhoneFails, ReturnError, End, NoDevice
<1>9. ASSUME PairedWell
      PROVE  TypeOK'
  BY <1>9 DEF PairedWell, GoTo, main, store, control
<1>10. ASSUME PairedBadly
      PROVE  TypeOK'
  BY <1>10 DEF PairedBadly, ReturnError, End, NoDevice
<1>11. ASSUME WaitIsOver
      PROVE  TypeOK'
  BY <1>11 DEF WaitIsOver, GoTo, main, store, control
<1>12. ASSUME QRIsOver
      PROVE  TypeOK'
  BY <1>12 DEF QRIsOver, GoTo, main, store, control
<1>13. ASSUME CommandFails
      PROVE  TypeOK'
  BY <1>13 DEF CommandFails, Answer, store, main
<1>14. ASSUME SendMessage
      PROVE  TypeOK'
  BY <1>14 DEF SendMessage, Answer, store, main
<1>15. ASSUME GetStatus
      PROVE  TypeOK'
  BY <1>15 DEF GetStatus, Answer, store, main
<1>16. ASSUME Disconnect
      PROVE  TypeOK'
  BY <1>16 DEF Disconnect, Answer, store, main
<1>17. ASSUME LogoutUnlinks
      PROVE  TypeOK'
  BY <1>17 DEF LogoutUnlinks, store, main
<1>18. ASSUME LogoutEnds
      PROVE  TypeOK'
  <2>1. DeleteDevice \/ DeleteFails
    BY <1>18 DEF LogoutEnds
  <2> QED
    <3>1. PICK ok \in BOOLEAN : Answer("delete", ok)
      BY <1>18 DEF LogoutEnds
    <3>2. UNCHANGED <<main, paired, qrChan, conn, pairing, saving, made, linked>>
      BY <1>18, <3>1 DEF LogoutEnds, Answer
    <3>3. /\ device' \in [Accounts -> Keys \cup {None}] /\ raced' \in BOOLEAN
          /\ dev' \in DeviceType
      BY <2>1, DeleteType
    <3>4. /\ proc' = "loop" /\ cmd' = None
          /\ ack' \in [cmd : Commands \cup {"delete"}, ok : BOOLEAN]
      BY <3>1, AnswerType
    <3> QED
      BY <3>2, <3>3, <3>4 DEF DeviceType, main
<1>19. ASSUME Done
      PROVE  TypeOK'
  BY <1>19 DEF Done, ReturnNil, End, NoDevice
<1>20. ASSUME NEW c \in Commands, TakeControl(c)
      PROVE  TypeOK'
  BY <1>20 DEF TakeControl, store, main, whats
<1>21. ASSUME NEW a \in Accounts, PairSaves(a)
      PROVE  TypeOK'
  <2>1. dev' \in DeviceType
    BY <1>21 DEF PairSaves, DeviceType
  <2>2. device' \in [Accounts -> Keys \cup {None}]
    BY <1>21 DEF PairSaves, Pairable, PutDevice, DeviceParts, Running
  <2> QED
    BY <1>21, <2>1, <2>2 DEF PairSaves, DeviceType, main
<1>22. ASSUME NEW a \in Accounts, PairSaveFails(a)
      PROVE  TypeOK'
  <2>1. dev' \in DeviceType
    BY <1>22 DEF PairSaveFails, DeviceType
  <2> QED
    BY <1>22, <2>1 DEF PairSaveFails, Result, DeviceType, main
<1>23. ASSUME PairRefused
      PROVE  TypeOK'
  BY <1>23, ResultType DEF PairRefused, main, store
<1>24. ASSUME PairSucceeds
      PROVE  TypeOK'
  <2>1. <<dev.id, dev.keys>> \in Accounts \X Keys
    BY <1>24 DEF PairSucceeds, JidIsNeeded, DeviceParts
  <2>2. linked' \subseteq Accounts \X Keys
    BY <1>24, <2>1 DEF PairSucceeds
  <2> QED
    BY <1>24, <2>2, ResultType DEF PairSucceeds, main, store
<1>25. ASSUME PairFails
      PROVE  TypeOK'
  <2>1. DeleteDevice \/ DeleteFails
    BY <1>25 DEF PairFails
  <2> QED
    BY <1>25, <2>1, DeleteType DEF PairFails, Result, DeviceType, main
<1>26. ASSUME QRTimeout
      PROVE  TypeOK'
  BY <1>26 DEF QRTimeout, main, store, control
<1>27. ASSUME LogIn
      PROVE  TypeOK'
  BY <1>27 DEF LogIn, ConnChange, Linked, store, main
<1>28. ASSUME ConnectionLost
      PROVE  TypeOK'
  BY <1>28 DEF ConnectionLost, ConnChange, store, main
<1>29. ASSUME Reconnect
      PROVE  TypeOK'
  BY <1>29 DEF Reconnect, ConnChange, store, main
<1>30. ASSUME LoggedOut
      PROVE  TypeOK'
  <2>1. DeleteDevice \/ DeleteFails
    BY <1>30 DEF LoggedOut
  <2> QED
    BY <1>30, <2>1, DeleteType DEF LoggedOut, ConnChange, DeviceType, main
<1>31. ASSUME Unlink
      PROVE  TypeOK'
  BY <1>31 DEF Unlink, main, store, whats
<1>32. ASSUME Save
      PROVE  TypeOK'
  <2>1. <<dev.id, dev.keys>> \in Accounts \X Keys
    BY <1>32 DEF Save, JidIsNeeded, DeviceParts
  <2> QED
    BY <1>32, <2>1 DEF Save, main, store
<1>33. ASSUME SaveEnds
      PROVE  TypeOK'
  BY <1>33 DEF SaveEnds, PutDevice, main, store
<1>34. ASSUME UNCHANGED vars
      PROVE  TypeOK'
  BY <1>34 DEF vars, main, store, whats, control
<1> QED
  BY <1>1, <1>2, <1>3, <1>4, <1>5, <1>6, <1>7, <1>8, <1>9, <1>10, <1>11, <1>12, <1>13, <1>14, <1>15, <1>16, <1>17, <1>18, <1>19, <1>20, <1>21, <1>22, <1>23, <1>24, <1>25, <1>26, <1>27, <1>28, <1>29, <1>30, <1>31, <1>32, <1>33, <1>34
     DEF Next, Run, Handle, Whatsmeow
-----------------------------------------------------------------------------
(* The device and its row.                                                 *)

Parts == OneDevice /\ Memory /\ LoopMeansPaired

LEMMA PartsInit == Init => Parts
<1> SUFFICES ASSUME Init PROVE Parts
  OBVIOUS
<1>1. dev = NoDevice /\ dev.id = None /\ ~dev.deleted /\ \A a \in Accounts : device[a] = None
  BY DEF Init, NoDevice, Empty
<1> QED
  BY <1>1, BotAssumption
   DEF Init, Parts, Memory, OneDevice, OffMeansNothing, DeviceParts, RowIsTheDevices,
       UnstoredIsDown, JidIsNeeded, LogoutInBetween, PairedMeansStored, AckInLoop,
       QRIsWithoutCode, LoopMeansPaired, Running, Stored

(* Deleting a device that has a JID leaves the table empty.                *)
LEMMA DeletedRow ==
    ASSUME IInv, dev.id # None, DeleteDevice
    PROVE  /\ device' = Empty
           /\ dev'.id = None /\ dev'.deleted /\ dev'.keys = dev.keys
           /\ raced' <=> raced \/ saving # None
<1>1. Running /\ ~dev.deleted
  BY DEF IInv, Memory, OffMeansNothing, DeviceParts, NoDevice
<1>2. \A a \in Accounts : a # dev.id => device[a] = None
  BY <1>1 DEF IInv, Memory, RowIsTheDevices
<1>3. device \in [Accounts -> Keys \cup {None}] /\ dev \in DeviceType
  BY DEF IInv, TypeOK, DeviceType
<1> QED
  BY <1>2, <1>3 DEF DeleteDevice, Empty, DeviceType

(* The end of the process leaves the table, and nothing else.              *)
LEMMA EndParts ==
    ASSUME OneDevice, NEW how, End(how)
    PROVE  Parts'
<1>1. dev'.id = None /\ ~dev'.deleted /\ dev' = NoDevice
  BY DEF End, NoDevice
<1>2. /\ proc' = "off" /\ paired' = None /\ conn' = "down" /\ ~pairing'
      /\ saving' = None /\ cmd' = None /\ ack' = None /\ device' = device
  BY DEF End
<1> QED
  BY <1>1, <1>2, BotAssumption
     DEF Parts, Memory, OneDevice, OffMeansNothing, DeviceParts, RowIsTheDevices,
         UnstoredIsDown, JidIsNeeded, LogoutInBetween, PairedMeansStored, AckInLoop,
         QRIsWithoutCode, LoopMeansPaired, Running, Stored

LEMMA PartsStep == IInv /\ TypeOK' /\ [Next]_vars => Parts'
<1> SUFFICES ASSUME IInv, TypeOK', [Next]_vars PROVE Parts'
  OBVIOUS
<1> dev \in DeviceType /\ device \in [Accounts -> Keys \cup {None}]
  BY DEF IInv, TypeOK, DeviceType
<1> USE BotAssumption DEF IInv, Memory, Parts, OffMeansNothing, DeviceParts,
       RowIsTheDevices, UnstoredIsDown, JidIsNeeded, LogoutInBetween, PairedMeansStored,
       AckInLoop, QRIsWithoutCode, LoopMeansPaired, OneDevice, Running, Stored
<1>1. ASSUME NEW code \in BOOLEAN, Start(code)
      PROVE  Parts'
  <2>1. /\ proc' = "connect" /\ ctx' = FALSE /\ paired' = None /\ saving' = None
        /\ conn' = "down" /\ ~pairing' /\ cmd' = None /\ ack' = None /\ device' = device
    BY <1>1 DEF Start, whats, control, TypeOK
  <2>2. CASE NewDevice
    <3>1. \A a \in Accounts : device[a] = None
      BY <2>2 DEF NewDevice, Empty
    <3> QED
      BY <2>1, <2>2, <3>1, NewDeviceType
  <2>3. CASE StoredDevice
    <3>1. PICK a \in Accounts :
             /\ device[a] # None
             /\ dev' = [keys |-> device[a], id |-> a, init |-> TRUE, deleted |-> FALSE]
      BY <2>3 DEF StoredDevice
    <3>2. dev'.id = a /\ dev'.keys = device[a] /\ dev'.keys \in Keys /\ dev'.init /\ ~dev'.deleted
      BY <3>1
    <3>3. \A b \in Accounts : device[b] # None => b = a
      BY <3>1
    <3> QED
      BY <2>1, <3>2, <3>3
  <2> QED
    BY <1>1, <2>2, <2>3 DEF Start
<1>2. ASSUME Kill
      PROVE  Parts'
  BY <1>2, EndParts DEF Kill
<1>3. ASSUME Signal
      PROVE  Parts'
  BY <1>3 DEF Signal, store, whats
<1>4. ASSUME RemoveSession
      PROVE  Parts'
  <2>1. device' = Empty /\ dev' = NoDevice /\ dev'.id = None /\ ~dev'.deleted
    BY <1>4 DEF RemoveSession, NoDevice
  <2>2. proc' = "off" /\ ack' = None /\ paired' = None /\ saving' = None /\ ~pairing'
        /\ conn' = "down" /\ cmd' = None
    BY <1>4 DEF RemoveSession, main, whats, control, TypeOK
  <2> QED
    BY <2>1, <2>2 DEF Empty
<1>5. ASSUME Connect
      PROVE  Parts'
  <2>1. proc = "connect" /\ conn' = "up" /\ cmd = None
        /\ UNCHANGED <<byCode, ctx, device, dev, raced, paired, pairing, saving, cmd, ack, linked>>
    BY <1>5 DEF Connect, GoTo, main, store, control, TypeOK
  <2>2. CASE dev.id # None
    BY <1>5, <2>1, <2>2 DEF Connect, GoTo
  <2>3. CASE dev.id = None
    BY <1>5, <2>1, <2>3 DEF Connect, GoTo
  <2> QED
    BY <2>2, <2>3
<1>6. ASSUME ConnectFails
      PROVE  Parts'
  BY <1>6, EndParts DEF ConnectFails, ReturnError
<1>7. ASSUME PairPhone
      PROVE  Parts'
  BY <1>7 DEF PairPhone, GoTo, main, store, control
<1>8. ASSUME PairPhoneFails
      PROVE  Parts'
  BY <1>8, EndParts DEF PairPhoneFails, ReturnError
<1>9. ASSUME PairedWell
      PROVE  Parts'
  BY <1>9 DEF PairedWell, GoTo, main, store, control
<1>10. ASSUME PairedBadly
      PROVE  Parts'
  BY <1>10, EndParts DEF PairedBadly, ReturnError
<1>11. ASSUME WaitIsOver
      PROVE  Parts'
  BY <1>11 DEF WaitIsOver, GoTo, main, store, control
<1>12. ASSUME QRIsOver
      PROVE  Parts'
  BY <1>12 DEF QRIsOver, GoTo, main, store, control
<1>13. ASSUME CommandFails
      PROVE  Parts'
  BY <1>13 DEF CommandFails, Answer, store, main
<1>14. ASSUME SendMessage
      PROVE  Parts'
  BY <1>14 DEF SendMessage, Answer, store, main
<1>15. ASSUME GetStatus
      PROVE  Parts'
  BY <1>15 DEF GetStatus, Answer, store, main
<1>16. ASSUME Disconnect
      PROVE  Parts'
  BY <1>16 DEF Disconnect, Answer, store, main
<1>17. ASSUME LogoutUnlinks
      PROVE  Parts'
  BY <1>17 DEF LogoutUnlinks, store, main
<1>18. ASSUME LogoutEnds
      PROVE  Parts'
  <2>1. proc = "handling" /\ dev.id # None /\ conn = "down" /\ ~pairing /\ proc' = "loop" /\ cmd' = None
        /\ UNCHANGED <<byCode, ctx, paired, conn, pairing, saving, linked>>
    BY <1>18 DEF LogoutEnds, Answer, main
  <2>2. CASE DeleteDevice
    BY <2>1, <2>2, DeletedRow DEF Empty
  <2>3. CASE DeleteFails
    BY <2>1, <2>3 DEF DeleteFails, store
  <2> QED
    BY <1>18, <2>2, <2>3 DEF LogoutEnds
<1>19. ASSUME Done
      PROVE  Parts'
  BY <1>19, EndParts DEF Done, ReturnNil
<1>20. ASSUME NEW c \in Commands, TakeControl(c)
      PROVE  Parts'
  BY <1>20 DEF TakeControl, Commands, store, main, whats
<1>21. ASSUME NEW a \in Accounts, PairSaves(a)
      PROVE  Parts'
  BY <1>21 DEF PairSaves, Pairable, PutDevice, main
<1>22. ASSUME NEW a \in Accounts, PairSaveFails(a)
      PROVE  Parts'
  BY <1>22 DEF PairSaveFails, Pairable, Result, main
<1>23. ASSUME PairRefused
      PROVE  Parts'
  BY <1>23 DEF PairRefused, Pairable, Result, main, store
<1>24. ASSUME PairSucceeds
      PROVE  Parts'
  BY <1>24 DEF PairSucceeds, Result, main, store
<1>25. ASSUME PairFails
      PROVE  Parts'
  <2>1. Running /\ pairing /\ dev.id # None /\ conn' = "down" /\ ~pairing' /\ ack' = None /\ paired' \in {paired, "error"}
        /\ UNCHANGED <<proc, byCode, ctx, saving, cmd, linked>>
    BY <1>25 DEF PairFails, Result, main
  <2>2. CASE DeleteDevice
    BY <1>25, <2>1, <2>2, DeletedRow DEF PairFails, Empty
  <2>3. CASE DeleteFails
    BY <2>1, <2>3 DEF DeleteFails, store
  <2> QED
    BY <1>25, <2>2, <2>3 DEF PairFails
<1>26. ASSUME QRTimeout
      PROVE  Parts'
  BY <1>26 DEF QRTimeout, main, store, control
<1>27. ASSUME LogIn
      PROVE  Parts'
  BY <1>27 DEF LogIn, ConnChange, Linked, store, main
<1>28. ASSUME ConnectionLost
      PROVE  Parts'
  BY <1>28 DEF ConnectionLost, ConnChange, store, main
<1>29. ASSUME Reconnect
      PROVE  Parts'
  BY <1>29 DEF Reconnect, ConnChange, store, main
<1>30. ASSUME LoggedOut
      PROVE  Parts'
  <2>1. dev.id # None /\ conn \in {"up", "in"} /\ conn' = "down" /\ ~pairing /\ ack' = None
        /\ UNCHANGED <<proc, byCode, ctx, paired, pairing, saving, cmd, linked>>
    BY <1>30 DEF LoggedOut, ConnChange, main
  <2>2. CASE DeleteDevice
    BY <2>1, <2>2, DeletedRow DEF Empty
  <2>3. CASE DeleteFails
    BY <2>1, <2>3 DEF DeleteFails, store
  <2> QED
    BY <1>30, <2>2, <2>3 DEF LoggedOut
<1>31. ASSUME Unlink
      PROVE  Parts'
  BY <1>31 DEF Unlink, main, store, whats
<1>32. ASSUME Save
      PROVE  Parts'
  BY <1>32 DEF Save, main, store
<1>33. ASSUME SaveEnds
      PROVE  Parts'
  <2>1. /\ saving # None /\ saving' = None /\ ack' = None
        /\ UNCHANGED <<proc, byCode, ctx, dev, raced, paired, conn, pairing, cmd, linked>>
    BY <1>33 DEF SaveEnds, main
  <2>2. CASE dev.deleted
    <3>1. saving \in Accounts \X Keys /\ raced /\ device = Empty /\ dev.id = None
      BY <2>1, <2>2 DEF TypeOK
    <3>2. \A a \in Accounts : a # saving[1] => device'[a] = None
      BY <1>33, <3>1 DEF SaveEnds, PutDevice, Empty
    <3> QED
      BY <2>1, <2>2, <3>1, <3>2
  <2>3. CASE ~dev.deleted
    <3>1. Stored /\ saving = <<dev.id, dev.keys>>
      BY <2>1, <2>3
    <3>2. device' = device
      BY <1>33, <3>1 DEF SaveEnds, PutDevice
    <3> QED
      BY <2>1, <2>3, <3>1, <3>2
  <2> QED
    BY <2>2, <2>3
<1>34. ASSUME UNCHANGED vars
      PROVE  Parts'
  BY <1>34 DEF vars, main, store, whats, control
<1> QED
  BY <1>1, <1>2, <1>3, <1>4, <1>5, <1>6, <1>7, <1>8, <1>9, <1>10, <1>11, <1>12, <1>13, <1>14, <1>15, <1>16, <1>17, <1>18, <1>19, <1>20, <1>21, <1>22, <1>23, <1>24, <1>25, <1>26, <1>27, <1>28, <1>29, <1>30, <1>31, <1>32, <1>33, <1>34
     DEF Next, Run, Handle, Whatsmeow

-----------------------------------------------------------------------------
(* The theorems.                                                           *)

(* The strengthened invariant holds in every reachable state.              *)
THEOREM InductiveInvariant == Spec => []IInv
<1>1. Init => IInv
  BY TypeInit, PartsInit DEF IInv, Parts
<1>2. IInv /\ [Next]_vars => TypeOK'
  BY TypeStep DEF IInv, Memory
<1>3. IInv /\ [Next]_vars => IInv'
  BY <1>2, PartsStep DEF IInv, Parts
<1> QED
  BY <1>1, <1>3, PTL DEF Spec

(* The table never has two devices (GetFirstDevice relies on it).          *)
THEOREM OneRow == Spec => []DeviceInv
<1>1. IInv => DeviceInv
  BY DEF IInv, DeviceInv
<1> QED
  BY <1>1, InductiveInvariant, PTL

(* A device that is logged in is stored with the keys it is logged in with *)
(* (Device.Save, PutDevice).                                               *)
THEOREM LoggedInIsStored == Spec => []LoggedInMeansStored
<1>1. IInv => LoggedInMeansStored
  BY DEF IInv, Memory, JidIsNeeded, DeviceParts, UnstoredIsDown, Stored, LoggedInMeansStored
<1> QED
  BY <1>1, InductiveInvariant, PTL

(* After Device.Delete there is no row, unless a Save was under way.       *)
THEOREM DeletionHolds == Spec => []DeletedIsGone
<1>1. IInv => DeletedIsGone
  BY DEF IInv, Memory, RowIsTheDevices, DeletedIsGone
<1> QED
  BY <1>1, InductiveInvariant, PTL

(* With a pair code the control loop is reached only with a device that is *)
(* or was stored, or because of a signal (runPairCode, Bot.run).           *)
THEOREM PairedBeforeLoop == Spec => []LoopMeansPaired
<1>1. IInv => LoopMeansPaired
  BY DEF IInv
<1> QED
  BY <1>1, InductiveInvariant, PTL

\* Only handleControl gives an ack.
LEMMA WhoAcknowledges ==
    ASSUME IInv, Next
    PROVE  ack' = None \/ (proc = "handling" /\ Handle)
<1> USE DEF IInv, Memory, OffMeansNothing, AckInLoop
<1>1. ASSUME NEW code \in BOOLEAN, Start(code) PROVE ack' = None
  BY <1>1 DEF Start, control, Running
<1>2. CASE Kill \/ Done \/ ConnectFails \/ PairPhoneFails \/ PairedBadly
  BY <1>2 DEF Kill, Done, ConnectFails, PairPhoneFails, PairedBadly, ReturnNil, ReturnError, End
<1>3. CASE Signal \/ RemoveSession \/ \E c \in Commands : TakeControl(c)
  BY <1>3 DEF Signal, RemoveSession, TakeControl, control, Running
<1>4. CASE Connect \/ PairPhone \/ PairedWell \/ WaitIsOver \/ QRIsOver
  BY <1>4 DEF Connect, PairPhone, PairedWell, WaitIsOver, QRIsOver, GoTo, control
<1>5. CASE Handle
  BY <1>5 DEF Handle, CommandFails, SendMessage, GetStatus, Disconnect, LogoutUnlinks,
              LogoutEnds, Answer
<1>6. CASE \E a \in Accounts : PairSaves(a) \/ PairSaveFails(a)
  BY <1>6 DEF PairSaves, PairSaveFails
<1>7. CASE PairRefused \/ PairSucceeds \/ PairFails \/ QRTimeout
  BY <1>7 DEF PairRefused, PairSucceeds, PairFails, QRTimeout, control
<1>8. CASE LogIn \/ ConnectionLost \/ Reconnect \/ LoggedOut
  BY <1>8 DEF LogIn, ConnectionLost, Reconnect, LoggedOut, ConnChange
<1>9. CASE Unlink \/ Save \/ SaveEnds
  BY <1>9 DEF Unlink, Save, SaveEnds
<1> QED
  BY <1>1, <1>2, <1>3, <1>4, <1>5, <1>6, <1>7, <1>8, <1>9 DEF Next, Run, Whatsmeow

(* A step that acknowledges a logout leaves neither a link at the server   *)
(* nor, with the exception above, a row (handleControl).                   *)
THEOREM LogoutIsComplete == Spec => AckedLogoutIsComplete
<1>1. ASSUME IInv, Next, ack' # None, ack'.ok, ack'.cmd \in {"logout", "delete"}
      PROVE  <<dev.id, dev.keys>> \notin linked' /\ (device' = Empty \/ raced')
  <2>1. Handle /\ proc = "handling" /\ ack = None
    BY <1>1, WhoAcknowledges DEF IInv, Memory, AckInLoop
  <2>2. Answer("delete", TRUE) /\ DeleteDevice /\ linked' = linked
    BY <1>1, <2>1 DEF Handle, CommandFails, SendMessage, GetStatus, Disconnect,
                      LogoutUnlinks, LogoutEnds, Answer
  <2>3. dev.id # None /\ <<dev.id, dev.keys>> \notin linked
    BY <1>1, <2>2 DEF Answer, IInv, Memory, LogoutInBetween
  <2> QED
    BY <1>1, <2>2, <2>3, DeletedRow
<1>2. IInv /\ [Next]_vars =>
          [ack' # None /\ ack'.ok /\ ack'.cmd \in {"logout", "delete"} =>
              /\ <<dev.id, dev.keys>> \notin linked'
              /\ device' = Empty \/ raced']_vars
  BY <1>1
<1> QED
  BY <1>2, InductiveInvariant, PTL DEF Spec, AckedLogoutIsComplete

-----------------------------------------------------------------------------
(* Bot implements Companion.  What the invariant does not say yet: whose   *)
(* keys are whose.                                                         *)

\* How many keys are known: those of a device that may be paired are not.
Known == IF Unpaired THEN made - 1 ELSE made

\* The device to be paired is the latest one, and nobody knows its keys; all
\* others were numbered before.
KeysInv ==
    /\ dev.keys <= made
    /\ Unpaired => dev.keys = made
    /\ \A a \in Accounts : device[a] # None => device[a] <= made
    /\ saving # None => saving[2] <= made
    /\ dev.id # None => device[dev.id] \in {None, dev.keys}
    /\ \A l \in linked : l[2] <= Known
    /\ pairing => <<dev.id, dev.keys>> \notin linked

\* The step is one of Companion, or nothing its variables tell.
Refines == [Promise!Next]_(Promise!vars)

LEMMA KeyTypes ==
    ASSUME TypeOK
    PROVE  /\ Keys \subseteq Nat /\ None \notin Keys /\ made \in Nat
           /\ dev \in DeviceType /\ dev.keys \in Nat
           /\ device \in [Accounts -> Keys \cup {None}]
           /\ saving # None => saving \in Accounts \X Keys
           /\ \A l \in linked : l \in Accounts \X Keys /\ l[2] \in Nat
<1>1. Keys \subseteq Nat /\ None \notin Keys
  BY BotAssumption DEF Keys
<1>2. dev \in DeviceType /\ dev.keys \in Nat /\ made \in Nat
  <2>1. dev \in DeviceType /\ dev.keys \in Keys \cup {0} /\ made \in Keys \cup {0}
    BY DEF TypeOK, DeviceType
  <2>2. Keys \cup {0} \subseteq Nat
    BY <1>1
  <2> QED
    BY <2>1, <2>2, Zenon
<1>3. \A l \in linked : l \in Accounts \X Keys /\ l[2] \in Nat
  BY <1>1 DEF TypeOK
<1> QED
  BY <1>1, <1>2, <1>3 DEF TypeOK

\* Which keys are known, by number.
LEMMA KnownAre ==
    ASSUME TypeOK, Memory, KeysInv
    PROVE  Known \in Nat /\ KnownKeys = 1 .. Known /\ Known <= made
<1>1. Unpaired => made - 1 \in Nat
  <2> SUFFICES ASSUME Unpaired PROVE made \in Nat \ {0}
    OBVIOUS
  <2>1. dev.keys \in Keys /\ dev.keys = made
    BY DEF Unpaired, Memory, DeviceParts, KeysInv
  <2> QED
    BY <2>1, BotAssumption DEF Keys
<1> QED
  BY <1>1, KeyTypes DEF Known, KnownKeys

\* The rows are unchanged, or the connection, or the device.
LEMMA Unmoved ==
    /\ device' = device => StoredDevices' = StoredDevices
    /\ saving' = saving => LateSave' = LateSave
    /\ conn' # "in" => LoggedIn' = {}
    /\ conn # "in" => LoggedIn = {}
    /\ conn' = conn /\ dev' = dev => LoggedIn' = LoggedIn
    /\ made' = made /\ (Unpaired' <=> Unpaired) => Known' = Known /\ KnownKeys' = KnownKeys
BY DEF StoredDevices, LateSave, LoggedIn, Known, KnownKeys

(* Steps that change neither rows nor links nor devices: at most somebody  *)
(* goes offline.                                                           *)
LEMMA Quiet ==
    ASSUME IInv, KeysInv, UNCHANGED <<device, dev, made, saving, linked>>,
           Running' <=> Running, pairing' => pairing, conn' = conn \/ conn' # "in"
    PROVE  KeysInv' /\ Refines
<1>1. Unpaired' <=> Unpaired
  BY DEF Unpaired
<1>2. KeysInv'
  BY <1>1, Unmoved DEF KeysInv
<1>3. /\ StoredDevices' = StoredDevices /\ LateSave' = LateSave /\ KnownKeys' = KnownKeys
      /\ linked' = linked /\ Running' = Running /\ (LoggedIn' = LoggedIn \/ LoggedIn' = {})
  BY <1>1, Unmoved DEF Running
<1> QED
  BY <1>2, <1>3 DEF Refines, Promise!Next, Promise!GoOffline, Promise!vars

(* The process ends: the keys of a device that is not paired are known.    *)
LEMMA EndKeys ==
    ASSUME IInv, KeysInv, Running, NEW how, End(how)
    PROVE  KeysInv' /\ Refines
<1>1. /\ dev' = NoDevice /\ NoDevice.keys = 0 /\ NoDevice.id = None
      /\ saving' = None /\ ~pairing' /\ conn' = "down" /\ ~Running' /\ ~Unpaired'
      /\ UNCHANGED <<device, linked, made>>
  BY DEF End, NoDevice, Running, Unpaired
<1>2. Known' = made /\ KnownKeys' = 1 .. made
  BY <1>1 DEF Known, KnownKeys
<1>3. Known <= made /\ Known \in Nat /\ made \in Nat /\ KnownKeys = 1 .. Known
  BY KnownAre, KeyTypes DEF IInv
<1>4. \A l \in linked : l[2] <= made
  BY <1>3, KeyTypes DEF KeysInv, IInv
<1>5. KeysInv'
  BY <1>1, <1>2, <1>3, <1>4 DEF KeysInv
<1>6. KnownKeys \subseteq KnownKeys'
  BY <1>2, <1>3
<1>7. LoggedIn' = {} /\ LateSave' = {} /\ StoredDevices' = StoredDevices
  BY <1>1, Unmoved DEF LateSave
<1>8. Promise!Stop
  BY <1>1, <1>6, <1>7 DEF Promise!Stop
<1> QED
  BY <1>5, <1>8 DEF Refines, Promise!Next

(* A deletion of a device the server does not have.                        *)
LEMMA DeleteKeys ==
    ASSUME IInv, KeysInv, dev.id # None, DeleteDevice, conn' = "down", ~pairing',
           UNCHANGED <<made, saving, linked>>, Running' <=> Running,
           <<dev.id, dev.keys>> \notin linked
    PROVE  KeysInv' /\ Refines
<1>1. Running /\ Running' = Running /\ ~Unpaired /\ ~Unpaired' /\ ~dev.deleted
      /\ device' = Empty /\ dev'.id = None /\ dev'.keys = dev.keys
  BY DeletedRow DEF IInv, Memory, OffMeansNothing, DeviceParts, NoDevice, Running, Unpaired
<1>2. Known' = Known /\ KnownKeys' = KnownKeys /\ LateSave' = LateSave /\ LoggedIn' = {}
  BY <1>1, Unmoved
<1>3. KeysInv'
  BY <1>1, <1>2 DEF KeysInv, Empty
<1>4. StoredDevices' = {}
  BY <1>1, KeyTypes DEF StoredDevices, Empty, IInv
<1>5. StoredDevices \cap linked = {}
  <2> SUFFICES ASSUME NEW d \in Accounts \X Keys, device[d[1]] = d[2], d \in linked
               PROVE  FALSE
    BY DEF StoredDevices
  <2>1. d[1] \in Accounts /\ d[2] \in Keys /\ d[2] # None
    BY KeyTypes DEF IInv
  <2>2. d[1] = dev.id /\ d[2] = dev.keys
    BY <1>1, <2>1 DEF IInv, Memory, RowIsTheDevices, KeysInv
  <2> QED
    BY <2>2
<1>6. Promise!Delete
  BY <1>1, <1>2, <1>4, <1>5 DEF Promise!Delete
<1> QED
  BY <1>3, <1>6 DEF Refines, Promise!Next

(* The three places where a device is deleted: by whatsmeow, because the   *)
(* confirmation cannot be sent, and by the second half of a logout.        *)
LEMMA LoggedOutKeys ==
    ASSUME IInv, KeysInv, LoggedOut
    PROVE  KeysInv' /\ Refines
<1>1. /\ dev.id # None /\ <<dev.id, dev.keys>> \notin linked /\ conn' = "down" /\ ~pairing'
      /\ UNCHANGED <<proc, made, saving, linked>>
  BY DEF LoggedOut, Linked, ConnChange
<1>2. CASE DeleteDevice
  BY <1>1, <1>2, DeleteKeys DEF Running
<1>3. CASE DeleteFails
  BY <1>1, <1>3, Quiet DEF DeleteFails, store, Running
<1> QED
  BY <1>2, <1>3 DEF LoggedOut

LEMMA PairFailsKeys ==
    ASSUME IInv, KeysInv, PairFails
    PROVE  KeysInv' /\ Refines
<1>1. /\ pairing /\ conn' = "down" /\ ~pairing'
      /\ UNCHANGED <<proc, made, saving, linked>>
  BY DEF PairFails, Result
<1>2. dev.id # None /\ <<dev.id, dev.keys>> \notin linked
  BY <1>1 DEF IInv, Memory, JidIsNeeded, KeysInv
<1>3. CASE DeleteDevice
  BY <1>1, <1>2, <1>3, DeleteKeys DEF Running
<1>4. CASE DeleteFails
  BY <1>1, <1>4, Quiet DEF DeleteFails, store, Running
<1> QED
  BY <1>3, <1>4 DEF PairFails

LEMMA LogoutEndsKeys ==
    ASSUME IInv, KeysInv, LogoutEnds
    PROVE  KeysInv' /\ Refines
<1>1. /\ cmd = "delete" /\ (Running' <=> Running)
      /\ UNCHANGED <<conn, pairing, saving, made, linked>>
  BY DEF LogoutEnds, Answer, Running
<1>2. dev.id # None /\ conn = "down" /\ ~pairing /\ <<dev.id, dev.keys>> \notin linked
  BY <1>1 DEF IInv, Memory, LogoutInBetween
<1>3. CASE DeleteDevice
  BY <1>1, <1>2, <1>3, DeleteKeys
<1>4. CASE DeleteFails
  BY <1>1, <1>4, Quiet DEF DeleteFails, store
<1> QED
  BY <1>3, <1>4 DEF LogoutEnds

LEMMA StartKeys ==
    ASSUME IInv, KeysInv, NEW code \in BOOLEAN, Start(code)
    PROVE  KeysInv' /\ Refines
<1>1. ~Running /\ Running' /\ ~Unpaired
      /\ UNCHANGED <<device, conn, pairing, saving, linked>> /\ dev.id = None
      /\ conn = "down" /\ ~pairing /\ saving = None
  BY DEF Start, Running, Unpaired, whats, IInv, Memory, OffMeansNothing, NoDevice
<1>2. Known = made /\ KnownKeys = 1 .. made
  BY <1>1 DEF Known, KnownKeys
<1>3. KeysInv' /\ Known' = Known /\ KnownKeys' = KnownKeys
  <2>1. CASE NewDevice
    <3>1. /\ made' = made + 1 /\ dev'.keys = made' /\ dev'.id = None /\ ~dev'.deleted
          /\ \A a \in Accounts : device[a] = None
      BY <2>1 DEF NewDevice, NoDevice, Empty
    <3>2. Unpaired' /\ made' - 1 = made /\ made' <= made'
      BY <1>1, <3>1, KeyTypes DEF Unpaired, IInv
    <3>3. Known' = Known /\ KnownKeys' = KnownKeys
      BY <1>2, <3>2 DEF Known, KnownKeys
    <3> QED
      BY <1>1, <3>1, <3>2, <3>3 DEF KeysInv
  <2>2. CASE StoredDevice
    <3>1. PICK a \in Accounts :
             /\ device[a] # None
             /\ dev' = [keys |-> device[a], id |-> a, init |-> TRUE, deleted |-> FALSE]
      BY <2>2 DEF StoredDevice
    <3>2. dev'.id = a /\ dev'.keys = device[a] /\ a # None /\ made' = made
      BY <2>2, <3>1, BotAssumption DEF StoredDevice
    <3>3. ~Unpaired'
      BY <3>2 DEF Unpaired
    <3>4. Known' = Known /\ KnownKeys' = KnownKeys
      BY <1>1, <3>2, <3>3, Unmoved
    <3> QED
      BY <1>1, <3>1, <3>2, <3>3, <3>4 DEF KeysInv
  <2> QED
    BY <2>1, <2>2 DEF Start
<1>4. StoredDevices' = StoredDevices /\ LateSave' = LateSave /\ LoggedIn' = LoggedIn
  BY <1>1, Unmoved
<1>5. Promise!Start
  BY <1>1, <1>3, <1>4 DEF Promise!Start
<1> QED
  BY <1>3, <1>5 DEF Refines, Promise!Next

LEMMA RemoveKeys ==
    ASSUME IInv, KeysInv, RemoveSession
    PROVE  KeysInv' /\ Refines
<1>1. ~Running /\ ~Running' /\ Running' = Running /\ device' = Empty /\ dev.id = None
      /\ UNCHANGED <<dev, conn, pairing, saving, linked, made>>
  BY DEF RemoveSession, Running, whats, IInv, Memory, OffMeansNothing, NoDevice
<1>2. (Unpaired' <=> Unpaired) /\ \A a \in Accounts : device'[a] = None
  BY <1>1 DEF Unpaired, Empty
<1>3. /\ Known' = Known /\ KnownKeys' = KnownKeys /\ LateSave' = LateSave
      /\ LoggedIn' = LoggedIn
  BY <1>1, <1>2, Unmoved
<1>4. KeysInv'
  BY <1>1, <1>2, <1>3 DEF KeysInv
<1>5. StoredDevices' = {}
  BY <1>2, KeyTypes DEF StoredDevices, IInv
<1>6. Promise!RemoveFiles
  BY <1>1, <1>3, <1>5 DEF Promise!RemoveFiles
<1> QED
  BY <1>4, <1>6 DEF Refines, Promise!Next

\* A device that can be paired: there is no row, and nobody knows its keys.
LEMMA PairableKeys ==
    ASSUME IInv, KeysInv, Pairable
    PROVE  /\ Running /\ Unpaired /\ dev.keys = made /\ made \in Keys
           /\ Known = made - 1 /\ KnownKeys = 1 .. made - 1
           /\ \A a \in Accounts : device[a] = None
           /\ StoredDevices = {} /\ LoggedIn = {}
           /\ \A l \in linked : l[2] < made
<1>1. Running /\ Unpaired /\ dev.keys = made /\ made \in Keys
  BY DEF Pairable, Running, Unpaired, KeysInv, IInv, Memory, DeviceParts
<1>2. Known = made - 1 /\ KnownKeys = 1 .. made - 1
  BY <1>1 DEF Known, KnownKeys
<1>3. \A a \in Accounts : device[a] = None
  BY <1>1, BotAssumption DEF Pairable, IInv, Memory, RowIsTheDevices
<1>4. StoredDevices = {} /\ LoggedIn = {}
  BY <1>3, KeyTypes DEF StoredDevices, LoggedIn, Pairable, IInv
<1>5. \A l \in linked : l[2] < made
  BY <1>2, KeyTypes DEF KeysInv, IInv
<1> QED
  BY <1>1, <1>2, <1>3, <1>4, <1>5

LEMMA PairSavesKeys ==
    ASSUME IInv, KeysInv, NEW a \in Accounts, PairSaves(a)
    PROVE  KeysInv' /\ Refines
<1>1. /\ Pairable /\ PutDevice(a, dev.keys) /\ conn = "up" /\ conn' = conn
      /\ UNCHANGED <<proc, saving, linked, made>>
      /\ dev'.id = a /\ dev'.keys = dev.keys
  BY KeyTypes DEF PairSaves, Pairable, IInv, DeviceType
<1>2. /\ Running /\ Running' = Running /\ dev.keys = made /\ made \in Keys /\ made \in Nat
      /\ Known = made - 1 /\ KnownKeys = 1 .. made - 1 /\ StoredDevices = {} /\ LoggedIn = {}
      /\ (\A b \in Accounts : device[b] = None) /\ \A l \in linked : l[2] < made
  BY <1>1, PairableKeys, KeyTypes DEF Running, IInv
<1>3. a # None /\ ~Unpaired'
  BY <1>1, BotAssumption DEF Unpaired
<1>4. Known' = made /\ KnownKeys' = 1 .. made
  BY <1>1, <1>3 DEF Known, KnownKeys
<1>5. \A b \in Accounts : device'[b] = IF b = a THEN made ELSE None
  BY <1>1, <1>2, KeyTypes DEF PutDevice, IInv
<1>6. KeysInv'
  <2>1. \A l \in linked : l[2] <= made
    BY <1>2, KeyTypes DEF IInv
  <2>2. <<a, made>> \notin linked
    BY <1>2
  <2> QED
    BY <1>1, <1>2, <1>3, <1>4, <1>5, <2>1, <2>2 DEF KeysInv
<1>7. StoredDevices' = {<<a, made>>}
  BY <1>2, <1>5, KeyTypes DEF StoredDevices, IInv
<1>8. KnownKeys' = KnownKeys \cup {made} /\ made \notin KnownKeys
  BY <1>2, <1>4, BotAssumption DEF Keys
<1>9. LoggedIn' = {} /\ LateSave' = LateSave
  BY <1>1, Unmoved
<1>10. Promise!Pair(<<a, made>>)
  BY <1>1, <1>2, <1>7, <1>8, <1>9 DEF Promise!Pair
<1>11. <<a, made>> \in Accounts \X Keys
  BY <1>2
<1> QED
  BY <1>6, <1>10, <1>11 DEF Refines, Promise!Next

LEMMA PairSaveFailsKeys ==
    ASSUME IInv, KeysInv, NEW a \in Accounts, PairSaveFails(a)
    PROVE  KeysInv' /\ Refines
<1>1. /\ Pairable /\ conn' = "down" /\ ~pairing'
      /\ UNCHANGED <<proc, device, saving, linked, made>>
      /\ dev'.id = a /\ dev'.keys = dev.keys
  BY KeyTypes DEF PairSaveFails, Result, IInv, DeviceType
<1>2. /\ Running /\ Running' = Running /\ dev.keys = made /\ made \in Nat
      /\ KnownKeys = 1 .. made - 1 /\ LoggedIn = {}
      /\ (\A b \in Accounts : device[b] = None) /\ \A l \in linked : l[2] < made
  BY <1>1, PairableKeys, KeyTypes DEF Running, IInv
<1>3. a # None /\ ~Unpaired'
  BY <1>1, BotAssumption DEF Unpaired
<1>4. Known' = made /\ KnownKeys' = 1 .. made
  BY <1>1, <1>3 DEF Known, KnownKeys
<1>5. \A l \in linked : l[2] <= made
  BY <1>2, KeyTypes DEF IInv
<1>6. KeysInv'
  BY <1>1, <1>2, <1>3, <1>4, <1>5 DEF KeysInv
<1>7. LoggedIn' = {} /\ LateSave' = LateSave /\ StoredDevices' = StoredDevices
  BY <1>1, Unmoved
<1>8. Promise!GiveUp
  BY <1>1, <1>2, <1>4, <1>7 DEF Promise!GiveUp
<1> QED
  BY <1>6, <1>8 DEF Refines, Promise!Next

LEMMA PairSucceedsKeys ==
    ASSUME IInv, KeysInv, PairSucceeds
    PROVE  KeysInv' /\ Refines
<1> DEFINE d == <<dev.id, dev.keys>>
<1>1. /\ Running /\ pairing /\ ~pairing' /\ conn' = "lost"
      /\ linked' \in {linked, linked \cup {d}}
      /\ UNCHANGED <<proc, device, dev, saving, made>>
  BY DEF PairSucceeds, Result, store
<1>2. dev.id # None /\ Stored /\ conn # "in"
  BY <1>1 DEF IInv, Memory, JidIsNeeded, UnstoredIsDown
<1>3. d \in Accounts \X Keys /\ d \in StoredDevices
  BY <1>1, <1>2, KeyTypes DEF IInv, Memory, DeviceParts, DeviceType, Stored, StoredDevices
<1>4. ~Unpaired /\ ~Unpaired' /\ Running' = Running
  BY <1>1, <1>2 DEF Unpaired, Running
<1>5. /\ Known' = Known /\ Known = made /\ KnownKeys' = KnownKeys
      /\ StoredDevices' = StoredDevices /\ LateSave' = LateSave
      /\ LoggedIn' = LoggedIn
  BY <1>1, <1>2, <1>4, Unmoved DEF Known
<1>6. KeysInv'
  BY <1>1, <1>4, <1>5 DEF KeysInv
<1>7. CASE linked' = linked
  BY <1>4, <1>5, <1>6, <1>7 DEF Refines, Promise!vars
<1>8. CASE linked' = linked \cup {d}
  <2>1. Promise!Link(d)
    BY <1>1, <1>3, <1>4, <1>5, <1>8 DEF Promise!Link
  <2> QED
    BY <1>3, <1>6, <2>1 DEF Refines, Promise!Next
<1> QED
  BY <1>1, <1>7, <1>8

LEMMA LogInKeys ==
    ASSUME IInv, KeysInv, LogIn
    PROVE  KeysInv' /\ Refines
<1> DEFINE d == <<dev.id, dev.keys>>
<1>1. /\ conn = "up" /\ conn' = "in" /\ dev.id # None /\ d \in linked
      /\ UNCHANGED <<proc, device, dev, saving, linked, made, pairing>>
  BY DEF LogIn, Linked, ConnChange, store
<1>2. Running /\ Stored /\ ~dev.deleted
  BY <1>1 DEF IInv, Memory, OffMeansNothing, UnstoredIsDown, DeviceParts
<1>3. (Unpaired' <=> Unpaired) /\ Running' = Running
  BY <1>1 DEF Unpaired, Running
<1>4. /\ Known' = Known /\ KnownKeys' = KnownKeys
      /\ StoredDevices' = StoredDevices /\ LateSave' = LateSave
  BY <1>1, <1>3, Unmoved
<1>5. KeysInv'
  BY <1>1, <1>3, <1>4 DEF KeysInv
<1>6. LoggedIn' = {d}
  BY <1>1 DEF LoggedIn
<1>7. d \in Accounts \X Keys
  BY <1>1, KeyTypes DEF IInv
<1>8. StoredDevices = {d}
  <2>1. d \in StoredDevices
    BY <1>2, <1>7 DEF StoredDevices, Stored
  <2>2. ASSUME NEW e \in StoredDevices PROVE e = d
    <3>1. e \in Accounts \X Keys /\ device[e[1]] = e[2] /\ e[2] # None
      BY KeyTypes DEF StoredDevices, IInv
    <3>2. e[1] = dev.id
      BY <1>2, <3>1 DEF IInv, Memory, RowIsTheDevices
    <3> QED
      BY <1>2, <3>1, <3>2 DEF Stored
  <2> QED
    BY <2>1, <2>2
<1>9. Promise!LogIn(d)
  BY <1>1, <1>2, <1>3, <1>4, <1>6, <1>8 DEF Promise!LogIn
<1> QED
  BY <1>5, <1>7, <1>9 DEF Refines, Promise!Next

LEMMA UnlinkKeys ==
    ASSUME IInv, KeysInv, Unlink
    PROVE  KeysInv' /\ Refines
<1>1. PICK l \in linked : linked' = linked \ {l}
  BY DEF Unlink
<1>2. UNCHANGED <<proc, device, dev, saving, made, pairing, conn>>
  BY DEF Unlink, store, whats
<1>3. (Unpaired' <=> Unpaired) /\ Running' = Running
  BY <1>2 DEF Unpaired, Running
<1>4. /\ Known' = Known /\ KnownKeys' = KnownKeys /\ LoggedIn' = LoggedIn
      /\ StoredDevices' = StoredDevices /\ LateSave' = LateSave
  BY <1>2, <1>3, Unmoved
<1>5. KeysInv'
  BY <1>1, <1>2, <1>3, <1>4 DEF KeysInv
<1>6. l \in Accounts \X Keys
  BY KeyTypes DEF IInv
<1>7. Promise!Unlink(l)
  BY <1>1, <1>3, <1>4 DEF Promise!Unlink
<1> QED
  BY <1>5, <1>6, <1>7 DEF Refines, Promise!Next

LEMMA LogoutKeys ==
    ASSUME IInv, KeysInv, LogoutUnlinks
    PROVE  KeysInv' /\ Refines
<1>1. /\ conn = "in" /\ conn' = "down" /\ linked' = linked \ {<<dev.id, dev.keys>>}
      /\ UNCHANGED <<proc, device, dev, saving, made, pairing>>
  BY DEF LogoutUnlinks, store
<1>2. (Unpaired' <=> Unpaired) /\ Running' = Running
  BY <1>1 DEF Unpaired, Running
<1>3. /\ Known' = Known /\ KnownKeys' = KnownKeys /\ LoggedIn' = {}
      /\ StoredDevices' = StoredDevices /\ LateSave' = LateSave
  BY <1>1, <1>2, Unmoved
<1>4. KeysInv'
  BY <1>1, <1>2, <1>3 DEF KeysInv
<1>5. LoggedIn = {<<dev.id, dev.keys>>}
  BY <1>1 DEF LoggedIn
<1>6. Promise!LogOut
  BY <1>1, <1>2, <1>3, <1>5 DEF Promise!LogOut
<1> QED
  BY <1>4, <1>6 DEF Refines, Promise!Next

LEMMA SaveKeys ==
    ASSUME IInv, KeysInv, Save
    PROVE  KeysInv' /\ Refines
<1>1. /\ conn = "in" /\ saving = None /\ saving' = <<dev.id, dev.keys>>
      /\ UNCHANGED <<proc, device, dev, made, pairing, conn, linked>>
  BY DEF Save, store
<1>2. (Unpaired' <=> Unpaired) /\ Running' = Running
  BY <1>1 DEF Unpaired, Running
<1>3. /\ Known' = Known /\ KnownKeys' = KnownKeys /\ LoggedIn' = LoggedIn
      /\ StoredDevices' = StoredDevices
  BY <1>1, <1>2, Unmoved
<1>4. KeysInv'
  BY <1>1, <1>2, <1>3 DEF KeysInv
<1>5. dev.id # None /\ dev.keys \in Keys /\ saving' \in Accounts \X Keys
  BY <1>1, KeyTypes DEF IInv, Memory, JidIsNeeded, OffMeansNothing, DeviceParts, DeviceType
<1>6. saving' # None
  BY <1>5, BotAssumption
<1>7. LateSave = {} /\ LateSave' = LoggedIn /\ LoggedIn # {}
  BY <1>1, <1>6 DEF LateSave, LoggedIn
<1>8. Promise!SaveBegins
  BY <1>2, <1>3, <1>1, <1>7 DEF Promise!SaveBegins
<1> QED
  BY <1>4, <1>8 DEF Refines, Promise!Next

LEMMA SaveEndsKeys ==
    ASSUME IInv, KeysInv, SaveEnds
    PROVE  KeysInv' /\ Refines
<1>1. /\ saving # None /\ saving' = None
      /\ UNCHANGED <<proc, dev, made, pairing, conn, linked>>
      /\ PutDevice(saving[1], saving[2]) \/ device' = device
  BY DEF SaveEnds
<1>2. (Unpaired' <=> Unpaired) /\ Running' = Running
  BY <1>1 DEF Unpaired, Running
<1>3. /\ Known' = Known /\ KnownKeys' = KnownKeys /\ LoggedIn' = LoggedIn
      /\ LateSave = {saving} /\ LateSave' = {}
  BY <1>1, <1>2, Unmoved DEF LateSave
<1>4. saving \in Accounts \X Keys
  BY <1>1, KeyTypes DEF IInv
<1>5. CASE device' = device
  <2>1. KeysInv' /\ StoredDevices' = StoredDevices
    BY <1>1, <1>2, <1>3, <1>5, Unmoved DEF KeysInv
  <2>2. Promise!SaveEnds
    BY <1>1, <1>2, <1>3, <2>1 DEF Promise!SaveEnds
  <2> QED
    BY <2>1, <2>2 DEF Refines, Promise!Next
<1>6. CASE PutDevice(saving[1], saving[2]) /\ device' # device
  <2>1. dev.deleted
    BY <1>1, <1>6, KeyTypes DEF IInv, Memory, JidIsNeeded, Stored, PutDevice, DeviceParts,
                                OffMeansNothing
  <2>2. dev.id = None /\ (\A a \in Accounts : device[a] = None)
    BY <1>1, <2>1 DEF IInv, Memory, RowIsTheDevices, DeviceParts, Empty
  <2>3. \A a \in Accounts : device'[a] = IF a = saving[1] THEN saving[2] ELSE None
    BY <1>4, <1>6, <2>2, KeyTypes DEF PutDevice, IInv
  <2>4. KeysInv'
    BY <1>1, <1>2, <1>3, <2>2, <2>3 DEF KeysInv
  <2>5. StoredDevices = {}
    BY <2>2, KeyTypes DEF StoredDevices, IInv
  <2>6. StoredDevices' = {saving}
    BY <1>4, <2>3, KeyTypes DEF StoredDevices, IInv
  <2>7. Promise!SaveEnds
    BY <1>1, <1>2, <1>3, <2>5, <2>6 DEF Promise!SaveEnds
  <2> QED
    BY <2>4, <2>7 DEF Refines, Promise!Next
<1> QED
  BY <1>1, <1>5, <1>6

(* A step of Bot is a step of Companion, or none.                          *)
LEMMA KeysStep == IInv /\ KeysInv /\ [Next]_vars => KeysInv' /\ Refines
<1> SUFFICES ASSUME IInv, KeysInv, [Next]_vars PROVE KeysInv' /\ Refines
  OBVIOUS
<1>1. CASE \E code \in BOOLEAN : Start(code)
  BY <1>1, StartKeys
<1>2. CASE Kill \/ Done \/ ConnectFails \/ PairPhoneFails \/ PairedBadly
  <2>1. Running
    BY <1>2 DEF Kill, Done, ConnectFails, PairPhoneFails, PairedBadly, Running
  <2>2. \E how \in {"killed", "closed", "exited"} : End(how)
    BY <1>2 DEF Kill, Done, ConnectFails, PairPhoneFails, PairedBadly, ReturnNil, ReturnError
  <2> QED
    BY <2>1, <2>2, EndKeys
<1>3. CASE RemoveSession
  BY <1>3, RemoveKeys
<1>4. CASE Signal \/ \E c \in Commands : TakeControl(c)
  BY <1>4, Quiet DEF Signal, TakeControl, Running, store, whats
<1>5. CASE Connect \/ PairPhone \/ PairedWell \/ WaitIsOver \/ QRIsOver
  BY <1>5, Quiet DEF Connect, PairPhone, PairedWell, WaitIsOver, QRIsOver, GoTo, Running, store
<1>6. CASE CommandFails \/ SendMessage \/ GetStatus \/ Disconnect
  BY <1>6, Quiet DEF CommandFails, SendMessage, GetStatus, Disconnect, Answer, Running, store
<1>7. CASE LogoutUnlinks
  BY <1>7, LogoutKeys
<1>8. CASE LogoutEnds
  BY <1>8, LogoutEndsKeys
<1>9. CASE \E a \in Accounts : PairSaves(a) \/ PairSaveFails(a)
  BY <1>9, PairSavesKeys, PairSaveFailsKeys
<1>10. CASE PairRefused \/ QRTimeout
  BY <1>10, Quiet DEF PairRefused, QRTimeout, Result, Running, store
<1>11. CASE PairSucceeds
  BY <1>11, PairSucceedsKeys
<1>12. CASE PairFails
  BY <1>12, PairFailsKeys
<1>13. CASE LogIn
  BY <1>13, LogInKeys
<1>14. CASE ConnectionLost \/ Reconnect
  BY <1>14, Quiet DEF ConnectionLost, Reconnect, ConnChange, Running, store
<1>15. CASE LoggedOut
  BY <1>15, LoggedOutKeys
<1>16. CASE Unlink
  BY <1>16, UnlinkKeys
<1>17. CASE Save
  BY <1>17, SaveKeys
<1>18. CASE SaveEnds
  BY <1>18, SaveEndsKeys
<1>19. CASE UNCHANGED vars
  BY <1>19, Quiet DEF vars, Running, store, whats
<1> QED
  BY <1>1, <1>2, <1>3, <1>4, <1>5, <1>6, <1>7, <1>8, <1>9, <1>10, <1>11, <1>12, <1>13, <1>14,
     <1>15, <1>16, <1>17, <1>18, <1>19 DEF Next, Run, Handle, Whatsmeow

\* At first nothing is running, stored, linked or known.
LEMMA KeysStart == Init => KeysInv /\ Promise!Init
<1> SUFFICES ASSUME Init PROVE KeysInv /\ Promise!Init
  OBVIOUS
<1>1. /\ dev.keys = 0 /\ dev.id = None /\ made = 0 /\ saving = None /\ linked = {}
      /\ ~pairing /\ conn = "down" /\ ~Running /\ ~Unpaired
      /\ \A a \in Accounts : device[a] = None
  BY DEF Init, NoDevice, Running, Unpaired, Empty
<1>2. KeysInv
  BY <1>1 DEF KeysInv
<1>3. KnownKeys = {}
  BY <1>1 DEF KnownKeys
<1>4. StoredDevices = {} /\ LoggedIn = {} /\ LateSave = {}
  <2>1. \A k \in Keys : k # None
    BY BotAssumption DEF Keys
  <2> QED
    BY <1>1, <2>1 DEF StoredDevices, LoggedIn, LateSave
<1> QED
  BY <1>1, <1>2, <1>3, <1>4 DEF Promise!Init

(* main, pairing, whatsmeow and commands implement Companion: the server   *)
(* links only what is stored here, under keys no device had before, and    *)
(* while the process runs a row is given up only when the server does not  *)
(* have the device (Device.Save and Delete, handleControl, GetFirstDevice).*)
THEOREM Refinement == Spec => ImplementsCompanion
<1>1. Init => KeysInv /\ Promise!Init
  BY KeysStart
<1>2. IInv /\ KeysInv /\ [Next]_vars => KeysInv' /\ [Promise!Next]_(Promise!vars)
  BY KeysStep DEF Refines
<1> QED
  BY <1>1, <1>2, InductiveInvariant, PTL DEF Spec, ImplementsCompanion, Promise!Spec
==============================================================================
