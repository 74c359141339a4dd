------------------------------ MODULE DeviceRow ------------------------------
(***************************************************************************)
(* What all tables of SQLStore share: the row of the device their foreign  *)
(* keys refer to, the stores the Device in memory points at, and the time. *)
(***************************************************************************)
EXTENDS Naturals

CONSTANT MaxNow     \* bound on the time, and on timestamps

ASSUME MaxNowAssumption == MaxNow \in Nat

VARIABLES
    row,      \* the table device has the row of this device
    stores,   \* where SetAllStores points: "sql" or "noop"
    now

deviceVars == <<row, stores, now>>

DeviceInit == row = TRUE /\ stores = "sql" /\ now = 0

(* A call reaches the database.  NoopStore answers with ErrDeviceDeleted    *)
(* instead; only its event and retry buffers say nothing and do nothing.   *)
Callable == stores = "sql"

\* Mutant: foreign keys are off.
InsertableAnyway == Callable

(* An INSERT into a table that refers to the device: Upgrade insists on    *)
(* foreign keys being enforced.                                            *)
Insertable == Callable /\ row

(* Device.Delete: the row and all that refers to it in one statement; other *)
(* goroutines run before the stores are replaced.                          *)
DeleteRow == Callable /\ row' = FALSE /\ UNCHANGED <<stores, now>>
SetNoop   == Callable /\ ~row /\ stores' = "noop" /\ UNCHANGED <<row, now>>

(* A process with a new Device: PutDevice inserts its row.                 *)
PairRow == ~row /\ row' = TRUE /\ stores' = "sql" /\ UNCHANGED now

Tick == now < MaxNow /\ now' = now + 1 /\ UNCHANGED <<row, stores>>
=============================================================================
