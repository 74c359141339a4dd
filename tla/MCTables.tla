------------------------------ MODULE MCTables ------------------------------
(* The store: the tables of Tables and the LID store, small instances.     *)
EXTENDS MCLidMap, Tables

CONSTANTS m1, m2, h1, h2, i1, i2, k1, k2, u1, v1, u2, d1, d2, x, y

MCLidUserOf == [u \in {u1} |-> v1]

MCAddresses == {[user |-> u1, dev |-> d1], [user |-> u1, dev |-> d2],
                [user |-> v1, dev |-> d1], [user |-> v1, dev |-> d2],
                [user |-> u2, dev |-> d1]}

\* As a pattern the LID matches the other phone number.
MCLookalikes == {<<v1, u2>>}

MCTokenBatches ==
    {<<[user |-> u, ts |-> n]>> : u \in Jids, n \in 1..MaxNow}
    \cup {<<[user |-> u, ts |-> 2], [user |-> u, ts |-> 1]>> : u \in Jids}

-----------------------------------------------------------------------------
\* A behaviour uses one part of the store and the device: the parts share no
\* other variable but lid_map and the time, which the parts that read them get.
VARIABLE focus

mcvars == <<vars, tablesVars, focus>>

Parts == {"lids", "events", "sync", "keys", "signal", "tokens", "secrets", "sent", "settings"}

MCInit ==
    /\ Init /\ TablesInit
    /\ focus \in Parts
    /\ focus # "lids" => rows = {}

TablesPart ==
    \/ focus = "events" /\ EventStep
    \/ focus = "sync" /\ SyncStep
    \/ focus = "keys" /\ KeyStep
    \/ focus = "signal" /\ SignalStep
    \/ focus \in {"tokens", "secrets", "sent"} /\ MapStep
    \/ focus = "tokens" /\ TokenStep
    \/ focus = "secrets" /\ SecretStep
    \/ focus = "sent" /\ SentStep
    \/ focus = "settings" /\ SettingStep
    \/ focus \in {"events", "sent"} /\ ClockStep
    \/ DeviceStep

MCNext ==
    /\ UNCHANGED focus
    /\ \/ focus = "lids" /\ Next /\ UNCHANGED tablesVars
       \/ focus # "lids" /\ TablesPart /\ UNCHANGED vars

MCSpec ==
    /\ MCInit /\ [][MCNext]_mcvars
    /\ Fairness
    /\ EventFairness
=============================================================================
