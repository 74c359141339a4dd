\* What callers may expect of an acknowledged put, without the exemption for
\* a transaction that failed earlier: TLC finds the lost mapping.
CONSTANTS
    l1 = l1
    l2 = l2
    p1 = p1
    p2 = p2
    t1 = t1
    t2 = t2
    NoUser = NoUser
    Absent = Absent
    NoThread = NoThread
    Batches <- MCBatches
    Lids = {l1, l2}
    Pns = {p1, p2}
    Threads = {t1}
SPECIFICATION Spec
INVARIANTS
    AckedPutIsStored
