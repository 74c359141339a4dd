\* Two goroutines, two LIDs, two PNs, every fault, a crash at any moment: the
\* properties and the refinement of LidTable.
CONSTANTS
    l1 = l1
    l2 = l2
    p1 = p1
    p2 = p2
    t1 = t1
    t2 = t2
    Lids = {l1, l2}
    Pns = {p1, p2}
    NoUser = NoUser
    Absent = Absent
    Threads = {t1, t2}
    NoThread = NoThread
    Batches <- MCBatches
SYMMETRY ThreadSymmetry
SPECIFICATION Spec
INVARIANTS
    TypeOK
    TablesAreOneToOne
    CachesMatchTable
    RepliesMatchTable
PROPERTIES
    ImplementsTable
