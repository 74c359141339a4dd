\* Two goroutines, two contacts: bulk puts of one or both, lookups and puts
\* interleave.
CONSTANTS
    u1 = u1
    u2 = u2
    t1 = t1
    t2 = t2
    x = x
    y = y
    Users = {u1, u2}
    NoText = NoText
    Texts = {x}
    Absent = Absent
    Threads = {t1, t2}
    NoThread = NoThread
    Names <- MCNames
    Phones = {x}
SYMMETRY Symmetry
SPECIFICATION Spec
INVARIANTS
    CacheInv
    AckedNamesAreStored
PROPERTIES
    ReportsFormAChain
