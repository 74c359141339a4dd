\* One person with a PN and a LID session, two goroutines, crashes.
CONSTANTS
    u1 = u1
    u2 = u2
    t1 = t1
    t2 = t2
    Persons = {u1}
    Threads = {t1, t2}
    NoSession = NoSession
    Absent = Absent
    Nothing = Nothing
    MaxMade = 2
    MaxState = 1
SYMMETRY Symmetry
SPECIFICATION Spec
INVARIANTS
    StatesAreUsedOnce
    SessionInv
    MigratedMeansMoved
PROPERTIES
    ImplementsRatchet
