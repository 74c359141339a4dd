\* What the interface says of the arguments of PutContactName.
CONSTANTS
    u1 = u1
    u2 = u2
    t1 = t1
    t2 = t2
    x = x
    y = y
    Users = {u1}
    NoText = NoText
    Texts = {x, y}
    Absent = Absent
    Threads = {t1}
    NoThread = NoThread
    Names <- MCNames
    Phones = {x, y}
SPECIFICATION Spec
INVARIANTS
    StoredAsTheInterfaceSays
