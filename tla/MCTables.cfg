\* The tables of the store, one part with the device per behaviour; the LID store
\* with a small table, because every action of two contending goroutines is
\* explored under strong fairness.
CONSTANTS
    l1 = l1
    l2 = l2
    p1 = p1
    p2 = p2
    t1 = t1
    t2 = t2
    NoUser = NoUser
    Absent = Absent
    NoThread = NoThread
    Batches <- MCLiveBatches
    Lids = {l1, l2}
    Pns = {p1}
    Threads = {t1, t2}
    MaxNow = 2
    m1 = m1
    m2 = m2
    h1 = h1
    h2 = h2
    Messages = {m1, m2}
    EventThreads = {h1, h2}
    EventKeep = 1
    MaxFaults = 1
    i1 = i1
    i2 = i2
    Indexes = {i1, i2}
    MaxVersion = 3
    k1 = k1
    k2 = k2
    SyncKeyIds = {k1, k2}
    u1 = u1
    u2 = u2
    v1 = v1
    d1 = d1
    d2 = d2
    SignalPns = {u1, u2}
    SignalLids = {v1}
    LidUserOf <- MCLidUserOf
    Addresses <- MCAddresses
    Lookalikes <- MCLookalikes
    IdentityKeys = {k1, k2}
    SenderKeys = {k1}
    PeerLids = {l1, l2}
    PeerPns = {p1}
    TokenBatches <- MCTokenBatches
    x = x
    y = y
    Texts = {x, y}
    NoText = NoText
    OutgoingKeep = 1
SPECIFICATION MCSpec
INVARIANTS
    TablesTypeOK
    NothingOutlivesItsDevice
    NoEventIsLost
    HandledOnce
    MacsMatchTheHash
    NewestIsReturned
    StoredIsReadBack
PROPERTIES
    KeysGoWithTheirUser
    EventsAreHandled
    EveryCallReturns
