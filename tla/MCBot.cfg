\* Two accounts that may pair one after the other, with up to three devices.
CONSTANTS
    a1 = a1
    a2 = a2
    Accounts = {a1, a2}
    None = None
    MaxKeys = 3
SPECIFICATION FairSpec
INVARIANTS
    DeviceInv
    LoggedInMeansStored
    DeletedIsGone
    LoopMeansPaired
PROPERTIES
    AckedLogoutIsComplete
    ImplementsCompanion
    SignalEndsProcess
