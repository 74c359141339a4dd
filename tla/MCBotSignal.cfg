\* What main.go says of its shutdown.
CONSTANTS
    a1 = a1
    a2 = a2
    Accounts = {a1}
    None = None
    MaxKeys = 1
SPECIFICATION Spec
INVARIANTS
    SignalClosesDatabase
